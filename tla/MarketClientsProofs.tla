------------------------ MODULE MarketClientsProofs ------------------------
(***************************************************************************)
(* Theorems about who stands around the market: the agents that act on it, *)
(* the figures the frontend computes of it, the log it shows of it, and    *)
(* what its forms let through.                                             *)
(***************************************************************************)
EXTENDS FormChecks, AgentClient, LendingMarketProofs, SequenceTheorems

-----------------------------------------------------------------------------
(***************************************************************************)
(* Agents, for any requests, prices and number of transactions on their    *)
(* way.                                                                    *)
(*                                                                         *)
(* What lands was decided on long before, so the invariant carries along   *)
(* what was true then: a limit in hand is below the request it answers     *)
(* (Checked), hence what was sent is no more than what was asked (Sent).   *)
(***************************************************************************)
AnyIntent ==
    [action: {"BORROW", "WITHDRAW"}, amount: Requests]
        \cup [action: {"TRANSFER"}, amount: Requests, to: Users]

(* A check in hand: the Policy's limit is below the request it limits. *)
Checked ==
    {c \in [stage: {"checked"}, intent: AnyIntent, answer: PolicyResponse] :
        c.answer.decision = "LIMIT" => c.answer.permittedAmount <= c.intent.amount}

(* A transaction on its way asks for no more than the intent did. *)
Sent ==
    {t \in [intent: AnyIntent, answer: PolicyResponse, amount: Word] :
        t.amount <= t.intent.amount}

AgentInv ==
    /\ MarketTypeOK
    /\ call \in [Agents -> {NoCall} \cup Checked]
    /\ inFlight \in [Agents -> Seq(Sent)]
    /\ \A a \in Agents : Len(inFlight[a]) <= MaxInFlight

LEMMA IntentFields ==
    ASSUME NEW intent \in AnyIntent
    PROVE  /\ intent.action \in {"BORROW", "WITHDRAW", "TRANSFER"}
           /\ intent.amount \in Word /\ intent.amount \in Nat
           /\ intent.action = "TRANSFER" => intent.to \in Users
  <1>1. Requests \subseteq Word /\ Word \subseteq Nat
    BY AgentAssumption, EngineAssumption DEF Word
  <1>2. CASE intent \in [action: {"BORROW", "WITHDRAW"}, amount: Requests]
    BY <1>1, <1>2
  <1>3. CASE intent \in [action: {"TRANSFER"}, amount: Requests, to: Users]
    BY <1>1, <1>3
  <1> QED
    BY <1>2, <1>3 DEF AnyIntent

LEMMA IntentsOfAgent ==
    ASSUME NEW a \in Agents, NEW intent \in Intents(a)
    PROVE  intent \in AnyIntent
  <1>1. [action: {"TRANSFER"}, amount: Requests, to: Users \ {a}]
            \subseteq [action: {"TRANSFER"}, amount: Requests, to: Users]
    OBVIOUS
  <1> QED
    BY <1>1 DEF Intents, AnyIntent

LEMMA AgentInvGivesType == AgentInv => AgentTypeOK
  <1> SUFFICES ASSUME AgentInv, NEW a \in Agents
               PROVE  /\ call[a] = NoCall \/ call[a].answer \in PolicyResponse
                      /\ Len(inFlight[a]) <= MaxInFlight
                      /\ \A i \in 1..Len(inFlight[a]) : inFlight[a][i].amount \in Word
    BY DEF AgentInv, AgentTypeOK
  <1>1. call[a] \in {NoCall} \cup Checked /\ inFlight[a] \in Seq(Sent)
    BY DEF AgentInv
  <1>2. \A i \in 1..Len(inFlight[a]) : inFlight[a][i] \in Sent
    BY <1>1, ElementOfSeq
  <1> QED
    BY <1>1, <1>2 DEF AgentInv, Checked, Sent

(* The answers a client acts on are typed, and a limit is a limit. *)
LEMMA ExecutableAnswer ==
    ASSUME NEW a \in AssetState, NEW r \in Word, NEW m \in Nat,
           NEW action \in {"BORROW", "WITHDRAW", "TRANSFER"},
           CanExecuteFits(a, r, action), IsExecutable(CanExecute(a, r, action, m))
    PROVE  /\ CanExecute(a, r, action, m) \in PolicyResponse
           /\ CanExecute(a, r, action, m).decision = "LIMIT" =>
                 CanExecute(a, r, action, m).permittedAmount <= m
  <1>1. r \in Nat
    BY EngineAssumption DEF Word
  <1>2. a.lifecycle = "ACTIVE"
    BY DEF CanExecute, IsExecutable, Answer
  <1>3. CASE action = "BORROW"
    <2>1. CanExecute(a, r, action, m) = CapacityAnswer(CapacityOf(a, r), m)
      BY <1>2, <1>3 DEF CanExecute
    <2>2. CanExecute(a, r, action, m) \in PolicyResponse
      BY <1>1, <1>3, BorrowAnswerType
    <2>3. CapacityOf(a, r) \in Nat
      BY <1>1, CapacityNat
    <2> QED
      BY <2>1, <2>2, <2>3 DEF CapacityAnswer, Answer
  <1>4. CASE action \in {"WITHDRAW", "TRANSFER"}
    <2>1. CanExecute(a, r, action, m) = Answer("ALLOW", r, "OK")
      BY <1>2, <1>4 DEF CanExecute
    <2> QED
      BY <2>1 DEF Answer, PolicyResponse, Decision, Reason
  <1> QED
    BY <1>3, <1>4

LEMMA InitAgents == AgentInit => AgentInv
  <1> SUFFICES ASSUME AgentInit PROVE AgentInv
    OBVIOUS
  <1>1. 0 \in Word
    BY EngineAssumption DEF Word
  <1>2. asset \in AssetState
    BY ParametersType DEF AgentInit, LifecycleState
  <1>3. RegistryTypeOK
    BY <1>1, <1>2, MarketAssumption DEF AgentInit, RegistryTypeOK
  <1>4. collateral \in [Holders -> Nat] /\ borrowToken \in [Holders -> Nat]
    BY MarketAssumption DEF AgentInit, CollateralAtStart, BorrowTokenAtStart
  <1>5. MarketTypeOK
    BY <1>1, <1>3, <1>4, MarketAssumption DEF AgentInit, MarketTypeOK
  <1>6. <<>> \in Seq(Sent) /\ Len(<<>>) = 0
    BY EmptySeq
  <1>7. /\ inFlight \in [Agents -> Seq(Sent)]
        /\ \A a \in Agents : Len(inFlight[a]) <= MaxInFlight
    BY <1>6, AgentAssumption DEF AgentInit
  <1> QED
    BY <1>5, <1>7 DEF AgentInit, AgentInv

LEMMA EvaluateStep ==
    ASSUME AgentInv, NEW a \in Agents, NEW intent \in Intents(a),
           EvaluateAgentIntent(a, intent)
    PROVE  AgentInv'
  <1> DEFINE answer == PolicyAnswer(a, intent.action, intent.amount)
             checked == [stage |-> "checked", intent |-> intent, answer |-> answer]
  <1>1. /\ intent \in AnyIntent
        /\ intent.action \in {"BORROW", "WITHDRAW", "TRANSFER"}
        /\ intent.amount \in Nat
    BY IntentsOfAgent, IntentFields
  <1>2. asset \in AssetState /\ position[a] \in Word
    BY AgentAssumption DEF AgentInv, MarketTypeOK, RegistryTypeOK
  <1>3. /\ answer \in PolicyResponse
        /\ answer.decision = "LIMIT" => answer.permittedAmount <= intent.amount
    <2>1. /\ CanExecuteFits(asset, position[a], intent.action)
          /\ IsExecutable(CanExecute(asset, position[a], intent.action, intent.amount))
      BY DEF EvaluateAgentIntent, PolicyAnswer
    <2> QED
      BY <1>1, <1>2, <2>1, ExecutableAnswer DEF PolicyAnswer
  <1>4. call' = [call EXCEPT ![a] = checked] /\ UNCHANGED <<vars, inFlight>>
    BY DEF EvaluateAgentIntent
  <1> HIDE DEF answer
  <1>5. checked \in Checked
    BY <1>1, <1>3 DEF Checked
  <1>6. call' \in [Agents -> {NoCall} \cup Checked]
    BY <1>4, <1>5 DEF AgentInv
  <1> QED
    BY <1>4, <1>6
    DEF AgentInv, MarketTypeOK, RegistryTypeOK, vars, registryVars, lendingVars

LEMMA SendStep ==
    ASSUME AgentInv, NEW a \in Agents, SendTransaction(a)
    PROVE  AgentInv'
  <1> DEFINE amount == AmountToSubmit(call[a].intent, call[a].answer)
             sent == [intent |-> call[a].intent, answer |-> call[a].answer, amount |-> amount]
  <1>1. call[a] \in Checked
    BY DEF AgentInv, SendTransaction, NoCall
  <1>2. sent \in Sent
    <2>1. /\ call[a].intent \in AnyIntent /\ call[a].answer \in PolicyResponse
          /\ call[a].answer.decision = "LIMIT" =>
                call[a].answer.permittedAmount <= call[a].intent.amount
      BY <1>1 DEF Checked
    <2>2. call[a].intent.amount \in Word /\ call[a].intent.amount \in Nat
      BY <2>1, IntentFields
    <2>3. call[a].answer.permittedAmount \in Word
      BY <2>1 DEF PolicyResponse
    <2>4. amount \in Word /\ amount <= call[a].intent.amount
      BY <2>1, <2>2, <2>3 DEF AmountToSubmit
    <2> HIDE DEF amount
    <2> QED
      BY <2>1, <2>4 DEF Sent
  <1>3. /\ inFlight' = [inFlight EXCEPT ![a] = Append(inFlight[a], sent)]
        /\ call' = [call EXCEPT ![a] = NoCall] /\ UNCHANGED vars
        /\ Len(inFlight[a]) < MaxInFlight
    BY DEF SendTransaction
  <1> HIDE DEF sent
  <1>4. inFlight[a] \in Seq(Sent)
    BY DEF AgentInv
  <1>5. /\ Append(inFlight[a], sent) \in Seq(Sent)
        /\ Len(Append(inFlight[a], sent)) = Len(inFlight[a]) + 1
    BY <1>2, <1>4, AppendProperties
  <1>6. /\ inFlight' \in [Agents -> Seq(Sent)]
        /\ \A b \in Agents : Len(inFlight'[b]) <= MaxInFlight
    BY <1>3, <1>4, <1>5, AgentAssumption DEF AgentInv
  <1>7. call' \in [Agents -> {NoCall} \cup Checked]
    BY <1>3 DEF AgentInv
  <1> QED
    BY <1>3, <1>6, <1>7
    DEF AgentInv, MarketTypeOK, RegistryTypeOK, vars, registryVars, lendingVars

(* A transaction of an agent is a call of the market, for any word. *)
LEMMA ExecuteStep ==
    ASSUME MarketTypeOK, NEW a \in Agents, NEW tx \in Sent, Execute(a, tx)
    PROVE  /\ MarketTypeOK'
           /\ debt'[a] <= debt[a] + (IF tx.intent.action = "BORROW" THEN tx.intent.amount ELSE 0)
           /\ position[a] <= position'[a]
                  + (IF tx.intent.action = "WITHDRAW" THEN tx.intent.amount ELSE 0)
                  + (IF tx.intent.action = "TRANSFER" THEN tx.intent.amount ELSE 0)
  <1>1. /\ tx.amount \in Word /\ tx.amount \in Nat
        /\ tx.intent.amount \in Nat /\ tx.amount <= tx.intent.amount
        /\ tx.intent.action = "TRANSFER" => tx.intent.to \in Users
    <2>1. tx.intent \in AnyIntent /\ tx.amount \in Word /\ tx.amount <= tx.intent.amount
      BY DEF Sent
    <2> QED
      BY <2>1, IntentFields, EngineAssumption DEF Word
  <1>2. /\ a \in Users
        /\ position \in [Users -> Nat] /\ debt \in [Users -> Nat]
        /\ position[a] \in Nat /\ debt[a] \in Nat
    BY AgentAssumption, MarketTypes
  <1>3. CASE tx.intent.action = "BORROW" /\ Borrow(a, tx.amount)
    <2>1. MarketTypeOK'
      BY <1>1, <1>2, <1>3, BorrowType
    <2>2. debt'[a] = debt[a] + tx.amount /\ position' = position
      BY <1>2, <1>3 DEF Borrow, registryVars
    <2> QED
      BY <1>1, <1>2, <1>3, <2>1, <2>2
  <1>4. CASE tx.intent.action = "WITHDRAW" /\ Withdraw(a, tx.amount)
    <2>1. MarketTypeOK'
      BY <1>1, <1>2, <1>4, WithdrawType
    <2>2. debt' = debt /\ position'[a] = position[a] - tx.amount
      BY <1>2, <1>4 DEF Withdraw, ReleaseCollateral, SetPositions
    <2> QED
      BY <1>1, <1>2, <1>4, <2>1, <2>2
  <1>5. CASE tx.intent.action = "TRANSFER" /\ Transfer(a, tx.intent.to, tx.amount)
    <2>1. MarketTypeOK'
      BY <1>1, <1>2, <1>5, TransferType
    <2>2. debt' = debt /\ position'[a] >= position[a] - tx.amount /\ position'[a] \in Nat
      BY <1>1, <1>2, <1>5 DEF Transfer, TransferPosition, SetPositions,
        CanTransfer, CanTransferPosition
    <2> QED
      BY <1>1, <1>2, <1>5, <2>1, <2>2
  <1> QED
    BY <1>3, <1>4, <1>5 DEF Execute

(* The transactions on their way become fewer: the first is included, or   *)
(* the last are dropped.                                                   *)
LEMMA LeavesQueue ==
    ASSUME AgentInv, NEW a \in Agents, inFlight[a] # <<>>, NEW rest,
           rest = Tail(inFlight[a]) \/ \E n \in 0..(Len(inFlight[a]) - 1) :
                                            rest = SubSeq(inFlight[a], 1, n),
           inFlight' = [inFlight EXCEPT ![a] = rest]
    PROVE  /\ inFlight' \in [Agents -> Seq(Sent)]
           /\ \A b \in Agents : Len(inFlight'[b]) <= MaxInFlight
  <1>1. inFlight[a] \in Seq(Sent) /\ Len(inFlight[a]) <= MaxInFlight
    BY DEF AgentInv
  <1>2. rest \in Seq(Sent) /\ Len(rest) \in Nat /\ Len(rest) <= Len(inFlight[a])
    <2>1. CASE rest = Tail(inFlight[a])
      BY <1>1, <2>1
    <2>2. ASSUME NEW n \in 0..(Len(inFlight[a]) - 1), rest = SubSeq(inFlight[a], 1, n)
          PROVE  rest \in Seq(Sent) /\ Len(rest) \in Nat /\ Len(rest) <= Len(inFlight[a])
      <3>1. n \in Nat /\ n <= Len(inFlight[a]) /\ Len(inFlight[a]) \in Nat
        BY <1>1, <2>2
      <3>2. \A i \in 1..n : inFlight[a][i] \in Sent
        BY <1>1, <3>1
      <3> QED
        BY <1>1, <2>2, <3>1, <3>2
    <2> QED
      BY <2>1, <2>2
  <1> QED
    BY <1>1, <1>2, AgentAssumption DEF AgentInv

LEMMA AgentStep ==
    ASSUME AgentInv, NEW a \in Agents, AgentNext(a)
    PROVE  AgentInv'
  <1> USE DEF AgentInv
  <1>0. UNCHANGED vars => UNCHANGED MarketTypeOK
    BY DEF MarketTypeOK, RegistryTypeOK, vars, registryVars, lendingVars
  <1>1. CASE \E intent \in Intents(a) : EvaluateAgentIntent(a, intent)
    BY <1>1, EvaluateStep
  <1>2. CASE SendTransaction(a)
    BY <1>2, SendStep
  <1>3. CASE SendFails(a)
    BY <1>0, <1>3 DEF SendFails
  <1>4. CASE IncludeSuccessfully(a)
    <2>1. Head(inFlight[a]) \in Sent
      BY <1>4, HeadTailProperties DEF IncludeSuccessfully
    <2>2. MarketTypeOK'
      BY <1>4, <2>1, ExecuteStep DEF IncludeSuccessfully
    <2> QED
      BY <1>4, <2>2, LeavesQueue DEF IncludeSuccessfully, Included
  <1>5. CASE IncludeReverted(a)
    BY <1>0, <1>5, LeavesQueue DEF IncludeReverted, Included
  <1>6. CASE Drop(a)
    <2>1. PICK n \in 0..(Len(inFlight[a]) - 1) :
                inFlight' = [inFlight EXCEPT ![a] = SubSeq(inFlight[a], 1, n)]
      BY <1>6 DEF Drop
    <2>2. inFlight[a] \in Seq(Sent) /\ inFlight[a] # <<>>
      BY <2>1
    <2>3. /\ inFlight' \in [Agents -> Seq(Sent)]
          /\ \A b \in Agents : Len(inFlight'[b]) <= MaxInFlight
      BY <2>1, <2>2, LeavesQueue
    <2> QED
      BY <1>0, <1>6, <2>3 DEF Drop
  <1> QED
    BY <1>1, <1>2, <1>3, <1>4, <1>5, <1>6 DEF AgentNext

LEMMA AgentInvStep == AgentInv /\ [NextWithAgents]_allVars => AgentInv'
  <1>1. AgentInv /\ WalletsNext => AgentInv'
    BY TypeStep DEF AgentInv, WalletsNext, Next, agentVars
  <1>2. AgentInv /\ UNCHANGED allVars => AgentInv'
    BY TypeStep DEF AgentInv, allVars, agentVars
  <1> QED
    BY <1>1, <1>2, AgentStep DEF NextWithAgents

LEMMA AgentInvariant == AgentSpec => []AgentInv
  BY InitAgents, AgentInvStep, PTL DEF AgentSpec

(***************************************************************************)
(* An agent's calls and transactions stay typed, and the market under them *)
(* does, although amounts come from answers and not from the caller: what  *)
(* an answer permits is a word.                                            *)
(***************************************************************************)
THEOREM AgentTypeCorrect == AgentSpec => []AgentTypeOK
  BY AgentInvariant, AgentInvGivesType, PTL

(***************************************************************************)
(* However old the answer it was made from, a transaction that leaves an   *)
(* agent's queue has cost it no more debt and no more collateral than it   *)
(* asked for, whatever the market did in between.                          *)
(***************************************************************************)
THEOREM AgentsGetWhatTheyAsked == AgentSpec => AgentsGetNoMoreThanAsked
  <1> DEFINE A == \A a \in Agents : Len(inFlight'[a]) < Len(inFlight[a]) =>
                      /\ debt'[a] <= debt[a] + Asked(a, "BORROW")
                      /\ position[a] <= position'[a] + Asked(a, "WITHDRAW")
                                            + Asked(a, "TRANSFER")
  <1>1. AgentInv /\ [NextWithAgents]_allVars => A
    <2> SUFFICES ASSUME AgentInv, [NextWithAgents]_allVars, NEW a \in Agents,
                        Len(inFlight'[a]) < Len(inFlight[a])
                 PROVE  /\ debt'[a] <= debt[a] + Asked(a, "BORROW")
                        /\ position[a] <= position'[a] + Asked(a, "WITHDRAW")
                                              + Asked(a, "TRANSFER")
      OBVIOUS
    <2>1. /\ inFlight[a] \in Seq(Sent) /\ Len(inFlight[a]) \in Nat
          /\ position[a] \in Nat /\ debt[a] \in Nat
      BY AgentAssumption, MarketTypes DEF AgentInv
    <2>2. inFlight'[a] # inFlight[a]
      BY <2>1
    <2>3. ~(inFlight' = inFlight)
      BY <2>2
    <2>4. PICK b \in Agents : AgentNext(b)
      BY <2>3 DEF NextWithAgents, WalletsNext, agentVars, allVars
    <2>5. CASE IncludeSuccessfully(a)
      <3>1. Head(inFlight[a]) \in Sent
        BY <2>1, <2>5, HeadTailProperties DEF IncludeSuccessfully
      <3> QED
        BY <2>5, <3>1, ExecuteStep DEF IncludeSuccessfully, AgentInv, Asked
    <2>6. CASE IncludeReverted(a) \/ Drop(a)
      <3>1. position' = position /\ debt' = debt
        BY <2>6 DEF IncludeReverted, Drop, vars, registryVars, lendingVars
      <3>2. inFlight[a] # <<>>
        BY <2>1
      <3>3. /\ Head(inFlight[a]) \in Sent
            /\ Head(inFlight[a]).intent \in AnyIntent
        BY <2>1, <3>2, HeadTailProperties DEF Sent
      <3>4. Head(inFlight[a]).intent.amount \in Nat
        BY <3>3, IntentFields
      <3> QED
        BY <2>1, <3>1, <3>4 DEF Asked
    <2>7. CASE SendTransaction(a)
      <3>1. inFlight'[a] = Append(inFlight[a], [intent |-> call[a].intent,
                                answer |-> call[a].answer,
                                amount |-> AmountToSubmit(call[a].intent, call[a].answer)])
        BY <2>7 DEF SendTransaction, AgentInv
      <3> QED
        BY <2>1, <3>1
    <2>8. b = a
      BY <2>2, <2>4
      DEF AgentInv, AgentNext, EvaluateAgentIntent, SendTransaction, SendFails,
          IncludeSuccessfully, IncludeReverted, Included, Drop
    <2> QED
      BY <2>3, <2>4, <2>5, <2>6, <2>7, <2>8
      DEF AgentNext, EvaluateAgentIntent, SendFails
  <1>2. A => [A]_allVars
    OBVIOUS
  <1> HIDE DEF A
  <1>3. AgentSpec => [][A]_allVars
    BY <1>1, <1>2, AgentInvariant, PTL DEF AgentSpec
  <1> QED
    BY <1>3 DEF A, AgentsGetNoMoreThanAsked

-----------------------------------------------------------------------------
(***************************************************************************)
(* The figures the frontend computes itself against the ones the contracts *)
(* decide by, for every price, factor, position, debt and request.         *)
(*                                                                         *)
(* The contracts divide by the denominator after each of two products, the *)
(* pages once by its square.  What is thrown away early is less than one   *)
(* unit of the first quotient, which the second product and division scale *)
(* to less than one unit of the result; so the pages are ahead by at most  *)
(* one, and by nothing when the first division is exact.                   *)
(***************************************************************************)
(* Quotient and remainder, and that they are the only ones. *)
LEMMA DivMod ==
    ASSUME NEW a \in Nat, NEW d \in Nat \ {0}
    PROVE  \E f \in 0..(d - 1) : /\ a = d * (a \div d) + f
                                 /\ a % d = f
                                 /\ a \div d \in Nat
  BY SMTT(30)

LEMMA DivUnique ==
    ASSUME NEW q \in Nat, NEW d \in Nat \ {0}, NEW f \in 0..(d - 1), NEW a \in Nat,
           a = d * q + f
    PROVE  a \div d = q
  <1>1. PICK g \in 0..(d - 1) : a = d * (a \div d) + g /\ a \div d \in Nat
    BY DivMod
  <1> DEFINE k == a \div d
  <1>2. k \in Nat /\ d * k + g = d * q + f
    BY <1>1
  <1> HIDE DEF k
  <1>3. ASSUME k < q PROVE FALSE
    <2>1. PICK e \in Nat : q = k + 1 + e
      <3>1. q - k - 1 \in Nat /\ q = k + 1 + (q - k - 1)
        BY <1>2, <1>3
      <3> QED
        BY <3>1
    <2>2. d * q = d * k + d + d * e /\ d * e \in Nat /\ d * k \in Nat
      BY <1>2, <2>1, SMTT(30)
    <2> QED
      BY <1>2, <2>2
  <1>4. ASSUME q < k PROVE FALSE
    <2>1. PICK e \in Nat : k = q + 1 + e
      <3>1. k - q - 1 \in Nat /\ k = q + 1 + (k - q - 1)
        BY <1>2, <1>4
      <3> QED
        BY <3>1
    <2>2. d * k = d * q + d + d * e /\ d * e \in Nat /\ d * q \in Nat
      BY <1>2, <2>1, SMTT(30)
    <2> QED
      BY <1>2, <2>2
  <1> QED
    BY <1>2, <1>3, <1>4 DEF k

(* Scaling up by the divisor first changes nothing. *)
LEMMA DivCancels ==
    ASSUME NEW a \in Nat, NEW d \in Nat \ {0}
    PROVE  (a * d) \div d = a
  <1>1. a * d \in Nat /\ a * d = d * a + 0 /\ 0 \in 0..(d - 1)
    BY SMTT(30)
  <1> QED
    BY <1>1, DivUnique

(* One division by the square against two, r at most the denominator d. *)
LEMMA OneDivisionAhead ==
    ASSUME NEW n \in Nat, NEW d \in Nat \ {0}, NEW r \in 0..d
    PROVE  /\ (n * r) \div (d * d) \in Nat
           /\ (((n \div d) * r) \div d) \in Nat
           /\ (n * r) \div (d * d) \in {((n \div d) * r) \div d, ((n \div d) * r) \div d + 1}
           /\ n % d = 0 => (n * r) \div (d * d) = ((n \div d) * r) \div d
  <1> DEFINE t == n \div d
  <1>1. PICK e \in 0..(d - 1) : n = d * t + e /\ t \in Nat /\ n % d = e
    BY DivMod
  <1> HIDE DEF t
  <1>2. t * r \in Nat /\ r \in Nat /\ e \in Nat /\ e * r \in Nat
    BY <1>1
  <1> DEFINE m == t * r
             q == m \div d
  <1>3. PICK f \in 0..(d - 1) : m = d * q + f /\ q \in Nat
    BY <1>2, DivMod
  <1> HIDE DEF q
  <1>4. n * r = d * m + e * r
    BY <1>1, <1>2, SMTT(30)
  <1>5. d * m = (d * d) * q + d * f
    BY <1>1, <1>3, SMTT(30)
  <1> HIDE DEF m
  <1>6. /\ d * d \in Nat \ {0} /\ (d * d) * q \in Nat /\ d * f \in Nat /\ n * r \in Nat
        /\ d * f <= d * d - d
        /\ e * r <= d * d - d
    <2>1. d * d \in Nat \ {0} /\ (d * d) * q \in Nat /\ d * f \in Nat /\ n * r \in Nat
      BY <1>2, <1>3, SMTT(30)
    <2>2. d * f <= d * (d - 1) /\ d * (d - 1) = d * d - d
      BY <1>3, SMTT(30)
    <2>3. e * r <= (d - 1) * r /\ (d - 1) * r <= (d - 1) * d /\ (d - 1) * d = d * d - d
      BY <1>2, SMTT(30)
    <2> QED
      BY <2>1, <2>2, <2>3, <1>2
  <1> DEFINE s == d * d
             rest == d * f + e * r
  <1>7. /\ s \in Nat \ {0} /\ rest \in Nat /\ n * r = s * q + rest
        /\ rest < 2 * s
        /\ e = 0 => rest < s
    <2>1. e = 0 => e * r = 0
      BY <1>2
    <2> QED
      BY <1>2, <1>4, <1>5, <1>6, <2>1
  <1> HIDE DEF s, rest
  <1>8. CASE rest < s
    <2>1. rest \in 0..(s - 1)
      BY <1>7, <1>8
    <2>2. (n * r) \div s = q
      BY <1>3, <1>6, <1>7, <2>1, DivUnique
    <2> QED
      BY <1>3, <2>2 DEF s, q, m, t
  <1>9. CASE rest >= s
    <2>1. rest - s \in 0..(s - 1) /\ n * r = s * (q + 1) + (rest - s) /\ q + 1 \in Nat
      <3>1. s * (q + 1) = s * q + s
        BY <1>3, <1>7, SMTT(30)
      <3> QED
        BY <1>3, <1>7, <1>9, <3>1
    <2>2. (n * r) \div s = q + 1
      BY <1>6, <1>7, <2>1, DivUnique
    <2>3. n % d # 0
      BY <1>1, <1>7, <1>9
    <2> QED
      BY <1>3, <2>2, <2>3 DEF s, q, m, t
  <1> QED
    BY <1>7, <1>8, <1>9

-----------------------------------------------------------------------------
(* The multiplier the deployment uses drops out of the engines' value. *)
LEMMA NeutralValue ==
    ASSUME NEW a \in AssetState, NEW r \in Nat, a.multiplier = FIXED_POINT_SCALE
    PROVE  ValueOf(a, r) = ShownValue(a, r)
  <1>1. a.price \in Nat /\ r * a.price \in Nat
    BY EngineAssumption DEF AssetState, Word
  <1>2. ScaledValue(r, a.price) \in Nat
    BY <1>1, DivNat, EngineAssumption DEF ScaledValue
  <1>3. (ScaledValue(r, a.price) * FIXED_POINT_SCALE) \div FIXED_POINT_SCALE
            = ScaledValue(r, a.price)
    BY <1>2, DivCancels, EngineAssumption
  <1> QED
    BY <1>3 DEF ValueOf, PositionValue, ShownValue, ScaledValue

(* The engines' capacity and one division of the same product. *)
LEMMA CapacityInOneDivision ==
    ASSUME NEW a \in AssetState, NEW r \in Nat
    PROVE  LET n == ValueOf(a, r) * a.collateralFactorBps
               once == (n * a.riskAdjustmentBps) \div (BPS_DENOMINATOR * BPS_DENOMINATOR)
           IN  /\ once \in Nat
               /\ once \in {CapacityOf(a, r), CapacityOf(a, r) + 1}
               /\ n % BPS_DENOMINATOR = 0 => once = CapacityOf(a, r)
  <1> DEFINE n == ValueOf(a, r) * a.collateralFactorBps
  <1>1. a.collateralFactorBps \in Nat /\ a.riskAdjustmentBps \in 0..BPS_DENOMINATOR
    BY EngineAssumption DEF AssetState, Bps
  <1>2. n \in Nat
    BY <1>1, ValueNat
  <1>3. CapacityOf(a, r) = ((n \div BPS_DENOMINATOR) * a.riskAdjustmentBps) \div BPS_DENOMINATOR
    BY DEF CapacityOf, BorrowingCapacity, LiquidationThreshold
  <1> HIDE DEF n
  <1>4. /\ (n * a.riskAdjustmentBps) \div (BPS_DENOMINATOR * BPS_DENOMINATOR) \in Nat
        /\ (n * a.riskAdjustmentBps) \div (BPS_DENOMINATOR * BPS_DENOMINATOR)
              \in {CapacityOf(a, r), CapacityOf(a, r) + 1}
        /\ n % BPS_DENOMINATOR = 0 =>
              (n * a.riskAdjustmentBps) \div (BPS_DENOMINATOR * BPS_DENOMINATOR)
                  = CapacityOf(a, r)
    BY <1>1, <1>2, <1>3, OneDivisionAhead, EngineAssumption
  <1> QED
    BY <1>4 DEF n

(***************************************************************************)
(* The figures shown are the figures decided by: the page's capacity is    *)
(* the Policy's or one unit above it, a suspended asset's banner goes with *)
(* a BLOCK, and the threshold shown is the one liquidation is judged by.   *)
(***************************************************************************)
THEOREM ShownFiguresAgree ==
    ASSUME NEW a \in AssetState, NEW r \in Nat, NEW amount \in Nat
    PROVE  FiguresAgree(a, r, amount)
  <1> SUFFICES ASSUME a.multiplier = FIXED_POINT_SCALE
               PROVE  LET equation == Equation(a, r)
                          verdict  == Verdict(a.lifecycle, CanExecute(a, r, "BORROW", amount))
                      IN /\ ~verdict.allBlocked =>
                              equation.effectiveCapacity - verdict.maximum \in 0..1
                         /\ verdict.allBlocked => verdict.decision = "BLOCK"
                         /\ amount > ShownThreshold(a, r)
                               <=> ~Blocked(LiquidateAnswer(a, r, amount))
    BY DEF FiguresAgree
  <1> DEFINE equation == Equation(a, r)
             verdict  == Verdict(a.lifecycle, CanExecute(a, r, "BORROW", amount))
  <1>1. ValueOf(a, r) = ShownValue(a, r)
    BY NeutralValue
  <1>2. ~verdict.allBlocked => equation.effectiveCapacity - verdict.maximum \in 0..1
    <2> SUFFICES ASSUME a.lifecycle = "ACTIVE"
                 PROVE  ShownCapacity(a, r)
                          - CanExecute(a, r, "BORROW", amount).permittedAmount \in 0..1
      BY DEF Verdict, Equation
    <2>1. CanExecute(a, r, "BORROW", amount) = CapacityAnswer(CapacityOf(a, r), amount)
      BY DEF CanExecute
    <2>2. CapacityAnswer(CapacityOf(a, r), amount).permittedAmount = CapacityOf(a, r)
      BY DEF CapacityAnswer, Answer
    <2>3. ShownCapacity(a, r) \in {CapacityOf(a, r), CapacityOf(a, r) + 1}
      BY <1>1, CapacityInOneDivision DEF ShownCapacity
    <2> QED
      BY <2>1, <2>2, <2>3, CapacityNat
  <1>3. verdict.allBlocked => verdict.decision = "BLOCK"
    BY DEF Verdict, CanExecute, Answer
  <1>4. ShownThreshold(a, r) = LiquidationThreshold(ValueOf(a, r), a.collateralFactorBps)
    BY <1>1 DEF ShownThreshold, LiquidationThreshold
  <1>5. amount > ShownThreshold(a, r) <=> ~Blocked(LiquidateAnswer(a, r, amount))
    BY <1>4 DEF LiquidateAnswer, IsLiquidatable, Blocked, Answer
  <1> QED
    BY <1>2, <1>3, <1>5

(***************************************************************************)
(* The landing page's demo answers as the Policy does, where the factor    *)
(* takes a whole number of units of the value.                             *)
(***************************************************************************)
THEOREM DemoAnswersAsPolicy ==
    ASSUME NEW a \in AssetState, NEW r \in Nat, NEW amount \in Nat
    PROVE  DemoMirrorsPolicy(a, r, amount)
  <1> DEFINE value == ValueOf(a, r)
             demo == DemoCapacity(value, a.collateralFactorBps, a.riskAdjustmentBps)
  <1> SUFFICES ASSUME (value * a.collateralFactorBps) % BPS_DENOMINATOR = 0
               PROVE  DemoAnswer(a.lifecycle, value, a.collateralFactorBps,
                                 a.riskAdjustmentBps, amount)
                          = CanExecute(a, r, "BORROW", amount)
    BY DEF DemoMirrorsPolicy
  <1>1. demo = CapacityOf(a, r)
    BY CapacityInOneDivision DEF DemoCapacity
  <1>2. CASE a.lifecycle # "ACTIVE"
    BY <1>2 DEF DemoAnswer, CanExecute
  <1>3. CASE a.lifecycle = "ACTIVE"
    <2>1. CanExecute(a, r, "BORROW", amount) = CapacityAnswer(CapacityOf(a, r), amount)
      BY <1>3 DEF CanExecute
    <2>2. CapacityOf(a, r) \in Nat
      BY CapacityNat
    <2>3. DemoAnswer(a.lifecycle, value, a.collateralFactorBps, a.riskAdjustmentBps, amount)
            = IF demo = 0 THEN Answer("BLOCK", 0, "NO_CAPACITY")
              ELSE IF amount <= demo THEN Answer("ALLOW", demo, "OK")
              ELSE Answer("LIMIT", demo, "EXCEEDS_CAPACITY")
      <3>1. demo \in Nat /\ (amount > demo <=> ~(amount <= demo))
        BY <1>1, <2>2
      <3> HIDE DEF value
      <3> QED
        BY <1>3, <3>1 DEF DemoAnswer
    <2> HIDE DEF value, demo
    <2> QED
      BY <1>1, <2>1, <2>3 DEF CapacityAnswer
  <1> QED
    BY <1>2, <1>3

LEMMA FiguresStay == MarketTypeOK => PagesAgree
  <1> SUFFICES ASSUME MarketTypeOK, NEW u \in Users, NEW amount \in Amounts \cup {debt[u]}
               PROVE  /\ FiguresAgree(asset, position[u], amount)
                      /\ DemoMirrorsPolicy(asset, position[u], amount)
    BY DEF PagesAgree
  <1>1. asset \in AssetState /\ position[u] \in Nat /\ amount \in Nat
    BY EngineAssumption, MarketAssumption DEF MarketTypeOK, RegistryTypeOK, Word
  <1> QED
    BY <1>1, ShownFiguresAgree, DemoAnswersAsPolicy

(***************************************************************************)
(* Both hold of every user at every moment of the market.                  *)
(***************************************************************************)
THEOREM PagesAlwaysAgree == Spec => []PagesAgree
  BY FiguresStay, TypeCorrect, PTL

-----------------------------------------------------------------------------
(***************************************************************************)
(* The rows of the activity log: one lemma per event, that its row, booked *)
(* as a reader would, gives the books its transaction leaves.              *)
(***************************************************************************)
(* A deposit, a loan and a withdrawal. *)
LEMMA AmountRow ==
    ASSUME NEW name \in {"Deposited", "Borrowed", "Withdrawn"},
           NEW user \in Users, NEW amount \in Amounts,
           \/ /\ name = "Deposited" /\ Deposit(user, amount)
              /\ position' = [position EXCEPT ![user] = @ + amount] /\ debt' = debt
           \/ /\ name = "Borrowed" /\ Borrow(user, amount)
              /\ position' = position /\ debt' = [debt EXCEPT ![user] = @ + amount]
           \/ /\ name = "Withdrawn" /\ Withdraw(user, amount)
              /\ position' = [position EXCEPT ![user] = @ - amount] /\ debt' = debt
    PROVE  BooksEntered
  <1> DEFINE e == [eventName |-> name, user |-> user, amount |-> amount]
  <1>1. e \in AmountEvents /\ e.eventName = name /\ e.user = user /\ e.amount = amount
    BY DEF AmountEvents
  <1> HIDE DEF e
  <1>2. CASE name = "Deposited"
    <2>1. ToActivityRow(e) = [kind |-> "deposit", user |-> user, amount |-> amount]
      BY <1>1, <1>2 DEF ToActivityRow
    <2>2. Stock(ToActivityRow(e)) = position' /\ Dollars(ToActivityRow(e)) = debt'
      BY <1>2, <2>1 DEF Stock, Dollars
    <2>3. Emits(e)
      BY <1>1, <1>2 DEF Emits
    <2> QED
      BY <1>1, <2>2, <2>3 DEF BooksEntered
  <1>3. CASE name = "Borrowed"
    <2>1. ToActivityRow(e) = [kind |-> "borrow", user |-> user, amount |-> amount]
      BY <1>1, <1>3 DEF ToActivityRow
    <2>2. Stock(ToActivityRow(e)) = position' /\ Dollars(ToActivityRow(e)) = debt'
      BY <1>3, <2>1 DEF Stock, Dollars
    <2>3. Emits(e)
      BY <1>1, <1>3 DEF Emits
    <2> QED
      BY <1>1, <2>2, <2>3 DEF BooksEntered
  <1>4. CASE name = "Withdrawn"
    <2>1. ToActivityRow(e) = [kind |-> "withdraw", user |-> user, amount |-> amount]
      BY <1>1, <1>4 DEF ToActivityRow
    <2>2. Stock(ToActivityRow(e)) = position' /\ Dollars(ToActivityRow(e)) = debt'
      BY <1>4, <2>1 DEF Stock, Dollars
    <2>3. Emits(e)
      BY <1>1, <1>4 DEF Emits
    <2> QED
      BY <1>1, <2>2, <2>3 DEF BooksEntered
  <1> QED
    BY <1>2, <1>3, <1>4

(* A transfer to another, or of nothing to oneself. *)
LEMMA TransferRow ==
    ASSUME MarketTypeOK, NEW user \in Users, NEW to \in Users, NEW amount \in Amounts,
           Transfer(user, to, amount), selfCredited' = selfCredited
    PROVE  BooksEntered
  <1> DEFINE e == [eventName |-> "Transferred", from |-> user, to |-> to, amount |-> amount]
  <1>1. e \in TransferEvents
    BY DEF TransferEvents
  <1>2. /\ position' = [position EXCEPT ![user] = position[user] - amount,
                                        ![to] = position[to] + amount]
        /\ debt' = debt
        /\ user = to => selfCredited' = selfCredited + amount
    BY DEF Transfer, TransferPosition, SetPositions
  <1>3. /\ position \in [Users -> Nat] /\ amount \in Nat /\ selfCredited \in Nat
        /\ position[user] \in Nat
    BY MarketTypes, MarketAssumption DEF MarketTypeOK
  <1>4. user = to => amount = 0
    BY <1>2, <1>3
  <1>5. position' = [position EXCEPT ![user] = @ - amount, ![to] = @ + amount]
    BY <1>2, <1>3, <1>4
  <1>6. ToActivityRow(e) = [kind |-> "transfer", user |-> user, to |-> to, amount |-> amount]
    BY DEF ToActivityRow
  <1>7. Stock(ToActivityRow(e)) = position' /\ Dollars(ToActivityRow(e)) = debt'
    <2> DEFINE row == ToActivityRow(e)
    <2>1. row.kind = "transfer" /\ row.user = user /\ row.to = to /\ row.amount = amount
      BY <1>6
    <2> HIDE DEF row
    <2>2. Stock(row) = [position EXCEPT ![user] = @ - amount, ![to] = @ + amount]
      BY <2>1 DEF Stock
    <2>3. Dollars(row) = debt
      BY <2>1 DEF Dollars
    <2> QED
      BY <1>2, <1>5, <2>2, <2>3 DEF row
  <1>8. Emits(e)
    BY DEF Emits
  <1> HIDE DEF e
  <1> QED
    BY <1>1, <1>7, <1>8 DEF BooksEntered

(* Both amounts of a liquidation, each with the books it belongs to. *)
LEMMA LiquidationIsBooked ==
    ASSUME NEW user \in Users, NEW borrower \in Users,
           NEW repayAmount \in Amounts, NEW seizeAmount \in Amounts,
           Liquidate(user, borrower, repayAmount, seizeAmount)
    PROVE  BooksEntered
  <1> DEFINE e == [eventName |-> "Liquidated", borrower |-> borrower, liquidator |-> user,
                   repayAmount |-> repayAmount, seizeAmount |-> seizeAmount]
  <1>1. e \in LiquidationEvents
    BY DEF LiquidationEvents
  <1>2. /\ position' = [position EXCEPT ![borrower] = @ - seizeAmount]
        /\ debt' = [debt EXCEPT ![borrower] = @ - repayAmount]
    BY DEF Liquidate, SettleLiquidation, SetPositions
  <1>3. ToActivityRow(e) = [kind |-> "liquidate", user |-> borrower, liquidator |-> user,
                            amount |-> repayAmount, seizeAmount |-> seizeAmount]
    BY DEF ToActivityRow, LiquidationRow
  <1>4. Stock(ToActivityRow(e)) = position' /\ Dollars(ToActivityRow(e)) = debt'
    <2> DEFINE row == ToActivityRow(e)
    <2>1. /\ row.kind = "liquidate" /\ row.user = borrower
          /\ row.amount = repayAmount /\ row.seizeAmount = seizeAmount
      BY <1>3
    <2> HIDE DEF row
    <2>2. Stock(row) = [position EXCEPT ![borrower] = @ - seizeAmount]
      BY <2>1 DEF Stock
    <2>3. Dollars(row) = [debt EXCEPT ![borrower] = @ - repayAmount]
      BY <2>1 DEF Dollars
    <2> QED
      BY <1>2, <2>2, <2>3 DEF row
  <1>5. Emits(e)
    BY DEF Emits
  <1> HIDE DEF e
  <1> QED
    BY <1>1, <1>4, <1>5 DEF BooksEntered

LEMMA BooksStep ==
    ASSUME MarketTypeOK, [Next]_vars, selfCredited' = selfCredited,
           position' # position \/ \E u \in Users : debt'[u] > debt[u]
    PROVE  BooksEntered
  <1>0. /\ debt \in [Users -> Nat] /\ Amounts \subseteq Nat
        /\ \A u \in Users : ~(debt[u] > debt[u])
    BY MarketTypes
  <1>1. ~(position' = position /\ debt' = debt)
    BY <1>0
  <1>2. ~UNCHANGED vars /\ ~OwnerNext
    BY <1>1, OwnerKeepsBooks DEF vars, registryVars, lendingVars
  <1>3. ASSUME NEW user \in Users, NEW amount \in Amounts, Deposit(user, amount)
        PROVE  BooksEntered
    <2>1. position' = [position EXCEPT ![user] = @ + amount] /\ debt' = debt
      BY <1>3 DEF Deposit, SetPositions
    <2> QED
      BY <1>3, <2>1, AmountRow
  <1>4. ASSUME NEW user \in Users, NEW amount \in Amounts, Borrow(user, amount)
        PROVE  BooksEntered
    <2>1. position' = position /\ debt' = [debt EXCEPT ![user] = @ + amount]
      BY <1>4 DEF Borrow, registryVars
    <2> QED
      BY <1>4, <2>1, AmountRow
  <1>5. ASSUME NEW user \in Users, NEW amount \in Amounts, Repay(user, amount)
        PROVE  FALSE
    <2>1. position' = position /\ debt' = [debt EXCEPT ![user] = @ - amount]
      BY <1>5 DEF Repay, registryVars
    <2>2. \A u \in Users : ~(debt'[u] > debt[u])
      BY <1>0, <2>1
    <2> QED
      BY <2>1, <2>2
  <1>6. ASSUME NEW user \in Users, NEW amount \in Amounts, Withdraw(user, amount)
        PROVE  BooksEntered
    <2>1. position' = [position EXCEPT ![user] = @ - amount] /\ debt' = debt
      BY <1>6 DEF Withdraw, ReleaseCollateral, SetPositions
    <2> QED
      BY <1>6, <2>1, AmountRow
  <1>7. ASSUME NEW user \in Users, NEW to \in Recipients, NEW amount \in WalletAmounts,
               WalletTransfer(user, to, amount)
        PROVE  FALSE
    BY <1>1, <1>7 DEF WalletTransfer, registryVars
  <1> QED
    BY <1>2, <1>3, <1>4, <1>5, <1>6, <1>7, TransferRow, LiquidationIsBooked DEF Next, UserNext

(* A row of new parameters or of a transition gives the new terms. *)
LEMMA TermsStep ==
    ASSUME MarketTypeOK, [Next]_vars, initialized, asset' # asset
    PROVE  TermsEntered
  <1>1. RegistryOwnerNext /\ UNCHANGED lendingVars
    BY UserKeepsAsset
    DEF vars, registryVars, Next, OwnerNext, SetAuthorizedReleaser
  <1>2. asset \in AssetState
    BY DEF MarketTypeOK, RegistryTypeOK
  <1>3. ASSUME NEW p \in Parameters, UpdateAssetParameters(p)
        PROVE  TermsEntered
    <2> DEFINE e == [eventName |-> "AssetParametersUpdated", parameters |-> p]
    <2>1. e \in ParameterEvents
      BY DEF ParameterEvents
    <2>2. ToActivityRow(e) = [kind |-> "parameters", price |-> p.price,
                              collateralFactorBps |-> p.collateralFactorBps,
                              riskAdjustmentBps |-> p.riskAdjustmentBps]
      BY DEF ToActivityRow
    <2>3. asset' = [price |-> p.price, multiplier |-> p.multiplier,
                    lifecycle |-> asset.lifecycle,
                    collateralFactorBps |-> p.collateralFactorBps,
                    riskAdjustmentBps |-> p.riskAdjustmentBps]
      BY <1>3 DEF UpdateAssetParameters, WithParameters
    <2>4. Terms(ToActivityRow(e)) = [asset EXCEPT !.price = p.price,
                                        !.multiplier = asset'.multiplier,
                                        !.collateralFactorBps = p.collateralFactorBps,
                                        !.riskAdjustmentBps = p.riskAdjustmentBps]
      <3> DEFINE row == ToActivityRow(e)
      <3>1. /\ row.kind = "parameters" /\ row.price = p.price
            /\ row.collateralFactorBps = p.collateralFactorBps
            /\ row.riskAdjustmentBps = p.riskAdjustmentBps
        BY <2>2
      <3> HIDE DEF row
      <3>2. Terms(row) = [asset EXCEPT !.price = p.price,
                                       !.multiplier = asset'.multiplier,
                                       !.collateralFactorBps = p.collateralFactorBps,
                                       !.riskAdjustmentBps = p.riskAdjustmentBps]
        BY <3>1 DEF Terms
      <3> QED
        BY <3>2 DEF row
    <2>5. Terms(ToActivityRow(e)) = asset'
      BY <1>2, <2>3, <2>4 DEF AssetState
    <2>6. Emits(e)
      BY <1>1, <1>3 DEF Emits
    <2> HIDE DEF e
    <2> QED
      BY <2>1, <2>5, <2>6 DEF TermsEntered
  <1>4. ASSUME NEW s \in LifecycleState, TransitionLifecycle(s)
        PROVE  TermsEntered
    <2> DEFINE e == [eventName |-> "LifecycleTransitioned",
                     from |-> asset.lifecycle, to |-> s]
    <2>1. e \in LifecycleEvents
      BY <1>2 DEF LifecycleEvents, AssetState
    <2>2. ToActivityRow(e) = [kind |-> "lifecycle", lifecycleFrom |-> asset.lifecycle,
                              lifecycleTo |-> s]
      BY DEF ToActivityRow
    <2>3. Terms(ToActivityRow(e)) = asset'
      BY <1>4, <2>2 DEF Terms, TransitionLifecycle
    <2>4. Emits(e)
      BY <1>1, <1>4 DEF Emits
    <2> HIDE DEF e
    <2> QED
      BY <2>1, <2>3, <2>4 DEF TermsEntered
  <1>5. ~\E w \in Writers : SetPositionWriter(w)
    BY DEF SetPositionWriter
  <1>6. ~\E p \in Parameters : InitializeAsset(p)
    BY DEF InitializeAsset
  <1> QED
    BY <1>1, <1>3, <1>4, <1>5, <1>6 DEF RegistryOwnerNext

(***************************************************************************)
(* Every transaction that changes a position, raises a debt or lowers one  *)
(* with the position has a row that accounts for it, whatever the amounts, *)
(* and every change of terms has one; the transfer to oneself is excepted, *)
(* unless of nothing.                                                      *)
(***************************************************************************)
THEOREM RowsExplain == Spec => RowsExplainBooks
  <1> DEFINE A == /\ /\ \/ position' # position
                        \/ \E u \in Users : debt'[u] > debt[u]
                     /\ selfCredited' = selfCredited
                     => BooksEntered
                  /\ initialized /\ asset' # asset => TermsEntered
  <1>1. MarketTypeOK /\ [Next]_vars => A
    BY BooksStep, TermsStep
  <1>2. A => [A]_vars
    OBVIOUS
  <1> HIDE DEF A
  <1>3. Spec => [][A]_vars
    BY <1>1, <1>2, TypeCorrect, PTL DEF Spec
  <1> QED
    BY <1>3 DEF A, RowsExplainBooks

-----------------------------------------------------------------------------
(***************************************************************************)
(* What the market accepts, foreseen: by the forms of the console, and by  *)
(* an agent whose answer of the Policy still stands.                       *)
(*                                                                         *)
(* The checks of a call that no client makes are those of checked          *)
(* arithmetic and of the custody, and they never bite: books that are      *)
(* backed lie within the custody, and everything there is of a token fits  *)
(* the word its contract counts it in.  So the invariant is about totals:  *)
(* books backed, and tokens neither minted nor burned.                     *)
(***************************************************************************)
TokensConserved ==
    /\ Total(collateral) = Total(CollateralAtStart)
    /\ Total(borrowToken) = Total(BorrowTokenAtStart)

MarketInv ==
    /\ MarketTypeOK
    /\ BooksBacked
    /\ TokensConserved

LEMMA MarketInvInit ==
    ASSUME MarketTypeOK, position = [u \in Users |-> 0],
           collateral = CollateralAtStart, borrowToken = BorrowTokenAtStart
    PROVE  MarketInv
  BY InitBooks DEF MarketInv, TokensConserved

LEMMA MarketInvKept ==
    ASSUME MarketInv, MarketTypeOK', BooksKept, TokensKept
    PROVE  MarketInv'
  BY BooksCarry DEF MarketInv, TokensConserved, TokensKept

LEMMA MarketInvStep ==
    ASSUME IsFiniteSet(Writers), MarketInv, [Next]_vars
    PROVE  MarketInv'
  BY TypeStep, BackedStep, TokensStep DEF MarketInv, TokensConserved, TokensKept

(* What there is of a token fits a word, wherever it lies. *)
LEMMA HoldingsFit ==
    ASSUME IsFiniteSet(Writers), SuppliesFit, MarketInv
    PROVE  /\ \A h \in Holders : collateral[h] \in Nat /\ borrowToken[h] \in Nat
           /\ \A h \in Holders : Fits(collateral[h]) /\ Fits(borrowToken[h])
           /\ \A g, h \in Holders : g # h => Fits(collateral[g] + collateral[h])
  <1>1. IsFiniteSet(Holders)
    BY RegistryAssumption, FS_Union DEF Holders
  <1>2. collateral \in [Holders -> Nat] /\ borrowToken \in [Holders -> Nat]
    BY DEF MarketInv, MarketTypeOK
  <1>3. Total(collateral) <= MaxWord /\ Total(borrowToken) <= MaxWord
    BY DEF MarketInv, TokensConserved, SuppliesFit, Fits
  <1>4. Total(collateral) \in Nat /\ Total(borrowToken) \in Nat /\ MaxWord \in Nat
    BY <1>1, <1>2, TotalNat, EngineAssumption
  <1>5. ASSUME NEW h \in Holders
        PROVE  collateral[h] <= Total(collateral) /\ borrowToken[h] <= Total(borrowToken)
    BY <1>1, <1>2, EntryWithinTotal
  <1>6. ASSUME NEW g \in Holders, NEW h \in Holders, g # h
        PROVE  collateral[g] + collateral[h] <= Total(collateral)
    BY <1>1, <1>2, <1>6, TwoEntriesWithinTotal
  <1>7. \A h \in Holders : collateral[h] \in Nat /\ borrowToken[h] \in Nat
    BY <1>2
  <1> QED
    BY <1>3, <1>4, <1>5, <1>6, <1>7 DEF Fits

(* Without transfers to oneself, the custody covers any two positions. *)
LEMMA CustodyCovers ==
    ASSUME MarketInv, selfCredited = 0
    PROVE  /\ \A u \in Users : position[u] \in Nat /\ position[u] <= collateral[LendingAdapter]
           /\ \A u, v \in Users :
                 u # v => position[u] + position[v] <= collateral[LendingAdapter]
  <1>1. position \in [Users -> Nat] /\ IsFiniteSet(Users)
    BY MarketTypes, RegistryAssumption DEF MarketInv
  <1>2. /\ Total(position) \in Nat /\ collateral[LendingAdapter] \in Nat
        /\ Total(position) <= collateral[LendingAdapter]
    BY BookFigures DEF MarketInv, BooksBacked
  <1>3. ASSUME NEW u \in Users
        PROVE  position[u] <= Total(position)
    BY <1>1, EntryWithinTotal
  <1>4. ASSUME NEW u \in Users, NEW v \in Users, u # v
        PROVE  position[u] + position[v] <= Total(position)
    BY <1>1, <1>4, TwoEntriesWithinTotal
  <1>5. \A u \in Users : position[u] \in Nat
    BY <1>1
  <1> QED
    BY <1>2, <1>3, <1>4, <1>5

-----------------------------------------------------------------------------
(* When a call of an account without debt is accepted. *)
LEMMA DepositAccepted ==
    ASSUME IsFiniteSet(Writers), SuppliesFit, MarketInv, Wired, NEW u \in Users,
           NEW amount \in Nat, amount <= collateral[u]
    PROVE  CanDeposit(u, amount)
  <1>1. u \in Holders /\ LendingAdapter \in Holders /\ u # LendingAdapter
    BY MarketTypes DEF MarketInv
  <1>2. /\ Fits(collateral[u] + collateral[LendingAdapter])
        /\ collateral[u] \in Nat /\ collateral[LendingAdapter] \in Nat
    BY <1>1, HoldingsFit
  <1>3. position[u] \in Nat /\ position[u] <= collateral[LendingAdapter]
    BY CustodyCovers DEF Wired
  <1>4. position[u] + amount <= collateral[u] + collateral[LendingAdapter]
    BY <1>2, <1>3
  <1>5. Fits(position[u] + amount)
    BY <1>2, <1>3, <1>4, EngineAssumption DEF Fits
  <1> QED
    BY <1>5 DEF CanDeposit, Wired, CanMove, CanSetPosition

LEMMA WithdrawAccepted ==
    ASSUME MarketInv, Wired, NEW u \in Users, NEW amount \in Nat,
           asset.lifecycle = "ACTIVE", debt[u] = 0, position[u] # 0, amount <= position[u]
    PROVE  CanWithdraw(u, amount)
  <1>1. PolicyAnswer(u, "WITHDRAW", amount) = Answer("ALLOW", position[u], "OK")
    BY DEF PolicyAnswer, CanExecute
  <1>2. Permits(u, "WITHDRAW", amount)
    BY <1>1 DEF Permits, CanExecuteFits, Blocked, Answer
  <1>3. amount <= collateral[LendingAdapter]
    <2>1. /\ position[u] \in Nat /\ position[u] <= collateral[LendingAdapter]
          /\ collateral[LendingAdapter] \in Nat
      BY CustodyCovers, BookFigures DEF Wired, MarketInv
    <2> QED
      BY <2>1
  <1>4. RemainderCoversDebt(u, position[u] - amount)
    BY DEF RemainderCoversDebt
  <1>5. CanRelease(VaultAdapter, u, amount)
    BY <1>3 DEF CanRelease, CanMove, CanSetPosition, Wired, Releasers
  <1> QED
    BY <1>2, <1>4, <1>5 DEF CanWithdraw, Wired

LEMMA TransferAccepted ==
    ASSUME IsFiniteSet(Writers), SuppliesFit, MarketInv, Wired, NEW u \in Users,
           NEW to \in Users, to # u, NEW amount \in Nat,
           asset.lifecycle = "ACTIVE", debt[u] = 0, position[u] # 0, amount <= position[u]
    PROVE  CanTransfer(u, to, amount)
  <1>1. PolicyAnswer(u, "TRANSFER", amount) = Answer("ALLOW", position[u], "OK")
    BY DEF PolicyAnswer, CanExecute
  <1>2. Permits(u, "TRANSFER", amount)
    BY <1>1 DEF Permits, CanExecuteFits, Blocked, Answer
  <1>3. Fits(position[to] + amount)
    <2>1. /\ position[u] \in Nat /\ position[to] \in Nat
          /\ position[u] + position[to] <= collateral[LendingAdapter]
      BY CustodyCovers DEF Wired
    <2>2. LendingAdapter \in Holders
      BY MarketTypes DEF MarketInv
    <2>3. collateral[LendingAdapter] \in Nat /\ Fits(collateral[LendingAdapter])
      BY <2>2, HoldingsFit
    <2>4. position[to] + amount <= collateral[LendingAdapter]
      BY <2>1, <2>3
    <2> QED
      BY <2>1, <2>3, <2>4, EngineAssumption DEF Fits
  <1>4. CanTransferPosition(TransferAdapter, u, to, amount)
    BY <1>3 DEF CanTransferPosition, CanSetPosition, Wired, Releasers
  <1> QED
    BY <1>2, <1>4 DEF CanTransfer, Wired

(* A borrow's tokens can be computed because the pool holds them. *)
LEMMA PaidOutFits ==
    ASSUME IsFiniteSet(Writers), SuppliesFit, MarketInv, NEW amount \in Word,
           ToTokenAmount(amount) <= borrowToken[LendingAdapter]
    PROVE  ToTokenAmountFits(amount)
  <1>1. amount \in Nat /\ amount <= MaxWord /\ MaxWord \in Nat
    BY EngineAssumption DEF Word
  <1>2. CASE UP_SCALE = 1
    BY <1>1, <1>2 DEF ToTokenAmountFits, Fits
  <1>3. CASE DOWN_SCALE = 1
    <2>1. ToTokenAmount(amount) = amount * UP_SCALE
      BY <1>1, <1>3 DEF ToTokenAmount
    <2>2. LendingAdapter \in Holders
      BY MarketTypes DEF MarketInv
    <2>3. /\ borrowToken[LendingAdapter] \in Nat /\ borrowToken[LendingAdapter] <= MaxWord
      BY <2>2, HoldingsFit DEF Fits
    <2>4. amount * UP_SCALE \in Nat
      BY <1>1, MarketAssumption
    <2> QED
      BY <1>1, <2>1, <2>3, <2>4 DEF ToTokenAmountFits, Fits
  <1> QED
    BY <1>2, <1>3, MarketAssumption

LEMMA BorrowAccepted ==
    ASSUME IsFiniteSet(Writers), SuppliesFit, MarketInv, Wired, NEW u \in Users,
           NEW amount \in Word, asset.lifecycle = "ACTIVE", debt[u] = 0, position[u] # 0,
           CanExecuteFits(asset, position[u], "BORROW"),
           CapacityOf(asset, position[u]) # 0,
           amount <= CapacityOf(asset, position[u]),
           ToTokenAmount(amount) <= borrowToken[LendingAdapter]
    PROVE  CanBorrow(u, amount)
  <1> DEFINE capacity == CapacityOf(asset, position[u])
             answer == PolicyAnswer(u, "BORROW", amount)
  <1>1. amount \in Nat /\ amount <= MaxWord
    BY EngineAssumption DEF Word
  <1>2. answer = CapacityAnswer(capacity, amount)
    BY DEF PolicyAnswer, CanExecute
  <1>3. answer = Answer("ALLOW", capacity, "OK")
    BY <1>2 DEF CapacityAnswer
  <1>4. Permits(u, "BORROW", amount) /\ answer.permittedAmount = capacity
    BY <1>3 DEF Permits, Blocked, Answer
  <1>5. debt[u] + amount = amount
    BY <1>1
  <1>6. ToTokenAmountFits(amount) /\ CanMove(borrowToken, LendingAdapter, ToTokenAmount(amount))
    BY PaidOutFits DEF CanMove
  <1> HIDE DEF answer
  <1>7. debt[u] + amount <= answer.permittedAmount /\ Fits(debt[u] + amount)
    BY <1>1, <1>4, <1>5 DEF Fits
  <1> QED
    BY <1>4, <1>6, <1>7 DEF CanBorrow, Wired, answer

-----------------------------------------------------------------------------
(* The forms: what their inputs and their figures are. *)
LEMMA ParsedIsWord ==
    ASSUME NEW amount \in ParsedAmounts
    PROVE  amount \in Word /\ amount \in Nat
  <1> DEFINE S == FIXED_POINT_SCALE
  <1>1. PICK typed \in Amounts : amount = (typed \div S) * S
    BY DEF ParsedAmounts, Parsed
  <1>2. S \in Nat \ {0} /\ typed \in Nat /\ typed <= MaxWord /\ MaxWord \in Nat
    BY EngineAssumption, MarketAssumption DEF Word
  <1> HIDE DEF S
  <1>3. PICK f \in 0..(S - 1) : typed = S * (typed \div S) + f /\ typed \div S \in Nat
    BY <1>2, DivMod
  <1> DEFINE q == typed \div S
  <1>4. q \in Nat /\ typed = S * q + f /\ amount = q * S
    BY <1>1, <1>3
  <1> HIDE DEF q
  <1>5. q * S = S * q /\ S * q \in Nat /\ f \in Nat
    BY <1>2, <1>3, <1>4
  <1> QED
    BY <1>2, <1>4, <1>5 DEF Word

LEMMA NoPreview == ASSUME MarketTypeOK PROVE ShownLifecycle("none", asset) = asset.lifecycle
  BY DEF ShownLifecycle, LifecycleState

(* The frontend's conversion of the repayment is the contract's. *)
LEMMA RequiredIsPulled ==
    ASSUME NEW amount \in Nat
    PROVE  RequiredUsdg(amount) = ToTokenAmountRoundUp(amount)
  <1>1. CASE DOWN_SCALE = 1
    <2>1. amount + DOWN_SCALE - 1 = amount /\ amount \div DOWN_SCALE = amount
      BY <1>1
    <2> QED
      BY <1>1, <2>1 DEF RequiredUsdg, ToTokenAmountRoundUp
  <1>2. CASE DOWN_SCALE # 1
    <2>1. UP_SCALE = 1 /\ (amount + DOWN_SCALE - 1) \div DOWN_SCALE \in Nat
      <3>1. amount + DOWN_SCALE - 1 \in Nat
        BY MarketAssumption
      <3> QED
        BY <1>2, <3>1, MarketAssumption, DivNat
    <2> QED
      BY <1>2, <2>1 DEF RequiredUsdg, ToTokenAmountRoundUp
  <1> QED
    BY <1>1, <1>2

LEMMA PulledInFits ==
    ASSUME IsFiniteSet(Writers), SuppliesFit, MarketInv, NEW u \in Users,
           NEW amount \in Word, Fits(amount + DOWN_SCALE - 1),
           ToTokenAmountRoundUp(amount) <= borrowToken[u]
    PROVE  ToTokenAmountRoundUpFits(amount)
  <1>1. amount \in Nat /\ amount <= MaxWord /\ MaxWord \in Nat
    BY EngineAssumption DEF Word
  <1>2. CASE UP_SCALE = 1
    BY <1>1, <1>2 DEF ToTokenAmountRoundUpFits, ToTokenAmountFits, Fits
  <1>3. CASE DOWN_SCALE = 1
    <2>1. ToTokenAmountRoundUp(amount) = amount * UP_SCALE
      <3>1. amount + DOWN_SCALE - 1 = amount /\ amount \div DOWN_SCALE = amount
        BY <1>1, <1>3
      <3> QED
        BY <1>3, <3>1 DEF ToTokenAmountRoundUp
    <2>2. u \in Holders
      BY MarketTypes DEF MarketInv
    <2>3. borrowToken[u] \in Nat /\ borrowToken[u] <= MaxWord
      BY <2>2, HoldingsFit DEF Fits
    <2>4. amount * UP_SCALE \in Nat
      BY <1>1, MarketAssumption
    <2> QED
      BY <1>1, <2>1, <2>3, <2>4 DEF ToTokenAmountRoundUpFits, ToTokenAmountFits, Fits
  <1> QED
    BY <1>2, <1>3, MarketAssumption

(* The Policy on a LIQUIDATE, of the debt now and of one read earlier. *)
LEMMA LiquidateAnswers ==
    ASSUME MarketTypeOK, NEW v \in Users, NEW owed \in Nat
    PROVE  /\ ~Blocked(PolicyAnswer(v, "LIQUIDATE", owed)) <=>
                 /\ asset.lifecycle = "ACTIVE"
                 /\ owed > ThresholdOf(asset, position[v])
           /\ PolicyAnswer(v, "LIQUIDATE", owed).decision = "ALLOW" <=>
                 ~Blocked(PolicyAnswer(v, "LIQUIDATE", owed))
  <1>1. CASE asset.lifecycle # "ACTIVE"
    <2>1. PolicyAnswer(v, "LIQUIDATE", owed) = Answer("BLOCK", 0, asset.lifecycle)
      BY <1>1 DEF PolicyAnswer, CanExecute
    <2> QED
      BY <1>1, <2>1 DEF Blocked, Answer
  <1>2. CASE asset.lifecycle = "ACTIVE"
    <2>1. PolicyAnswer(v, "LIQUIDATE", owed) = LiquidateAnswer(asset, position[v], owed)
      BY <1>2 DEF PolicyAnswer, CanExecute
    <2>2. IsLiquidatable(ValueOf(asset, position[v]), asset.collateralFactorBps, owed)
              <=> owed > ThresholdOf(asset, position[v])
      BY DEF IsLiquidatable, ThresholdOf
    <2>3. CASE owed > ThresholdOf(asset, position[v])
      <3>1. PolicyAnswer(v, "LIQUIDATE", owed) = Answer("ALLOW", owed, "OK")
        BY <2>1, <2>2, <2>3 DEF LiquidateAnswer
      <3> QED
        BY <1>2, <2>3, <3>1 DEF Blocked, Answer
    <2>4. CASE ~(owed > ThresholdOf(asset, position[v]))
      <3>1. PolicyAnswer(v, "LIQUIDATE", owed) = Answer("BLOCK", 0, "ABOVE_MAINTENANCE")
        BY <2>1, <2>2, <2>4 DEF LiquidateAnswer
      <3> QED
        BY <2>4, <3>1 DEF Blocked, Answer
    <2> QED
      BY <2>3, <2>4
  <1> QED
    BY <1>1, <1>2

(* And on a BORROW. *)
LEMMA BorrowAnswers ==
    ASSUME MarketTypeOK, NEW u \in Users, NEW amount \in Nat
    PROVE  /\ PolicyAnswer(u, "BORROW", amount).decision = "ALLOW" <=>
                 /\ asset.lifecycle = "ACTIVE"
                 /\ CapacityOf(asset, position[u]) # 0
                 /\ amount <= CapacityOf(asset, position[u])
           /\ ~Blocked(PolicyAnswer(u, "BORROW", amount)) <=>
                 /\ asset.lifecycle = "ACTIVE"
                 /\ CapacityOf(asset, position[u]) # 0
           /\ ~Blocked(PolicyAnswer(u, "BORROW", amount)) =>
                 PolicyAnswer(u, "BORROW", amount).permittedAmount
                     = CapacityOf(asset, position[u])
  <1>1. CASE asset.lifecycle # "ACTIVE"
    <2>1. PolicyAnswer(u, "BORROW", amount) = Answer("BLOCK", 0, asset.lifecycle)
      BY <1>1 DEF PolicyAnswer, CanExecute
    <2> QED
      BY <1>1, <2>1 DEF Blocked, Answer
  <1>2. CASE asset.lifecycle = "ACTIVE"
    <2>1. PolicyAnswer(u, "BORROW", amount) = CapacityAnswer(CapacityOf(asset, position[u]), amount)
      BY <1>2 DEF PolicyAnswer, CanExecute
    <2> QED
      BY <1>2, <2>1 DEF CapacityAnswer, Blocked, Answer
  <1> QED
    BY <1>1, <1>2

(* No position, no capacity. *)
LEMMA NothingCarriesNothing ==
    ASSUME NEW a \in AssetState
    PROVE  CapacityOf(a, 0) = 0
  <1>1. /\ a.price \in Nat /\ a.multiplier \in Nat
        /\ a.collateralFactorBps \in Nat /\ a.riskAdjustmentBps \in Nat
    BY EngineAssumption DEF AssetState, Word, Bps
  <1>2. \A d \in Nat \ {0} : 0 \div d = 0
    BY SMTT(30)
  <1>3. \A n \in Nat : 0 * n = 0
    OBVIOUS
  <1>4. ValueOf(a, 0) = 0
    BY <1>1, <1>2, <1>3, EngineAssumption DEF ValueOf, PositionValue, ScaledValue
  <1> QED
    BY <1>1, <1>2, <1>3, <1>4, EngineAssumption
    DEF CapacityOf, BorrowingCapacity, LiquidationThreshold

-----------------------------------------------------------------------------
(* What each form offers is accepted. *)
LEMMA WithdrawOffered ==
    ASSUME MarketInv, Wired, NEW u \in Users, NEW amount \in ParsedAmounts \ {0},
           debt[u] = 0, OffersWithdraw(u, amount)
    PROVE  CanWithdraw(u, amount)
  <1>1. amount \in Nat /\ amount # 0
    BY ParsedIsWord
  <1>2. asset.lifecycle = "ACTIVE" /\ amount <= position[u]
    BY NoPreview DEF MarketInv, OffersWithdraw, WithdrawChecks
  <1>3. position[u] # 0
    BY <1>1, <1>2
  <1> QED
    BY <1>1, <1>2, <1>3, WithdrawAccepted

LEMMA TransferOffered ==
    ASSUME MarketInv, Wired, NEW u \in Users, NEW to \in Users \ {u},
           NEW amount \in ParsedAmounts \ {0}, OffersTransfer(u, amount)
    PROVE  CanTransfer(u, to, amount)
  <1>1. amount \in Nat /\ amount # 0
    BY ParsedIsWord
  <1>2. asset.lifecycle = "ACTIVE" /\ amount <= position[u] /\ debt[u] = 0
    BY NoPreview DEF MarketInv, OffersTransfer, TransferChecks
  <1>3. position[u] # 0
    BY <1>1, <1>2
  <1> QED
    BY <1>1, <1>2, <1>3, FormsAssumption, TransferAccepted

LEMMA BorrowOffered ==
    ASSUME MarketInv, Wired, NEW u \in Users, NEW amount \in ParsedAmounts \ {0},
           debt[u] = 0, OffersBorrow(u, amount),
           ToTokenAmount(amount) <= borrowToken[LendingAdapter]
    PROVE  CanBorrow(u, amount)
  <1>1. amount \in Word /\ amount \in Nat
    BY ParsedIsWord
  <1>2. /\ CanExecuteFits(asset, position[u], "BORROW")
        /\ PolicyAnswer(u, "BORROW", amount).decision = "ALLOW"
    BY DEF OffersBorrow, BorrowChecks
  <1>3. /\ asset.lifecycle = "ACTIVE"
        /\ CapacityOf(asset, position[u]) # 0
        /\ amount <= CapacityOf(asset, position[u])
    BY <1>1, <1>2, BorrowAnswers DEF MarketInv
  <1>4. position[u] # 0
    BY <1>3, NothingCarriesNothing, MarketTypes DEF MarketInv
  <1> QED
    BY <1>1, <1>2, <1>3, <1>4, FormsAssumption, BorrowAccepted

(* A debt read earlier that was liquidatable is still, having only grown.  *)
LEMMA LiquidateOffered ==
    ASSUME MarketInv, Wired, NEW u \in Users, NEW v \in Users,
           NEW repay \in ParsedAmounts \ {0}, NEW seize \in ParsedAmounts \ {0},
           NEW readDebt \in 1..debt[v], OffersLiquidate(v, readDebt, repay, seize)
    PROVE  /\ ApproveUsdgChecks(repay, readDebt, CheckLiquidatable(v, readDebt))
           /\ RequiredUsdg(repay) <= borrowToken[u] /\ Fits(repay + DOWN_SCALE - 1)
              => CanLiquidate(u, v, repay, seize)
  <1>0. /\ repay \in Word /\ repay \in Nat /\ repay > 0
        /\ seize \in Nat /\ seize > 0
    BY ParsedIsWord
  <1>1. /\ MarketTypeOK
        /\ debt[v] \in Nat /\ position[v] \in Nat
        /\ readDebt \in Nat /\ readDebt > 0 /\ readDebt <= debt[v]
    BY MarketTypes DEF MarketInv
  <1>2. /\ CanExecuteFits(asset, position[v], "LIQUIDATE")
        /\ IsLiquidatableShown(readDebt, CheckLiquidatable(v, readDebt))
        /\ repay <= readDebt /\ seize <= position[v]
    BY DEF OffersLiquidate, LiquidateChecks
  <1>3. asset.lifecycle = "ACTIVE" /\ readDebt > ThresholdOf(asset, position[v])
    BY <1>1, <1>2, LiquidateAnswers DEF IsLiquidatableShown, CheckLiquidatable
  <1>4. ThresholdOf(asset, position[v]) \in Nat
    BY <1>1, ThresholdNat, MarketTypes
  <1>5. Permits(v, "LIQUIDATE", debt[v])
    <2>1. debt[v] > ThresholdOf(asset, position[v])
      BY <1>1, <1>3, <1>4
    <2> QED
      BY <1>1, <1>2, <1>3, <2>1, LiquidateAnswers DEF Permits
  <1>6. RequiredUsdg(repay) = ToTokenAmountRoundUp(repay)
    BY <1>0, RequiredIsPulled
  <1>7. ApproveUsdgChecks(repay, readDebt, CheckLiquidatable(v, readDebt))
    <2>1. ToTokenAmountRoundUp(repay) > 0 /\ ToTokenAmountRoundUp(repay) \in Nat
      BY <1>0, TokenAmountBounds, TokenAmountNat
    <2> QED
      BY <1>2, <1>6, <2>1 DEF ApproveUsdgChecks
  <1>8. ASSUME RequiredUsdg(repay) <= borrowToken[u], Fits(repay + DOWN_SCALE - 1)
        PROVE  CanLiquidate(u, v, repay, seize)
    <2>1. ToTokenAmountRoundUpFits(repay)
      BY <1>0, <1>6, <1>8, FormsAssumption, PulledInFits
    <2>2. /\ debt[v] # 0 /\ position[v] # 0
          /\ repay <= debt[v]
      BY <1>0, <1>1, <1>2
    <2>3. CanMove(borrowToken, u, ToTokenAmountRoundUp(repay))
      BY <1>6, <1>8 DEF CanMove
    <2>4. CanMove(collateral, LendingAdapter, seize)
      <3>1. position[v] <= collateral[LendingAdapter] /\ collateral[LendingAdapter] \in Nat
        BY <1>1, CustodyCovers, BookFigures DEF Wired
      <3> QED
        BY <1>0, <1>1, <1>2, <3>1 DEF CanMove
    <2>5. CanSettleLiquidation(LiquidationAdapter, v, repay, seize, u)
      BY <1>2, <2>1, <2>2, <2>3, <2>4
      DEF CanSettleLiquidation, CanSetPosition, Wired, Releasers
    <2> QED
      BY <1>2, <1>5, <2>2, <2>5 DEF CanLiquidate, Wired
  <1> QED
    BY <1>7, <1>8

LEMMA FormsMarket == Spec => []MarketInv
  <1>1. Init => MarketInv
    BY InitType, MarketInvInit DEF Init, RegistryInit
  <1>2. MarketInv /\ [Next]_vars => MarketInv'
    BY FormsAssumption, MarketInvStep
  <1> QED
    BY <1>1, <1>2, PTL DEF Spec

LEMMA OffersHold == MarketInv => OfferedIsAccepted
  <1>1. ASSUME MarketInv, Wired, NEW u \in Users, NEW amount \in ParsedAmounts \ {0},
               OffersDeposit(u, amount)
        PROVE  CanDeposit(u, amount)
    BY <1>1, ParsedIsWord, FormsAssumption, DepositAccepted
    DEF OffersDeposit, DepositChecks
  <1> QED
    BY <1>1, WithdrawOffered, TransferOffered, BorrowOffered, LiquidateOffered
    DEF OfferedIsAccepted

(***************************************************************************)
(* Whatever a form lets through on current reads, the contracts accept     *)
(* from an account without debt, the tokens being there: for every amount, *)
(* price, borrow token precision and word width, and in every state the    *)
(* market can reach.                                                       *)
(***************************************************************************)
THEOREM OfferedIsTaken == Spec => []OfferedIsAccepted
  BY FormsMarket, OffersHold, PTL

LEMMA RefusalsHold == MarketTypeOK => RefusedIsHopeless
  <1>1. ASSUME NEW u \in Users, NEW amount \in ParsedAmounts \ {0}, CanDeposit(u, amount)
        PROVE  OffersDeposit(u, amount)
    BY <1>1 DEF CanDeposit, CanMove, OffersDeposit, DepositChecks
  <1>2. ASSUME MarketTypeOK, NEW u \in Users, NEW amount \in ParsedAmounts \ {0},
               CanBorrow(u, amount)
        PROVE  OffersBorrow(u, amount)
    <2>1. amount \in Nat /\ amount > 0 /\ debt[u] \in Nat
      BY <1>2, ParsedIsWord, MarketTypes
    <2>2. /\ CanExecuteFits(asset, position[u], "BORROW")
          /\ ~Blocked(PolicyAnswer(u, "BORROW", amount))
          /\ debt[u] + amount <= PolicyAnswer(u, "BORROW", amount).permittedAmount
      BY <1>2 DEF CanBorrow, Permits
    <2>3. CapacityOf(asset, position[u]) \in Nat
      BY <1>2, MarketTypes, CapacityNat
    <2>4. /\ debt[u] + amount <= CapacityOf(asset, position[u])
          /\ asset.lifecycle = "ACTIVE" /\ CapacityOf(asset, position[u]) # 0
      BY <1>2, <2>1, <2>2, BorrowAnswers
    <2>5. amount <= CapacityOf(asset, position[u])
      BY <2>1, <2>3, <2>4
    <2>6. PolicyAnswer(u, "BORROW", amount).decision = "ALLOW"
      BY <1>2, <2>1, <2>4, <2>5, BorrowAnswers
    <2> QED
      BY <2>1, <2>2, <2>6 DEF OffersBorrow, BorrowChecks
  <1>3. ASSUME MarketTypeOK, NEW u \in Users, NEW amount \in ParsedAmounts \ {0},
               CanWithdraw(u, amount)
        PROVE  OffersWithdraw(u, amount)
    <2>1. amount \in Nat
      BY ParsedIsWord
    <2>2. asset.lifecycle = "ACTIVE"
      BY <1>3, <2>1, PermitsOnlyActive DEF CanWithdraw, Action
    <2> QED
      BY <1>3, <2>2, NoPreview DEF CanWithdraw, OffersWithdraw, WithdrawChecks
  <1>4. ASSUME MarketTypeOK, NEW u \in Users, NEW to \in Users,
               NEW amount \in ParsedAmounts \ {0}, CanTransfer(u, to, amount)
        PROVE  OffersTransfer(u, amount)
    <2>1. amount \in Nat
      BY ParsedIsWord
    <2>2. asset.lifecycle = "ACTIVE"
      BY <1>4, <2>1, PermitsOnlyActive DEF CanTransfer, Action
    <2> QED
      BY <1>4, <2>2, NoPreview DEF CanTransfer, OffersTransfer, TransferChecks
  <1>5. ASSUME MarketTypeOK, NEW u \in Users, NEW v \in Users,
               NEW amount \in ParsedAmounts \ {0}, NEW seize \in ParsedAmounts \ {0},
               CanLiquidate(u, v, amount, seize)
        PROVE  OffersLiquidate(v, debt[v], amount, seize)
    <2>1. amount > 0 /\ seize > 0 /\ debt[v] \in Nat
      BY <1>5, ParsedIsWord, MarketTypes
    <2>2. /\ CanExecuteFits(asset, position[v], "LIQUIDATE")
          /\ ~Blocked(PolicyAnswer(v, "LIQUIDATE", debt[v]))
          /\ debt[v] # 0 /\ amount <= debt[v] /\ seize <= position[v]
      BY <1>5 DEF CanLiquidate, Permits
    <2>3. CheckLiquidatable(v, debt[v]).decision = "ALLOW"
      BY <1>5, <2>1, <2>2, LiquidateAnswers DEF CheckLiquidatable
    <2> QED
      BY <2>1, <2>2, <2>3 DEF OffersLiquidate, LiquidateChecks, IsLiquidatableShown
  <1> QED
    BY <1>1, <1>2, <1>3, <1>4, <1>5 DEF RefusedIsHopeless

(***************************************************************************)
(* And what a form turns down on current reads, the contracts revert: no   *)
(* transaction that would have succeeded is kept from the wallet.          *)
(***************************************************************************)
THEOREM RefusedIsReverted == Spec => []RefusedIsHopeless
  BY TypeCorrect, RefusalsHold, PTL

-----------------------------------------------------------------------------
(***************************************************************************)
(* Agents: the market under them keeps its invariant although they call    *)
(* with amounts of the Policy's making, and what they have in hand or on   *)
(* its way was an intent of theirs that the Policy did not turn down.      *)
(***************************************************************************)
LEMMA ExecuteKeepsBooks ==
    ASSUME MarketTypeOK, NEW a \in Agents, NEW tx \in Sent, Execute(a, tx)
    PROVE  BooksKept /\ TokensKept
  <1>1. /\ a \in Users /\ tx.amount \in Nat
        /\ tx.intent.action = "TRANSFER" => tx.intent.to \in Users
    BY IntentFields, AgentAssumption, EngineAssumption DEF Sent, Word
  <1>2. IsFiniteSet(Writers)
    BY AgentAssumption
  <1>3. CASE tx.intent.action = "BORROW" /\ Borrow(a, tx.amount)
    <2>1. position' = position /\ collateral' = collateral /\ selfCredited' = selfCredited
      BY <1>3 DEF Borrow, registryVars
    <2>2. BooksKept
      BY <2>1, BookFigures DEF BooksKept
    <2> QED
      BY <1>1, <1>2, <1>3, <2>2, BorrowTokens
  <1>4. CASE tx.intent.action = "WITHDRAW" /\ Withdraw(a, tx.amount)
    BY <1>1, <1>2, <1>4, WithdrawBooks, WithdrawTokens
  <1>5. CASE tx.intent.action = "TRANSFER" /\ Transfer(a, tx.intent.to, tx.amount)
    BY <1>1, <1>5, TransferBooks, TransferTokens
  <1> QED
    BY <1>3, <1>4, <1>5 DEF Execute

LEMMA AgentsMarketStep ==
    ASSUME AgentInv, MarketInv, [NextWithAgents]_allVars
    PROVE  MarketInv'
  <1>0. UNCHANGED vars => MarketInv'
    BY MarketInvStep, AgentAssumption
  <1>1. CASE UNCHANGED allVars
    BY <1>0, <1>1 DEF allVars
  <1>2. CASE WalletsNext
    BY <1>2, MarketInvStep, AgentAssumption DEF WalletsNext, Next
  <1>3. ASSUME NEW a \in Agents, AgentNext(a)
        PROVE  MarketInv'
    <2>1. CASE UNCHANGED vars
      BY <1>0, <2>1
    <2>2. CASE IncludeSuccessfully(a)
      <3>1. Head(inFlight[a]) \in Sent
        BY <2>2, HeadTailProperties DEF IncludeSuccessfully, AgentInv
      <3>2. Execute(a, Head(inFlight[a]))
        BY <2>2 DEF IncludeSuccessfully
      <3>3. MarketTypeOK /\ MarketTypeOK'
        BY <3>1, <3>2, ExecuteStep DEF MarketInv
      <3> QED
        BY <3>1, <3>2, <3>3, ExecuteKeepsBooks, MarketInvKept
    <2> QED
      BY <1>3, <2>1, <2>2
      DEF AgentNext, EvaluateAgentIntent, SendTransaction, SendFails, IncludeReverted, Drop
  <1> QED
    BY <1>1, <1>2, <1>3 DEF NextWithAgents

Meant(a, t) == IsExecutable(t.answer) /\ t.intent \in Intents(a)

AllMeant ==
    \A a \in Agents :
        /\ call[a] # NoCall => Meant(a, call[a])
        /\ \A i \in 1..Len(inFlight[a]) : Meant(a, inFlight[a][i])

LEMMA OwnCallOnly ==
    ASSUME AgentInv, AllMeant, NEW a \in Agents,
           call' \in [Agents -> {NoCall} \cup Checked],
           inFlight' \in [Agents -> Seq(Sent)],
           \A b \in Agents \ {a} : call'[b] = call[b] /\ inFlight'[b] = inFlight[b],
           call'[a] # NoCall => Meant(a, call'[a]),
           \A i \in 1..Len(inFlight'[a]) : Meant(a, inFlight'[a][i])
    PROVE  AllMeant'
  <1>1. ASSUME NEW b \in Agents
        PROVE  /\ call'[b] # NoCall => Meant(b, call'[b])
               /\ \A i \in 1..Len(inFlight'[b]) : Meant(b, inFlight'[b][i])
    <2>1. CASE b = a
      BY <2>1
    <2>2. CASE b # a
      BY <2>2 DEF AllMeant
    <2> QED
      BY <2>1, <2>2
  <1> QED
    BY <1>1 DEF AllMeant, Meant, IsExecutable, Intents, NoCall

LEMMA MeantStep ==
    ASSUME AgentInv, AllMeant, [NextWithAgents]_allVars
    PROVE  AllMeant'
  <1>0. /\ call \in [Agents -> {NoCall} \cup Checked]
        /\ inFlight \in [Agents -> Seq(Sent)]
    BY DEF AgentInv
  <1>1. /\ call' \in [Agents -> {NoCall} \cup Checked]
        /\ inFlight' \in [Agents -> Seq(Sent)]
    BY AgentInvStep DEF AgentInv
  <1>2. CASE UNCHANGED agentVars
    BY <1>2 DEF agentVars, AllMeant, Meant, IsExecutable, Intents, NoCall
  <1>3. ASSUME NEW a \in Agents, NEW intent \in Intents(a), EvaluateAgentIntent(a, intent)
        PROVE  AllMeant'
    <2> DEFINE answer == PolicyAnswer(a, intent.action, intent.amount)
               checked == [stage |-> "checked", intent |-> intent, answer |-> answer]
    <2>1. /\ call' = [call EXCEPT ![a] = checked] /\ inFlight' = inFlight
          /\ IsExecutable(answer)
      BY <1>3 DEF EvaluateAgentIntent
    <2> HIDE DEF answer
    <2>2. Meant(a, checked)
      BY <2>1 DEF Meant
    <2> HIDE DEF checked
    <2>3. call'[a] = checked /\ \A b \in Agents \ {a} : call'[b] = call[b]
      BY <1>0, <2>1
    <2> QED
      BY <1>1, <2>1, <2>2, <2>3, OwnCallOnly DEF AllMeant
  <1>4. ASSUME NEW a \in Agents, SendTransaction(a)
        PROVE  AllMeant'
    <2> DEFINE sent == [intent |-> call[a].intent, answer |-> call[a].answer,
                        amount |-> AmountToSubmit(call[a].intent, call[a].answer)]
    <2>1. /\ inFlight' = [inFlight EXCEPT ![a] = Append(inFlight[a], sent)]
          /\ call' = [call EXCEPT ![a] = NoCall]
          /\ call[a].stage = "checked"
      BY <1>4 DEF SendTransaction
    <2>2. Meant(a, sent)
      <3>1. Meant(a, call[a])
        BY <2>1 DEF AllMeant, NoCall
      <3> QED
        BY <3>1 DEF Meant
    <2>3. inFlight[a] \in Seq(Sent)
      BY <1>0
    <2> HIDE DEF sent
    <2>4. /\ call'[a] = NoCall /\ inFlight'[a] = Append(inFlight[a], sent)
          /\ \A b \in Agents \ {a} : call'[b] = call[b] /\ inFlight'[b] = inFlight[b]
      BY <1>0, <2>1
    <2>5. ASSUME NEW i \in 1..Len(inFlight'[a])
          PROVE  Meant(a, inFlight'[a][i])
      <3>1. CASE i \in 1..Len(inFlight[a])
        <4>1. inFlight'[a][i] = inFlight[a][i]
          BY <2>3, <2>4, <3>1
        <4> QED
          BY <3>1, <4>1 DEF AllMeant
      <3>2. CASE i \notin 1..Len(inFlight[a])
        <4>1. inFlight'[a][i] = sent
          BY <2>3, <2>4, <2>5, <3>2
        <4> QED
          BY <2>2, <4>1
      <3> QED
        BY <3>1, <3>2
    <2> QED
      BY <1>1, <2>4, <2>5, OwnCallOnly
  <1>5. ASSUME NEW a \in Agents, SendFails(a)
        PROVE  AllMeant'
    <2>1. /\ call'[a] = NoCall /\ inFlight' = inFlight
          /\ \A b \in Agents \ {a} : call'[b] = call[b]
      BY <1>0, <1>5 DEF SendFails
    <2> QED
      BY <1>1, <2>1, OwnCallOnly DEF AllMeant
  <1>6. ASSUME NEW a \in Agents, call' = call, inFlight[a] # <<>>,
               inFlight' = [inFlight EXCEPT ![a] = Tail(inFlight[a])]
        PROVE  AllMeant'
    <2>1. inFlight[a] \in Seq(Sent)
      BY <1>0
    <2>2. /\ inFlight'[a] = Tail(inFlight[a])
          /\ \A b \in Agents \ {a} : inFlight'[b] = inFlight[b]
      BY <1>0, <1>6
    <2>3. ASSUME NEW i \in 1..Len(inFlight'[a])
          PROVE  Meant(a, inFlight'[a][i])
      <3> DEFINE q == inFlight[a]
      <3>1. q \in Seq(Sent) /\ q # <<>> /\ i \in 1..Len(Tail(q))
        BY <1>6, <2>1, <2>2, <2>3
      <3> HIDE DEF q
      <3>2. /\ i + 1 \in 1..Len(q) /\ Tail(q)[i] = q[i + 1]
        BY <3>1, HeadTailProperties, LenProperties
      <3>3. i + 1 \in 1..Len(inFlight[a]) /\ inFlight'[a][i] = inFlight[a][i + 1]
        BY <2>2, <3>2 DEF q
      <3> QED
        BY <3>3 DEF AllMeant
    <2> QED
      BY <1>1, <1>6, <2>2, <2>3, OwnCallOnly DEF AllMeant
  <1>7. ASSUME NEW a \in Agents, Drop(a)
        PROVE  AllMeant'
    <2>1. PICK n \in 0..(Len(inFlight[a]) - 1) :
                inFlight' = [inFlight EXCEPT ![a] = SubSeq(inFlight[a], 1, n)]
      BY <1>7 DEF Drop
    <2>2. inFlight[a] \in Seq(Sent) /\ call' = call
      BY <1>0, <1>7 DEF Drop
    <2>3. /\ inFlight'[a] = SubSeq(inFlight[a], 1, n)
          /\ \A b \in Agents \ {a} : inFlight'[b] = inFlight[b]
      BY <1>0, <2>1
    <2>4. ASSUME NEW i \in 1..Len(inFlight'[a])
          PROVE  Meant(a, inFlight'[a][i])
      <3>1. i \in 1..Len(inFlight[a]) /\ inFlight'[a][i] = inFlight[a][i]
        BY <2>2, <2>3
      <3> QED
        BY <3>1 DEF AllMeant
    <2> QED
      BY <1>1, <2>2, <2>3, <2>4, OwnCallOnly DEF AllMeant
  <1>8. ASSUME NEW a \in Agents, AgentNext(a)
        PROVE  AllMeant'
    <2>1. CASE IncludeSuccessfully(a) \/ IncludeReverted(a)
      BY <1>6, <2>1 DEF IncludeSuccessfully, IncludeReverted, Included
    <2> QED
      BY <1>3, <1>4, <1>5, <1>7, <1>8, <2>1 DEF AgentNext
  <1> QED
    BY <1>2, <1>8 DEF NextWithAgents, WalletsNext, allVars, agentVars

LEMMA AgentsMarket == AgentSpec => [](MarketInv /\ AllMeant)
  <1>1. AgentInit => MarketInv /\ AllMeant
    <2> SUFFICES ASSUME AgentInit PROVE MarketInv /\ AllMeant
      OBVIOUS
    <2>1. MarketInv
      BY InitAgents, MarketInvInit DEF AgentInit, AgentInv
    <2>2. AllMeant
      BY EmptySeq DEF AgentInit, AllMeant
    <2> QED
      BY <2>1, <2>2
  <1>2. AgentInv /\ MarketInv /\ AllMeant /\ [NextWithAgents]_allVars
            => MarketInv' /\ AllMeant'
    BY AgentsMarketStep, MeantStep
  <1> QED
    BY AgentInvariant, <1>1, <1>2, PTL DEF AgentSpec

(***************************************************************************)
(* The books stay backed under agents too, whose amounts are what the      *)
(* Policy told them some time ago.                                         *)
(***************************************************************************)
THEOREM AgentsKeepBooksBacked == AgentSpec => []BooksBacked
  <1>1. MarketInv /\ AllMeant => BooksBacked
    BY DEF MarketInv
  <1> QED
    BY AgentsMarket, <1>1, PTL

(* The answer still standing, each check of the call is met. *)
LEMMA StandingAccepted ==
    ASSUME AgentInv, MarketInv, AllMeant, NEW a \in Agents,
           inFlight[a] # <<>>,
           AnswerStands(a, Head(inFlight[a])),
           PoolCovers(Head(inFlight[a])),
           Wired, debt[a] = 0, position[a] # 0
    PROVE  Accepted(a, Head(inFlight[a]))
  <1> DEFINE tx == Head(inFlight[a])
  <1>1. tx \in Sent /\ Meant(a, tx)
    <2>1. inFlight[a] \in Seq(Sent)
      BY DEF AgentInv
    <2>2. tx = inFlight[a][1] /\ 1 \in 1..Len(inFlight[a])
      BY <2>1, HeadTailProperties, LenProperties
    <2> QED
      BY <2>1, <2>2, HeadTailProperties DEF AllMeant
  <1>2. /\ CanExecuteFits(asset, position[a], tx.intent.action)
        /\ tx.answer = PolicyAnswer(a, tx.intent.action, tx.intent.amount)
        /\ tx.amount <= tx.answer.permittedAmount
        /\ tx.intent.action = "BORROW" => ToTokenAmount(tx.amount) <= borrowToken[LendingAdapter]
    BY DEF AnswerStands, PoolCovers
  <1> HIDE DEF tx
  <1>3. /\ tx.amount \in Word /\ tx.amount \in Nat /\ tx.intent.amount \in Nat
        /\ tx.intent.action \in {"BORROW", "WITHDRAW", "TRANSFER"}
    BY <1>1, IntentFields, EngineAssumption DEF Sent, Word
  <1>4. a \in Users /\ IsFiniteSet(Writers) /\ SuppliesFit /\ MarketTypeOK
    BY AgentAssumption DEF MarketInv
  <1>5. asset.lifecycle = "ACTIVE"
    <2>1. ASSUME asset.lifecycle # "ACTIVE" PROVE FALSE
      <3>1. tx.answer = Answer("BLOCK", 0, asset.lifecycle)
        BY <1>2, <2>1 DEF PolicyAnswer, CanExecute
      <3> QED
        BY <1>1, <3>1 DEF Meant, IsExecutable, Answer
    <2> QED
      BY <2>1
  <1>6. CASE tx.intent.action = "BORROW"
    <2>1. ~Blocked(PolicyAnswer(a, "BORROW", tx.intent.amount))
      BY <1>1, <1>2, <1>6 DEF Meant, IsExecutable, Blocked
    <2>2. /\ CapacityOf(asset, position[a]) # 0
          /\ tx.amount <= CapacityOf(asset, position[a])
      BY <1>2, <1>3, <1>4, <1>6, <2>1, BorrowAnswers
    <2>3. CanBorrow(a, tx.amount)
      BY <1>2, <1>3, <1>4, <1>5, <1>6, <2>2, BorrowAccepted
    <2> QED
      BY <1>6, <2>3 DEF Accepted, tx
  <1>7. CASE tx.intent.action \in {"WITHDRAW", "TRANSFER"}
    <2>1. tx.answer = Answer("ALLOW", position[a], "OK")
      BY <1>2, <1>5, <1>7 DEF PolicyAnswer, CanExecute
    <2>2. tx.amount <= position[a]
      BY <1>2, <2>1 DEF Answer
    <2>3. CASE tx.intent.action = "WITHDRAW"
      <3>1. CanWithdraw(a, tx.amount)
        BY <1>3, <1>4, <1>5, <2>2, WithdrawAccepted
      <3> QED
        BY <2>3, <3>1 DEF Accepted, tx
    <2>4. CASE tx.intent.action = "TRANSFER"
      <3>1. tx.intent.to \in Users /\ tx.intent.to # a
        BY <1>1, <2>4 DEF Meant, Intents
      <3>2. CanTransfer(a, tx.intent.to, tx.amount)
        BY <1>3, <1>4, <1>5, <2>2, <3>1, TransferAccepted
      <3> QED
        BY <2>4, <3>2 DEF Accepted, tx
    <2> QED
      BY <1>7, <2>3, <2>4
  <1> QED
    BY <1>3, <1>6, <1>7

(***************************************************************************)
(* A transaction whose answer of the Policy still stands when it lands is  *)
(* not reverted, on a position without debt, the market wired and the pool *)
(* permitting: for every request, price, borrow token precision and word   *)
(* width, and whatever else the wallets, the owner and the agents did.     *)
(***************************************************************************)
THEOREM PermittedIsTaken == AgentSpec => []PermittedIsAccepted
  <1>1. AgentInv /\ MarketInv /\ AllMeant => PermittedIsAccepted
    BY StandingAccepted DEF PermittedIsAccepted
  <1> QED
    BY AgentInvariant, AgentsMarket, <1>1, PTL

-----------------------------------------------------------------------------
(***************************************************************************)
(* Agents do to the market what users do, if with amounts of the Policy's  *)
(* making: with them the market is the market of every amount there is,    *)
(* and what the market's proofs say of it is said of agents too.           *)
(***************************************************************************)
AnyAmount == INSTANCE LendingMarketProofs WITH Amounts <- Word

LEMMA AnyAmountAssumptions ==
    /\ AnyAmount!EngineAssumption
    /\ AnyAmount!RegistryAssumption
    /\ AnyAmount!MarketAssumption
  BY EngineAssumption, RegistryAssumption, MarketAssumption
  DEF AnyAmount!EngineAssumption, AnyAmount!RegistryAssumption, AnyAmount!MarketAssumption,
      AnyAmount!Word, Word, AnyAmount!IsFiniteSet, IsFiniteSet

(* The calls do not depend on which amounts are called with.               *)
LEMMA SameCalls ==
    /\ \A u, amount : Deposit(u, amount) => AnyAmount!Deposit(u, amount)
    /\ \A u, amount : Borrow(u, amount) => AnyAmount!Borrow(u, amount)
    /\ \A u, amount : Repay(u, amount) => AnyAmount!Repay(u, amount)
    /\ \A u, amount : Withdraw(u, amount) => AnyAmount!Withdraw(u, amount)
    /\ \A u, to, amount : Transfer(u, to, amount) => AnyAmount!Transfer(u, to, amount)
    /\ \A u, v, repay, seize :
          Liquidate(u, v, repay, seize) => AnyAmount!Liquidate(u, v, repay, seize)
    /\ \A u, to, amount :
          WalletTransfer(u, to, amount) => AnyAmount!WalletTransfer(u, to, amount)
  BY DEF
      Deposit, AnyAmount!Deposit, Borrow, AnyAmount!Borrow, Repay, AnyAmount!Repay,
      Withdraw, AnyAmount!Withdraw, Transfer, AnyAmount!Transfer, Liquidate,
      AnyAmount!Liquidate, WalletTransfer, AnyAmount!WalletTransfer, ReleaseCollateral,
      AnyAmount!ReleaseCollateral, TransferPosition, AnyAmount!TransferPosition,
      SettleLiquidation, AnyAmount!SettleLiquidation, CanDeposit, AnyAmount!CanDeposit,
      CanBorrow, AnyAmount!CanBorrow, CanWithdraw, AnyAmount!CanWithdraw, CanTransfer,
      AnyAmount!CanTransfer, CanLiquidate, AnyAmount!CanLiquidate, CanRelease,
      AnyAmount!CanRelease, CanTransferPosition, AnyAmount!CanTransferPosition,
      CanSettleLiquidation, AnyAmount!CanSettleLiquidation, CanSetPosition,
      AnyAmount!CanSetPosition, SetPositions, AnyAmount!SetPositions, RemainderCoversDebt,
      AnyAmount!RemainderCoversDebt, Permits, AnyAmount!Permits, PolicyAnswer,
      AnyAmount!PolicyAnswer, ToTokenAmount, AnyAmount!ToTokenAmount,
      ToTokenAmountRoundUp, AnyAmount!ToTokenAmountRoundUp, ToTokenAmountFits,
      AnyAmount!ToTokenAmountFits, ToTokenAmountRoundUpFits,
      AnyAmount!ToTokenAmountRoundUpFits, registryVars, AnyAmount!registryVars, CanMove,
      AnyAmount!CanMove, Move, AnyAmount!Move, CanExecute, AnyAmount!CanExecute,
      CanExecuteFits, AnyAmount!CanExecuteFits, Blocked, AnyAmount!Blocked,
      LiquidateAnswer, AnyAmount!LiquidateAnswer, CapacityAnswer,
      AnyAmount!CapacityAnswer, Answer, AnyAmount!Answer, CapacityOfFits,
      AnyAmount!CapacityOfFits, ThresholdOfFits, AnyAmount!ThresholdOfFits, CapacityOf,
      AnyAmount!CapacityOf, ThresholdOf, AnyAmount!ThresholdOf, ValueOf,
      AnyAmount!ValueOf, IsLiquidatable, AnyAmount!IsLiquidatable, BorrowingCapacityFits,
      AnyAmount!BorrowingCapacityFits, BorrowingCapacity, AnyAmount!BorrowingCapacity,
      LiquidationThresholdFits, AnyAmount!LiquidationThresholdFits, LiquidationThreshold,
      AnyAmount!LiquidationThreshold, PositionValueFits, AnyAmount!PositionValueFits,
      PositionValue, AnyAmount!PositionValue, ScaledValue, AnyAmount!ScaledValue, Fits,
      AnyAmount!Fits

LEMMA SameOwner == OwnerNext => AnyAmount!OwnerNext
  BY DEF
      OwnerNext, AnyAmount!OwnerNext, RegistryOwnerNext, AnyAmount!RegistryOwnerNext,
      SetPositionWriter, AnyAmount!SetPositionWriter, InitializeAsset,
      AnyAmount!InitializeAsset, UpdateAssetParameters, AnyAmount!UpdateAssetParameters,
      TransitionLifecycle, AnyAmount!TransitionLifecycle, SetAuthorizedReleaser,
      AnyAmount!SetAuthorizedReleaser, lendingVars, AnyAmount!lendingVars, registryVars,
      AnyAmount!registryVars, ValidBps, AnyAmount!ValidBps, WithParameters,
      AnyAmount!WithParameters, IsValidTransition, AnyAmount!IsValidTransition,
      ValidTransitions, AnyAmount!ValidTransitions, LifecycleState,
      AnyAmount!LifecycleState, Releasers, AnyAmount!Releasers

(* Every step of the market with agents is one of the market.              *)
LEMMA AgentsStepTheMarket ==
    ASSUME AgentInv, [NextWithAgents]_allVars
    PROVE  [AnyAmount!Next]_(AnyAmount!vars)
  <1>1. CASE UNCHANGED vars
    BY <1>1 DEF vars, registryVars, lendingVars, AnyAmount!vars, AnyAmount!registryVars,
                AnyAmount!lendingVars
  <1>2. ASSUME NEW u \in Users, UserNext(u)
        PROVE  AnyAmount!UserNext(u)
    <2>1. Amounts \subseteq Word /\ AnyAmount!Recipients = Recipients
      BY MarketAssumption DEF AnyAmount!Recipients, Recipients
    <2> QED
      BY <1>2, <2>1, SameCalls DEF UserNext, AnyAmount!UserNext
  <1>3. ASSUME NEW a \in Agents, IncludeSuccessfully(a)
        PROVE  a \in Users /\ AnyAmount!UserNext(a)
    <2> DEFINE tx == Head(inFlight[a])
    <2>1. tx \in Sent
      BY <1>3, HeadTailProperties DEF IncludeSuccessfully, AgentInv
    <2>2. Execute(a, tx)
      BY <1>3 DEF IncludeSuccessfully
    <2> HIDE DEF tx
    <2>3. /\ a \in Users /\ tx.amount \in Word
          /\ tx.intent.action = "TRANSFER" => tx.intent.to \in Users
      BY <2>1, IntentFields, AgentAssumption DEF Sent
    <2>4. CASE Borrow(a, tx.amount)
      BY <2>3, <2>4, SameCalls DEF AnyAmount!UserNext
    <2>5. CASE Withdraw(a, tx.amount)
      BY <2>3, <2>5, SameCalls DEF AnyAmount!UserNext
    <2>6. CASE tx.intent.action = "TRANSFER" /\ Transfer(a, tx.intent.to, tx.amount)
      BY <2>3, <2>6, SameCalls DEF AnyAmount!UserNext
    <2> QED
      BY <2>2, <2>4, <2>5, <2>6 DEF Execute
  <1>4. ASSUME NEW a \in Agents, AgentNext(a)
        PROVE  [AnyAmount!Next]_(AnyAmount!vars)
    <2>1. CASE IncludeSuccessfully(a)
      BY <1>3, <2>1 DEF AnyAmount!Next
    <2>2. CASE UNCHANGED vars
      BY <1>1, <2>2
    <2> QED
      BY <1>4, <2>1, <2>2
      DEF AgentNext, EvaluateAgentIntent, SendTransaction, SendFails, IncludeReverted, Drop
  <1> QED
    BY <1>1, <1>2, <1>4, SameOwner DEF NextWithAgents, WalletsNext, AnyAmount!Next, allVars

LEMMA SameTypes ==
    /\ MarketTypeOK => AnyAmount!MarketTypeOK
    /\ MarketTypeOK' => AnyAmount!MarketTypeOK'
  BY DEF MarketTypeOK, RegistryTypeOK, AssetState, LifecycleState, Word, Bps, Releasers, Holders,
         AnyAmount!MarketTypeOK, AnyAmount!RegistryTypeOK, AnyAmount!AssetState,
         AnyAmount!LifecycleState, AnyAmount!Word, AnyAmount!Bps, AnyAmount!Releasers,
         AnyAmount!Holders

LEMMA SameFigures ==
    /\ \A state, balance : AnyAmount!CapacityOf(state, balance) = CapacityOf(state, balance)
    /\ \A state, balance : AnyAmount!ThresholdOf(state, balance) = ThresholdOf(state, balance)
  BY DEF CapacityOf, AnyAmount!CapacityOf, ThresholdOf, AnyAmount!ThresholdOf, ValueOf,
         AnyAmount!ValueOf, BorrowingCapacity, AnyAmount!BorrowingCapacity,
         LiquidationThreshold, AnyAmount!LiquidationThreshold, PositionValue,
         AnyAmount!PositionValue, ScaledValue, AnyAmount!ScaledValue

(* So what no step of the market does, no agent does either. *)
LEMMA AgentsStepSafely ==
    ASSUME AgentInv, AgentInv', [NextWithAgents]_allVars
    PROVE  /\ SameParameters => \A u \in Users : WithinCapacity(u) => WithinCapacity(u)'
           /\ \A u \in Users : /\ WithinMaintenance(u)
                               /\ position'[u] < position[u]
                               => debt'[u] = debt[u] /\ WithinCapacity(u)'
           /\ asset.lifecycle # "ACTIVE" =>
                 \A u \in Users : position'[u] >= position[u] /\ debt'[u] <= debt[u]
           /\ \A u \in Users : debt'[u] # debt[u] => PoolAndDebt(u)' >= PoolAndDebt(u)
           /\ borrowToken'[LendingAdapter] < borrowToken[LendingAdapter] =>
                 \E u \in Users : debt'[u] > debt[u]
           /\ \A u \in Users : position[u] = 0 /\ debt'[u] < debt[u] =>
                 borrowToken'[u] < borrowToken[u]
  <1>1. /\ AnyAmount!MarketTypeOK /\ AnyAmount!MarketTypeOK'
        /\ [AnyAmount!Next]_(AnyAmount!vars)
    BY AgentsStepTheMarket, SameTypes DEF AgentInv
  <1>2. SameParameters => \A u \in Users : WithinCapacity(u) => WithinCapacity(u)'
    BY <1>1, AnyAmountAssumptions, SameFigures, AnyAmount!CapacityStep
    DEF SameParameters, AnyAmount!SameParameters, WithinCapacity, AnyAmount!WithinCapacity,
        Capacity, AnyAmount!Capacity
  <1>3. \A u \in Users : /\ WithinMaintenance(u)
                        /\ position'[u] < position[u]
                        => debt'[u] = debt[u] /\ WithinCapacity(u)'
    BY <1>1, AnyAmountAssumptions, SameFigures, AnyAmount!HealthyStep
    DEF WithinCapacity, AnyAmount!WithinCapacity, Capacity, AnyAmount!Capacity,
        WithinMaintenance, AnyAmount!WithinMaintenance, Threshold, AnyAmount!Threshold
  <1>4. asset.lifecycle # "ACTIVE" =>
            \A u \in Users : position'[u] >= position[u] /\ debt'[u] <= debt[u]
    BY <1>1, AnyAmountAssumptions, AnyAmount!FrozenStep
  <1>5. /\ \A u \in Users : debt'[u] # debt[u] => PoolAndDebt(u)' >= PoolAndDebt(u)
        /\ borrowToken'[LendingAdapter] < borrowToken[LendingAdapter] =>
              \E u \in Users : debt'[u] > debt[u]
    BY <1>1, AnyAmountAssumptions, AnyAmount!PoolStep DEF PoolAndDebt, AnyAmount!PoolAndDebt
  <1>6. \A u \in Users : position[u] = 0 /\ debt'[u] < debt[u] =>
            borrowToken'[u] < borrowToken[u]
    BY <1>1, AnyAmountAssumptions, AnyAmount!StrandedStep
  <1> QED
    BY <1>2, <1>3, <1>4, <1>5, <1>6

LEMMA SameZones ==
    /\ \A u : AnyAmount!ZoneOf(u) = ZoneOf(u)
    /\ \A u : AnyAmount!ZoneOf(u)' = ZoneOf(u)'
    /\ AnyAmount!MarketStatus = MarketStatus
    /\ AnyAmount!MarketStatus' = MarketStatus'
  BY SameFigures
  DEF ZoneOf, AnyAmount!ZoneOf, WithinCapacity, AnyAmount!WithinCapacity,
      Capacity, AnyAmount!Capacity, WithinMaintenance, AnyAmount!WithinMaintenance,
      Threshold, AnyAmount!Threshold, MarketStatus, AnyAmount!MarketStatus,
      Matured, AnyAmount!Matured

LEMMA AgentsMarginStep ==
    ASSUME AgentInv, ActiveBeforeInitialized, [NextWithAgents]_allVars
    PROVE  [Margin!Next]_(Margin!zones)
  <1>1. /\ AnyAmount!MarketTypeOK /\ AnyAmount!ActiveBeforeInitialized
        /\ [AnyAmount!Next]_(AnyAmount!vars)
    BY AgentsStepTheMarket, SameTypes
    DEF AgentInv, ActiveBeforeInitialized, AnyAmount!ActiveBeforeInitialized
  <1>2. [AnyAmount!Margin!Next]_(AnyAmount!Margin!zones)
    BY <1>1, AnyAmountAssumptions, AnyAmount!MarginStep
  <1>3. /\ [u \in Users |-> AnyAmount!ZoneOf(u)] = [u \in Users |-> ZoneOf(u)]
        /\ [u \in Users |-> AnyAmount!ZoneOf(u)]' = [u \in Users |-> ZoneOf(u)]'
    BY SameZones
  <1> QED
    BY <1>2, <1>3, SameZones
    DEF Margin!Next, AnyAmount!Margin!Next, Margin!zones, AnyAmount!Margin!zones,
        Margin!TakeRiskOff, AnyAmount!Margin!TakeRiskOff,
        Margin!TakeLoan, AnyAmount!Margin!TakeLoan,
        Margin!MoveInto, AnyAmount!Margin!MoveInto,
        Margin!Reprice, AnyAmount!Margin!Reprice,
        Margin!ChangeStatus, AnyAmount!Margin!ChangeStatus,
        Margin!NoWorse, AnyAmount!Margin!NoWorse, Margin!Zone, AnyAmount!Margin!Zone,
        Margin!Status, AnyAmount!Margin!Status

(* What stays of the market in the long run. *)
LEMMA AgentsKeepCourse ==
    ASSUME AgentInv, ActiveBeforeInitialized, LoanBookSolvent, [NextWithAgents]_allVars
    PROVE  /\ ActiveBeforeInitialized'
           /\ LoanBookSolvent'
           /\ Matured => Matured' /\ collateral'[LendingAdapter] >= collateral[LendingAdapter]
  <1> USE DEF ActiveBeforeInitialized, AnyAmount!ActiveBeforeInitialized,
              Matured, AnyAmount!Matured
  <1>1. /\ AnyAmount!MarketTypeOK /\ AnyAmount!ActiveBeforeInitialized
        /\ [AnyAmount!Next]_(AnyAmount!vars)
    BY AgentsStepTheMarket, SameTypes DEF AgentInv
  <1>2. ActiveBeforeInitialized'
    BY <1>1, AnyAmountAssumptions, AnyAmount!LifecycleStep
  <1>3. Matured => Matured' /\ collateral'[LendingAdapter] >= collateral[LendingAdapter]
    BY <1>1, AnyAmountAssumptions, AnyAmount!MaturedStep
  <1>4. LoanBookSolvent'
    <2>1. \A f : AnyAmount!Total(f) = Total(f)
      BY DEF AnyAmount!Total, Total, AnyAmount!SumFunction, SumFunction,
             AnyAmount!SumFunctionOnSet, SumFunctionOnSet,
             AnyAmount!FoldFunctionOnSet, FoldFunctionOnSet,
             AnyAmount!MapThenFoldSet, MapThenFoldSet
    <2>2. AnyAmount!LoanBookSolvent'
      BY <1>1, <2>1, AnyAmountAssumptions, AnyAmount!LoanBookStep
      DEF LoanBookSolvent, AnyAmount!LoanBookSolvent
    <2> QED
      BY <2>1, <2>2 DEF LoanBookSolvent, AnyAmount!LoanBookSolvent
  <1> QED
    BY <1>2, <1>3, <1>4

LEMMA AgentsCourse == AgentSpec => [](ActiveBeforeInitialized /\ LoanBookSolvent)
  <1>1. AgentInit => ActiveBeforeInitialized /\ LoanBookSolvent
    BY InitLoanBook DEF AgentInit, ActiveBeforeInitialized
  <1>2. /\ AgentInv /\ ActiveBeforeInitialized /\ LoanBookSolvent /\ [NextWithAgents]_allVars
        => ActiveBeforeInitialized' /\ LoanBookSolvent'
    BY AgentsKeepCourse
  <1> QED
    BY AgentInvariant, <1>1, <1>2, PTL DEF AgentSpec

(***************************************************************************)
(* The lenders lose nothing to agents: the pool and all debts together are *)
(* worth at least what the pool was funded with.                           *)
(***************************************************************************)
THEOREM AgentsKeepLoanBookSolvent == AgentSpec => []LoanBookSolvent
  BY AgentsCourse, PTL

(***************************************************************************)
(* Nothing an agent sends, however old the answer it acts on, takes a      *)
(* position beyond its capacity, a healthy position's collateral, risk on  *)
(* a frozen asset, collateral out of a matured one, value from the pool,   *)
(* or debt off who has no position but by paying.                          *)
(***************************************************************************)
THEOREM AgentsKeepMarketSafe ==
    AgentSpec => /\ OnlyRepricingExceedsCapacity
                 /\ HealthyCollateralLeavesSafely
                 /\ FrozenOnlyDerisks
                 /\ MaturedCollateralIsLocked
                 /\ RoundingFavoursPool
                 /\ StrandedDebtOnlyOwnerRepays
  <1> DEFINE Within == SameParameters => \A u \in Users : WithinCapacity(u) => WithinCapacity(u)'
             Healthy == \A u \in Users :
                           /\ WithinMaintenance(u)
                           /\ position'[u] < position[u]
                           => /\ debt'[u] = debt[u]
                              /\ WithinCapacity(u)'
             Frozen == asset.lifecycle # "ACTIVE" =>
                          \A u \in Users : position'[u] >= position[u] /\ debt'[u] <= debt[u]
             Locked == Matured =>
                          Matured' /\ collateral'[LendingAdapter] >= collateral[LendingAdapter]
             Favoured == /\ \A u \in Users :
                               debt'[u] # debt[u] => PoolAndDebt(u)' >= PoolAndDebt(u)
                         /\ borrowToken'[LendingAdapter] < borrowToken[LendingAdapter] =>
                               \E u \in Users : debt'[u] > debt[u]
             Stranded == \A u \in Users :
                            position[u] = 0 /\ debt'[u] < debt[u] =>
                                borrowToken'[u] < borrowToken[u]
  <1>1. /\ AgentInv /\ AgentInv' /\ ActiveBeforeInitialized /\ LoanBookSolvent
        /\ [NextWithAgents]_allVars
        => Within /\ Healthy /\ Frozen /\ Locked /\ Favoured /\ Stranded
    BY AgentsStepSafely, AgentsKeepCourse
  <1> HIDE DEF Within, Healthy, Frozen, Locked, Favoured, Stranded
  <1>2. Within /\ Healthy /\ Frozen /\ Locked /\ Favoured /\ Stranded =>
            [Within]_vars /\ [Healthy]_vars /\ [Frozen]_vars /\ [Locked]_vars
                /\ [Favoured]_vars /\ [Stranded]_vars
    OBVIOUS
  <1>3. AgentSpec => /\ [][Within]_vars
                     /\ [][Healthy]_vars
                     /\ [][Frozen]_vars
                     /\ [][Locked]_vars
                     /\ [][Favoured]_vars
                     /\ [][Stranded]_vars
    BY AgentInvariant, AgentsCourse, <1>1, <1>2, PTL DEF AgentSpec
  <1> QED
    BY <1>3
    DEF Within, Healthy, Frozen, Locked, Favoured, Stranded,
        OnlyRepricingExceedsCapacity, HealthyCollateralLeavesSafely, FrozenOnlyDerisks,
        MaturedCollateralIsLocked, RoundingFavoursPool, StrandedDebtOnlyOwnerRepays

(***************************************************************************)
(* The market with agents still implements MarginZones: from its initial   *)
(* states, every step of agents, wallets and owner is one of its moves.    *)
(***************************************************************************)
THEOREM AgentsKeepMarginPromise == AgentSpec => KeepsMarginPromise
  <1>1. AgentInit => Margin!Init
    <2> SUFFICES ASSUME AgentInit PROVE Margin!Init
      OBVIOUS
    <2>1. MarketTypeOK /\ debt = [u \in Users |-> 0]
      BY InitAgents DEF AgentInit, AgentInv
    <2>2. asset.lifecycle = "ACTIVE"
      BY DEF AgentInit, WithParameters
    <2> QED
      BY <2>1, <2>2, InitMargin
  <1>2. AgentInv /\ ActiveBeforeInitialized /\ [NextWithAgents]_allVars
            => [Margin!Next]_(Margin!zones)
    BY AgentsMarginStep
  <1>3. AgentSpec => []ActiveBeforeInitialized
    BY AgentsCourse, PTL
  <1> QED
    BY AgentInvariant, <1>1, <1>2, <1>3, PTL DEF AgentSpec, KeepsMarginPromise, Margin!Spec

(***************************************************************************)
(* The pages stay true beside agents: figures and verdicts agree with the  *)
(* contracts, and no form bars what they accept or offers what they        *)
(* refuse.                                                                 *)
(***************************************************************************)
THEOREM PagesHoldBesideAgents ==
    AgentSpec => [](PagesAgree /\ OfferedIsAccepted /\ RefusedIsHopeless)
  <1>1. MarketInv /\ AllMeant => PagesAgree /\ OfferedIsAccepted /\ RefusedIsHopeless
    BY FiguresStay, OffersHold, RefusalsHold DEF MarketInv
  <1> QED
    BY AgentsMarket, <1>1, PTL

=============================================================================
