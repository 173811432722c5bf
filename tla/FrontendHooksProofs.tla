------------------------ MODULE FrontendHooksProofs ------------------------
(***************************************************************************)
(* Theorems of the frontend's two hooks that live through promises: the    *)
(* transaction flow, for any number of buttons, reads, clicks, detours and *)
(* blocks, and the activity log, for any sources, histories and changes of *)
(* chain.                                                                  *)
(***************************************************************************)
EXTENDS TransactionFlow, ActivityFeed, SequenceTheorems, TLAPS

-----------------------------------------------------------------------------
(***************************************************************************)
(* The transaction flow.                                                   *)
(*                                                                         *)
(* AtMostOneOnTheWay is not inductive: that a click finds its button busy  *)
(* rests on the hook holding the transaction on its way.  The invariant    *)
(* says so: a hook holds its button's latest transaction (Latest), and one *)
(* on its way that was never lost from sight is still held, its receipt    *)
(* awaited (Watched).                                                      *)
(***************************************************************************)
Latest ==
    \A b \in Buttons : \A n \in DOMAIN txs :
        txs[n].button = b => flow[b].tx = 0 \/ n <= flow[b].tx

ConfirmedLanded ==
    \A b \in Buttons :
        flow[b].tx # 0 /\ flow[b].receipt = "success" => txs[flow[b].tx].fate = "landed"

Watched ==
    \A n \in DOMAIN txs :
        OnItsWay(n) /\ n \notin lostSight =>
            flow[txs[n].button].tx = n /\ flow[txs[n].button].receipt = "loading"

FlowTypes ==
    /\ height \in Nat
    /\ txs \in Seq(Transaction)
    /\ \A n \in DOMAIN txs : txs[n].block <= height
    /\ flow \in [Buttons -> Flow]
    /\ \A b \in Buttons : flow[b].tx <= Len(txs)
    /\ network \in {"home", "away"}
    /\ copy \in [Reads -> 0..height \cup {None}]
    /\ request \in [Reads -> 0..height \cup {None}]
    /\ lostSight \subseteq DOMAIN txs
    /\ overtaken \subseteq Reads

FlowInv == FlowTypes /\ Latest /\ ConfirmedLanded /\ Watched

(* A button that shows "confirmed" holds the receipt of a landed one. *)
LEMMA FlowInvGivesType == FlowInv => FlowTypeOK
  <1> SUFFICES ASSUME FlowInv, NEW b \in Buttons, Status(b) = "confirmed"
               PROVE  txs[flow[b].tx].fate = "landed"
    BY DEF FlowInv, FlowTypes, FlowTypeOK
  <1>1. flow[b] \in Flow
    BY DEF FlowInv, FlowTypes
  <1>2. FlowStatus(flow[b]) = "confirmed"
    BY DEF Status
  <1>3. flow[b].tx # 0
    BY <1>2 DEF FlowStatus
  <1>4. StatusOfReceipt[flow[b].receipt] = "confirmed"
    BY <1>2 DEF FlowStatus
  <1>5. flow[b].receipt = "success"
    BY <1>1, <1>4 DEF Flow, StatusOfReceipt
  <1> QED
    BY <1>3, <1>5 DEF FlowInv, ConfirmedLanded

(* A button whose transaction is awaited on its way is busy at home. *)
LEMMA AwaitedIsBusy ==
    ASSUME NEW b \in Buttons, flow[b].tx # 0, flow[b].receipt = "loading",
           OnItsWay(flow[b].tx), network = "home"
    PROVE  Busy(b)
  <1>1. StatusOfReceipt[flow[b].receipt] = "pending"
    BY DEF StatusOfReceipt
  <1> QED
    BY <1>1 DEF OnItsWay, Busy, Status, FlowStatus

LEMMA InitFlow == Init => FlowInv
  <1> SUFFICES ASSUME Init PROVE FlowInv
    OBVIOUS
  <1>1. txs = <<>> /\ DOMAIN txs = {} /\ Len(txs) = 0 /\ txs \in Seq(Transaction)
    BY DEF Init
  <1>2. /\ flow \in [Buttons -> Flow]
        /\ \A b \in Buttons : flow[b].tx = 0
    BY DEF Init, NoFlow, Flow
  <1>3. FlowTypes
    BY <1>1, <1>2 DEF Init, FlowTypes
  <1> QED
    BY <1>1, <1>2, <1>3 DEF FlowInv, Latest, ConfirmedLanded, Watched

-----------------------------------------------------------------------------
(* One transaction is replaced: the others stay. *)
LEMMA Replaced ==
    ASSUME txs \in Seq(Transaction), NEW n \in DOMAIN txs, NEW new \in Transaction,
           txs' = [txs EXCEPT ![n] = new]
    PROVE  /\ txs' \in Seq(Transaction)
           /\ Len(txs') = Len(txs) /\ DOMAIN txs' = DOMAIN txs
           /\ txs'[n] = new
           /\ \A m \in DOMAIN txs \ {n} : txs'[m] = txs[m]
  <1>1. n \in 1..Len(txs) /\ DOMAIN txs = 1..Len(txs)
    OBVIOUS
  <1>2. /\ txs' \in Seq(Transaction) /\ Len(txs') = Len(txs)
        /\ \A m \in 1..Len(txs) : txs'[m] = IF m = n THEN new ELSE txs[m]
    BY <1>1, ExceptSeq
  <1> QED
    BY <1>1, <1>2

(* The page holds what it held, and so what follows from it: a landed      *)
(* transaction stays landed, and none is on its way that was not.          *)
LEMMA ChainStep ==
    ASSUME FlowInv, NEW n \in DOMAIN txs, NEW fate \in Fates, NEW block \in Nat,
           height' \in Nat, height <= height', block <= height',
           txs' = [txs EXCEPT ![n] = [txs[n] EXCEPT !.fate = fate, !.block = block]],
           txs[n].fate # "landed" \/ fate = "landed",
           fate \in {"asked", "waiting"} => OnItsWay(n),
           UNCHANGED <<network, pageVars, historyVars>>
    PROVE  FlowInv'
  <1> DEFINE new == [txs[n] EXCEPT !.fate = fate, !.block = block]
  <1>0. txs \in Seq(Transaction)
    BY DEF FlowInv, FlowTypes
  <1>1. txs[n] \in Transaction
    BY <1>0
  <1>2. /\ new \in Transaction /\ new.fate = fate /\ new.block = block
        /\ new.button = txs[n].button
    BY <1>1 DEF Transaction
  <1> HIDE DEF new
  <1>3. txs' = [txs EXCEPT ![n] = new]
    BY DEF new
  <1>4. /\ txs' \in Seq(Transaction)
        /\ Len(txs') = Len(txs) /\ DOMAIN txs' = DOMAIN txs
        /\ txs'[n] = new
        /\ \A m \in DOMAIN txs \ {n} : txs'[m] = txs[m]
    BY <1>0, <1>2, <1>3, Replaced
  <1>5. UNCHANGED <<network, flow, copy, request, lostSight, overtaken>>
    BY DEF pageVars, historyVars
  <1>6. FlowTypes'
    <2>1. 0..height \subseteq 0..height'
      BY DEF FlowInv, FlowTypes
    <2>2. \A m \in DOMAIN txs' : txs'[m].block <= height'
      <3> SUFFICES ASSUME NEW m \in DOMAIN txs' PROVE txs'[m].block <= height'
        OBVIOUS
      <3>1. CASE m = n
        BY <1>2, <1>4, <3>1
      <3>2. CASE m # n
        <4>1. txs'[m] = txs[m] /\ txs[m] \in Transaction /\ txs[m].block <= height
          BY <1>0, <1>4, <3>2 DEF FlowInv, FlowTypes
        <4> QED
          BY <4>1 DEF Transaction, FlowInv, FlowTypes
      <3> QED
        BY <3>1, <3>2
    <2>3. /\ copy' \in [Reads -> 0..height' \cup {None}]
          /\ request' \in [Reads -> 0..height' \cup {None}]
      BY <1>5, <2>1 DEF FlowInv, FlowTypes
    <2> QED
      BY <1>4, <1>5, <2>2, <2>3 DEF FlowInv, FlowTypes
  <1>7. Latest'
    BY <1>2, <1>4, <1>5 DEF FlowInv, Latest
  <1>8. ConfirmedLanded'
    <2> SUFFICES ASSUME NEW b \in Buttons, flow[b].tx # 0, flow[b].receipt = "success"
                 PROVE  txs'[flow[b].tx].fate = "landed"
      BY <1>5 DEF ConfirmedLanded
    <2>1. txs[flow[b].tx].fate = "landed"
      BY DEF FlowInv, ConfirmedLanded
    <2>2. flow[b].tx \in DOMAIN txs
      BY <1>0 DEF FlowInv, FlowTypes, Flow
    <2> QED
      BY <1>2, <1>4, <2>1, <2>2
  <1>9. Watched'
    BY <1>2, <1>4, <1>5 DEF FlowInv, Watched, OnItsWay
  <1> QED
    BY <1>6, <1>7, <1>8, <1>9 DEF FlowInv

LEMMA SettleFlow ==
    ASSUME FlowInv, NEW n \in DOMAIN txs,
           NEW from \in {"asked", "waiting"}, NEW to \in Fates, to # "asked",
           Settle(n, from, to)
    PROVE  FlowInv'
  <1>1. txs \in Seq(Transaction) /\ txs[n] \in Transaction /\ height \in Nat
    BY DEF FlowInv, FlowTypes
  <1>2. txs[n].block \in Nat /\ txs[n].block <= height
    BY <1>1 DEF Transaction, FlowInv, FlowTypes
  <1>3. [txs[n] EXCEPT !.fate = to] = [txs[n] EXCEPT !.fate = to, !.block = txs[n].block]
    BY <1>1 DEF Transaction
  <1>4. txs[n].fate = from /\ OnItsWay(n)
    BY DEF Settle, OnItsWay
  <1>5. /\ txs' = [txs EXCEPT ![n] = [txs[n] EXCEPT !.fate = to]]
        /\ UNCHANGED <<network, pageVars, historyVars>> /\ height' = height
    BY DEF Settle
  <1> DEFINE block == txs[n].block
  <1>6. txs' = [txs EXCEPT ![n] = [txs[n] EXCEPT !.fate = to, !.block = block]]
    BY <1>3, <1>5
  <1>7. block \in Nat /\ height' \in Nat /\ height <= height' /\ block <= height'
    BY <1>1, <1>2, <1>5
  <1>8. txs[n].fate # "landed"
    BY <1>4
  <1> HIDE DEF block
  <1> QED
    BY <1>4, <1>5, <1>6, <1>7, <1>8, ChainStep

LEMMA ChainNextFlow ==
    ASSUME FlowInv, ChainNext
    PROVE  FlowInv'
  <1>1. CASE Outside
    <2>1. height \in Nat /\ height' = height + 1 /\ 0..height \subseteq 0..height'
      BY <1>1 DEF Outside, FlowInv, FlowTypes
    <2>2. UNCHANGED <<txs, network, flow, copy, request, lostSight, overtaken>>
      BY <1>1 DEF Outside, pageVars, historyVars
    <2>3. \A n \in DOMAIN txs : txs[n].block <= height'
      <3> TAKE n \in DOMAIN txs
      <3>1. txs[n] \in Transaction /\ txs[n].block <= height
        BY DEF FlowInv, FlowTypes
      <3> QED
        BY <2>1, <3>1 DEF Transaction
    <2>4. FlowTypes'
      BY <2>1, <2>2, <2>3 DEF FlowInv, FlowTypes
    <2> QED
      BY <2>2, <2>4 DEF FlowInv, Latest, ConfirmedLanded, Watched, OnItsWay
  <1>2. ASSUME NEW n \in DOMAIN txs, Confirm(n)
        PROVE  FlowInv'
    BY <1>2, SettleFlow DEF Confirm, Fates
  <1>3. ASSUME NEW n \in DOMAIN txs, NotSent(n)
        PROVE  FlowInv'
    BY <1>3, SettleFlow DEF NotSent, Fates
  <1>4. ASSUME NEW n \in DOMAIN txs, Land(n)
        PROVE  FlowInv'
    <2>1. height \in Nat /\ height' = height + 1
      BY <1>4 DEF Land, FlowInv, FlowTypes
    <2>2. /\ txs' = [txs EXCEPT ![n] = [txs[n] EXCEPT !.fate = "landed", !.block = height']]
          /\ UNCHANGED <<network, pageVars, historyVars>>
      BY <1>4 DEF Land
    <2> DEFINE block == height'
    <2>3. block \in Nat /\ height' \in Nat /\ height <= height' /\ block <= height'
      BY <2>1
    <2>4. txs' = [txs EXCEPT ![n] = [txs[n] EXCEPT !.fate = "landed", !.block = block]]
      BY <2>2
    <2>5. "landed" \in Fates /\ "landed" \notin {"asked", "waiting"}
      BY DEF Fates
    <2> HIDE DEF block
    <2> QED
      BY <2>2, <2>3, <2>4, <2>5, ChainStep
  <1>5. ASSUME NEW n \in DOMAIN txs, RevertOrDrop(n)
        PROVE  FlowInv'
    BY <1>5, SettleFlow DEF RevertOrDrop, Fates
  <1> QED
    BY <1>1, <1>2, <1>3, <1>4, <1>5 DEF ChainNext

-----------------------------------------------------------------------------
LEMMA ClickFlow ==
    ASSUME FlowInv, NEW b \in Buttons, Click(b)
    PROVE  FlowInv'
  <1> DEFINE new == [button |-> b, chain |-> network, fate |-> "asked", block |-> 0]
             last == Len(txs) + 1
  <1>1. /\ txs \in Seq(Transaction) /\ Len(txs) \in Nat /\ DOMAIN txs = 1..Len(txs)
        /\ new \in Transaction /\ new.button = b /\ new.fate = "asked" /\ new.block = 0
    BY DEF FlowInv, FlowTypes, Transaction, Fates
  <1> HIDE DEF new
  <1>2. txs' = Append(txs, new)
    BY DEF Click, new
  <1>3. /\ txs' \in Seq(Transaction) /\ Len(txs') = last
        /\ DOMAIN txs' = 1..last /\ last \in DOMAIN txs'
        /\ DOMAIN txs' = DOMAIN txs \cup {last}
        /\ txs'[last] = new /\ \A n \in DOMAIN txs : txs'[n] = txs[n]
    BY <1>1, <1>2, AppendProperties
  <1>4. /\ flow' = [flow EXCEPT ![b] = [tx |-> last, receipt |-> "loading"]]
        /\ UNCHANGED <<height, network, copy, request, overtaken>>
    <2>1. [NoFlow EXCEPT !.tx = last] = [tx |-> last, receipt |-> "loading"]
      BY DEF NoFlow
    <2>2. flow' = [flow EXCEPT ![b] = [NoFlow EXCEPT !.tx = Len(txs')]]
      BY DEF Click
    <2>3. UNCHANGED <<height, network, copy, request, overtaken>>
      BY DEF Click
    <2>4. Len(txs') = last
      BY <1>3
    <2> HIDE DEF last
    <2> QED
      BY <2>1, <2>2, <2>3, <2>4
  <1>5. /\ flow \in [Buttons -> Flow]
        /\ [tx |-> last, receipt |-> "loading"] \in Flow
    BY <1>1 DEF FlowInv, FlowTypes, Flow
  <1>6. /\ flow' \in [Buttons -> Flow]
        /\ flow'[b].tx = last /\ flow'[b].receipt = "loading"
        /\ \A c \in Buttons \ {b} : flow'[c] = flow[c]
    <2> DEFINE held == [tx |-> last, receipt |-> "loading"]
    <2>1. held \in Flow /\ held.tx = last /\ held.receipt = "loading"
      BY <1>5
    <2>2. flow' = [flow EXCEPT ![b] = held]
      BY <1>4
    <2> HIDE DEF held
    <2> QED
      BY <1>5, <2>1, <2>2
  <1>7. /\ lostSight \subseteq lostSight' /\ lostSight' \subseteq DOMAIN txs
        /\ \A n \in DOMAIN txs :
              network = "away" /\ OnItsWay(n) /\ flow[b].tx = n => n \in lostSight'
    BY DEF Click, LoseSightOf, FlowInv, FlowTypes
  <1>8. \A c \in Buttons : flow[c].tx \in Nat /\ flow[c].tx <= Len(txs)
    BY <1>5 DEF FlowInv, FlowTypes, Flow
  <1>9. FlowTypes'
    <2>1. \A n \in DOMAIN txs' : txs'[n].block <= height
      BY <1>1, <1>3 DEF FlowInv, FlowTypes
    <2>2. \A c \in Buttons : flow'[c].tx <= last
      BY <1>1, <1>6, <1>8
    <2> QED
      BY <1>3, <1>4, <1>6, <1>7, <2>1, <2>2 DEF FlowInv, FlowTypes
  <1>10. Latest'
    BY <1>1, <1>3, <1>6, <1>8 DEF FlowInv, Latest
  <1>11. ConfirmedLanded'
    <2> SUFFICES ASSUME NEW c \in Buttons, flow'[c].tx # 0, flow'[c].receipt = "success"
                 PROVE  txs'[flow'[c].tx].fate = "landed"
      BY DEF ConfirmedLanded
    <2>1. c # b
      BY <1>6
    <2>2. flow[c].tx \in DOMAIN txs /\ flow'[c] = flow[c]
      BY <1>1, <1>6, <1>8, <2>1
    <2> QED
      BY <1>3, <2>2 DEF FlowInv, ConfirmedLanded
  <1>12. Watched'
    <2> SUFFICES ASSUME NEW n \in DOMAIN txs', OnItsWay(n)', n \notin lostSight'
                 PROVE  flow'[txs'[n].button].tx = n /\ flow'[txs'[n].button].receipt = "loading"
      BY DEF Watched
    <2>1. CASE n = last
      BY <1>1, <1>3, <1>6, <2>1
    <2>2. CASE n \in DOMAIN txs
      <3>1. /\ OnItsWay(n) /\ txs'[n] = txs[n] /\ n # 0
            /\ flow[txs[n].button].tx = n /\ flow[txs[n].button].receipt = "loading"
        BY <1>1, <1>3, <1>7, <2>2 DEF FlowInv, Watched, OnItsWay
      <3>2. network \in {"home", "away"} /\ ~Busy(b)
        BY DEF FlowInv, FlowTypes, Click
      <3>3. txs[n].button # b
        BY <1>7, <2>2, <3>1, <3>2, AwaitedIsBusy
      <3>4. txs[n].button \in Buttons
        <4>1. txs[n] \in Transaction
          BY <1>1, <2>2
        <4> QED
          BY <4>1 DEF Transaction
      <3> QED
        BY <1>6, <3>1, <3>3, <3>4
    <2> QED
      BY <1>3, <2>1, <2>2
  <1> QED
    BY <1>9, <1>10, <1>11, <1>12 DEF FlowInv

LEMMA PersonNextFlow ==
    ASSUME FlowInv, PersonNext
    PROVE  FlowInv'
  <1>1. CASE SwitchNetwork
    BY <1>1 DEF SwitchNetwork, pageVars, historyVars, FlowInv, FlowTypes, Latest,
        ConfirmedLanded, Watched, OnItsWay
  <1>2. CASE LeaveAndReturn
    <2>1. /\ flow' \in [Buttons -> Flow]
          /\ \A b \in Buttons : flow'[b].tx = 0 /\ flow'[b].tx <= Len(txs)
      BY <1>2 DEF LeaveAndReturn, NoFlow, Flow, FlowInv, FlowTypes
    <2>2. UNCHANGED <<height, txs, network, copy>>
      BY <1>2 DEF LeaveAndReturn
    <2>3. request' \in [Reads -> 0..height \cup {None}]
      <3>1. height \in 0..height
        BY DEF FlowInv, FlowTypes
      <3> QED
        BY <1>2, <3>1 DEF LeaveAndReturn, FlowInv, FlowTypes
    <2>4. /\ lostSight' \subseteq DOMAIN txs /\ overtaken' \subseteq Reads
          /\ lostSight \subseteq lostSight'
          /\ \A n \in DOMAIN txs : \A b \in Buttons :
                OnItsWay(n) /\ flow[b].tx = n => n \in lostSight'
      BY <1>2 DEF LeaveAndReturn, LoseSightOf, FlowInv, FlowTypes
    <2>5. FlowTypes'
      BY <2>1, <2>2, <2>3, <2>4 DEF FlowInv, FlowTypes
    <2>6. Latest' /\ ConfirmedLanded'
      BY <2>1, <2>2 DEF Latest, ConfirmedLanded, FlowInv, FlowTypes, Transaction
    <2>7. \A n \in DOMAIN txs : OnItsWay(n) => n \in lostSight'
      <3> TAKE n \in DOMAIN txs
      <3>1. txs[n].button \in Buttons
        <4>1. txs[n] \in Transaction
          BY DEF FlowInv, FlowTypes
        <4> QED
          BY <4>1 DEF Transaction
      <3> QED
        BY <2>4, <3>1 DEF FlowInv, Watched
    <2>8. Watched'
      BY <2>2, <2>7 DEF Watched, OnItsWay
    <2> QED
      BY <2>5, <2>6, <2>8 DEF FlowInv
  <1> QED
    BY <1>1, <1>2, ClickFlow DEF PersonNext

-----------------------------------------------------------------------------
(* One receipt changes, the transactions do not: a success is of a landed  *)
(* one, and what is no longer awaited is lost from sight or settled.       *)
LEMMA ReceiptStep ==
    ASSUME FlowInv, NEW b \in Buttons,
           NEW receipt \in {"error", "success", "loading", "paused"},
           flow' = [flow EXCEPT ![b].receipt = receipt],
           receipt = "success" => txs[flow[b].tx].fate = "landed",
           UNCHANGED <<height, txs, network, copy>>,
           request' \in [Reads -> 0..height \cup {None}],
           overtaken' \subseteq Reads,
           lostSight \subseteq lostSight', lostSight' \subseteq DOMAIN txs,
           \A n \in DOMAIN txs :
               OnItsWay(n) /\ flow[b].tx = n /\ receipt # "loading" => n \in lostSight'
    PROVE  FlowInv'
  <1>1. flow \in [Buttons -> Flow]
    BY DEF FlowInv, FlowTypes
  <1>2. /\ flow' \in [Buttons -> Flow]
        /\ flow'[b].receipt = receipt /\ flow'[b].tx = flow[b].tx
        /\ \A c \in Buttons \ {b} : flow'[c] = flow[c]
    BY <1>1 DEF Flow
  <1>3. \A c \in Buttons : flow'[c].tx = flow[c].tx
    BY <1>2
  <1>4. FlowTypes' /\ Latest'
    BY <1>2, <1>3 DEF FlowInv, FlowTypes, Latest
  <1>5. ConfirmedLanded'
    <2> SUFFICES ASSUME NEW c \in Buttons, flow'[c].tx # 0, flow'[c].receipt = "success"
                 PROVE  txs[flow[c].tx].fate = "landed"
      BY <1>3 DEF ConfirmedLanded
    <2>1. CASE c = b
      BY <1>2, <2>1
    <2>2. CASE c # b
      BY <1>2, <2>2 DEF FlowInv, ConfirmedLanded
    <2> QED
      BY <2>1, <2>2
  <1>6. Watched'
    <2> SUFFICES ASSUME NEW n \in DOMAIN txs, OnItsWay(n), n \notin lostSight'
                 PROVE  /\ flow'[txs[n].button].tx = n
                        /\ flow'[txs[n].button].receipt = "loading"
      BY DEF Watched, OnItsWay
    <2>1. flow[txs[n].button].tx = n /\ flow[txs[n].button].receipt = "loading"
      BY DEF FlowInv, Watched
    <2>2. txs[n].button \in Buttons
      <3>1. txs[n] \in Transaction
        BY DEF FlowInv, FlowTypes
      <3> QED
        BY <3>1 DEF Transaction
    <2>3. CASE txs[n].button = b
      BY <1>2, <2>1, <2>3
    <2>4. CASE txs[n].button # b
      BY <1>2, <2>1, <2>2, <2>4
    <2> QED
      BY <2>3, <2>4
  <1> QED
    BY <1>4, <1>5, <1>6 DEF FlowInv

LEMMA PageNextFlow ==
    ASSUME FlowInv, PageNext
    PROVE  FlowInv'
  <1>0. /\ height \in Nat /\ height \in 0..height
        /\ request \in [Reads -> 0..height \cup {None}]
        /\ lostSight \subseteq DOMAIN txs /\ overtaken \subseteq Reads
    BY DEF FlowInv, FlowTypes
  <1>1. ASSUME NEW b \in Buttons, ReceiptArrives(b)
        PROVE  FlowInv'
    <2> DEFINE receipt == ReceiptOf(txs[flow[b].tx].fate)
    <2>1. /\ receipt \in {"error", "success", "loading", "paused"}
          /\ receipt = "success" => txs[flow[b].tx].fate = "landed"
          /\ ~OnItsWay(flow[b].tx)
      BY <1>1 DEF ReceiptArrives, ReceiptOf, OnItsWay
    <2>2. /\ flow' = [flow EXCEPT ![b].receipt = receipt]
          /\ UNCHANGED <<height, txs, network, copy>> /\ lostSight' = lostSight
      BY <1>1 DEF ReceiptArrives
    <2>3. request' \in [Reads -> 0..height \cup {None}] /\ overtaken' \subseteq Reads
      BY <1>0, <1>1 DEF ReceiptArrives, InvalidateQueries
    <2> HIDE DEF receipt
    <2> QED
      BY <1>0, <2>1, <2>2, <2>3, ReceiptStep
  <1>2. ASSUME NEW b \in Buttons, ReceiptNotFetched(b)
        PROVE  FlowInv'
    <2>1. PICK receipt \in {"error", "paused"} : WatchReceipt(b, "loading", receipt)
      BY <1>2 DEF ReceiptNotFetched
    <2>2. /\ flow' = [flow EXCEPT ![b].receipt = receipt]
          /\ UNCHANGED <<height, txs, network, copy>>
          /\ request' = request /\ overtaken' = overtaken
      BY <2>1 DEF WatchReceipt
    <2>3. /\ lostSight \subseteq lostSight' /\ lostSight' \subseteq DOMAIN txs
          /\ \A n \in DOMAIN txs : OnItsWay(n) /\ flow[b].tx = n => n \in lostSight'
      BY <1>0, <1>2 DEF ReceiptNotFetched, LoseSightOf
    <2> QED
      BY <1>0, <2>2, <2>3, ReceiptStep
  <1>3. ASSUME NEW b \in Buttons, FetchReceiptAgain(b)
        PROVE  FlowInv'
    <2>1. /\ flow' = [flow EXCEPT ![b].receipt = "loading"]
          /\ UNCHANGED <<height, txs, network, copy>>
          /\ request' = request /\ overtaken' = overtaken /\ lostSight' = lostSight
      BY <1>3 DEF FetchReceiptAgain, WatchReceipt
    <2> QED
      BY <1>0, <2>1, ReceiptStep
  <1>4. ASSUME NEW k \in Reads, Ask(k) \/ Answer(k)
        PROVE  FlowInv'
    <2>1. UNCHANGED <<height, txs, flow, network, lostSight>>
      BY <1>4 DEF Ask, Answer, historyVars
    <2>2. /\ request' \in [Reads -> 0..height \cup {None}]
          /\ overtaken' \subseteq Reads
      BY <1>0, <1>4 DEF Ask, Answer, historyVars
    <2>3. copy' \in [Reads -> 0..height \cup {None}]
      <3>1. CASE Ask(k)
        BY <3>1 DEF Ask, FlowInv, FlowTypes
      <3>2. CASE Answer(k)
        <4>1. PICK h \in request[k]..height : copy' = [copy EXCEPT ![k] = h]
          BY <3>2 DEF Answer
        <4>2. h \in 0..height
          <5>1. request[k] \in 0..height
            BY <1>0, <3>2 DEF Answer
          <5> QED
            BY <1>0, <5>1
        <4> QED
          BY <4>1, <4>2 DEF FlowInv, FlowTypes
      <3> QED
        BY <1>4, <3>1, <3>2
    <2>4. FlowTypes'
      BY <2>1, <2>2, <2>3 DEF FlowInv, FlowTypes
    <2> QED
      BY <2>1, <2>4 DEF FlowInv, Latest, ConfirmedLanded, Watched, OnItsWay
  <1> QED
    BY <1>1, <1>2, <1>3, <1>4 DEF PageNext

LEMMA FlowInvariant == Spec => []FlowInv
  <1>1. FlowInv /\ [Next]_vars => FlowInv'
    <2> SUFFICES ASSUME FlowInv, [Next]_vars PROVE FlowInv'
      OBVIOUS
    <2>1. CASE UNCHANGED vars
      BY <2>1 DEF vars, historyVars, bounds, FlowInv, FlowTypes, Latest,
          ConfirmedLanded, Watched, OnItsWay
    <2> QED
      BY <2>1, PersonNextFlow, ChainNextFlow, PageNextFlow DEF Next
  <1> QED
    BY <1>1, InitFlow, PTL DEF Spec

(***************************************************************************)
(* The page's state is well formed, its copies are of the past, and it     *)
(* shows "confirmed" of nothing that did not land.                         *)
(***************************************************************************)
THEOREM FlowTypeCorrect == Spec => []FlowTypeOK
  BY FlowInvariant, FlowInvGivesType, PTL

(***************************************************************************)
(* No button ever has two transactions on their way, unless the page lost  *)
(* sight of the first.                                                     *)
(***************************************************************************)
THEOREM OneOnTheWay == Spec => []AtMostOneOnTheWay
  <1>1. FlowInv => AtMostOneOnTheWay
    <2> SUFFICES ASSUME FlowInv, NEW m \in DOMAIN txs, NEW n \in DOMAIN txs,
                        m < n, txs[m].button = txs[n].button,
                        OnItsWay(m), OnItsWay(n), m \notin lostSight
                 PROVE  FALSE
      BY DEF AtMostOneOnTheWay
    <2>1. txs[n] \in Transaction /\ m \in Nat /\ n \in Nat /\ m # 0
      BY DEF FlowInv, FlowTypes
    <2>2. flow[txs[n].button].tx = m
      BY DEF FlowInv, Watched
    <2>3. n <= m
      BY <2>1, <2>2 DEF FlowInv, Latest, Transaction
    <2> QED
      BY <2>1, <2>3
  <1> QED
    BY <1>1, FlowInvariant, PTL

-----------------------------------------------------------------------------
(***************************************************************************)
(* The activity log.                                                       *)
(*                                                                         *)
(* That a loaded list is complete rests on what the backfill being shown   *)
(* has found while it was still running (FoundHistory), on its being the   *)
(* one started last (FollowsWallet), and on its never setting the rows a   *)
(* second time (SettledIsOver).                                            *)
(***************************************************************************)
Current == backfill[Len(backfill)]

FollowsWallet == Current.atHome = home

(* What has been asked for is found, as far as it was there at the start.  *)
FoundHistory ==
    home => \A i \in 1..since : log[i] \in Current.answered => i \in Current.found

SettledIsOver == view # "loading" => Current.over

(* What a step may take from the rows. *)
DropsOnLoading ==
    \A i \in rows \ rows' :
        /\ view = "loading" /\ view' = "loaded"
        /\ home => i > since

FeedInv == FeedTypeOK /\ FollowsWallet /\ FoundHistory /\ SettledIsOver /\ HistoryComplete

-----------------------------------------------------------------------------
LEMMA InitFeed == FeedInit => FeedInv
  <1> SUFFICES ASSUME FeedInit PROVE FeedInv
    OBVIOUS
  <1>1. /\ log \in Seq(Sources) /\ Len(log) \in 0..1
    <2>1. PICK n \in 0..1 : log \in [1..n -> Sources]
      BY DEF FeedInit
    <2>2. n \in Nat
      BY <2>1
    <2> QED
      BY <2>1, <2>2, SeqDef
  <1>2. /\ Begun(home) \in Backfill
        /\ Begun(home).atHome = home /\ Begun(home).answered = {}
    BY DEF FeedInit, Begun, Backfill
  <1>3. /\ backfill \in Seq(Backfill) /\ Len(backfill) = 1
        /\ Current = Begun(home)
    BY <1>2 DEF FeedInit, Current
  <1>4. FeedTypeOK
    BY <1>1, <1>3, FeedAssumption DEF FeedInit, FeedTypeOK, NotWatching
  <1> QED
    BY <1>2, <1>3, <1>4
    DEF FeedInit, FeedInv, FollowsWallet, FoundHistory, SettledIsOver, HistoryComplete

(* The history grows at its end, and the backfills stay what they were. *)
LEMMA MineStep ==
    ASSUME FeedInv, NEW s \in Sources, Mine(s)
    PROVE  FeedInv'
  <1>1. /\ log \in Seq(Sources) /\ Len(log) \in Nat /\ log' = Append(log, s)
        /\ since \in 0..Len(log)
    BY DEF FeedInv, FeedTypeOK, Mine
  <1>2. /\ log' \in Seq(Sources) /\ Len(log') = Len(log) + 1
        /\ \A i \in 1..Len(log) : log'[i] = log[i]
    BY <1>1, AppendProperties
  <1>3. Logs \subseteq Logs' /\ Len(log) + 1 \in Logs' /\ Len(log') <= MaxLogs
    BY <1>1, <1>2, FeedAssumption DEF Logs, Mine
  <1>4. backfill \in Seq(Backfill)'
    <2>1. Backfill \subseteq Backfill'
      BY <1>3 DEF Backfill
    <2>2. backfill \in Seq(Backfill)
      BY DEF FeedInv, FeedTypeOK
    <2> HIDE DEF Backfill
    <2> QED
      BY <2>1, <2>2, SeqMonotonic
  <1>5. FeedTypeOK'
    BY <1>1, <1>2, <1>3, <1>4 DEF FeedInv, FeedTypeOK, Mine, NotWatching
  <1>6. UNCHANGED <<home, backfill, rows, view, since>>
    BY DEF Mine
  <1>7. FoundHistory'
    BY <1>1, <1>2, <1>6 DEF FeedInv, FoundHistory, Current
  <1> QED
    BY <1>5, <1>6, <1>7
    DEF FeedInv, FollowsWallet, SettledIsOver, HistoryComplete, Current

(* A change of chain starts a backfill that nothing has been asked for.    *)
LEMMA SwitchStep ==
    ASSUME FeedInv, SwitchChain
    PROVE  FeedInv'
  <1>1. UNCHANGED <<log, arriving, rows>> /\ Logs' = Logs /\ Backfill' = Backfill
    BY DEF SwitchChain, Logs, Backfill
  <1>2. /\ Begun(~home) \in Backfill
        /\ Begun(~home).atHome = (~home) /\ Begun(~home).answered = {}
    BY DEF Begun, Backfill
  <1>3. /\ backfill' \in Seq(Backfill) /\ Len(backfill') = Len(backfill) + 1
        /\ Current' = Begun(~home)
    BY <1>2, AppendProperties DEF FeedInv, FeedTypeOK, SwitchChain, Current
  <1>4. FeedTypeOK'
    BY <1>1, <1>3, FeedAssumption DEF FeedInv, FeedTypeOK, SwitchChain, Rerender, NotWatching
  <1> QED
    BY <1>2, <1>3, <1>4
    DEF FeedInv, SwitchChain, FollowsWallet, FoundHistory, SettledIsOver, HistoryComplete

(* One backfill advances; the one that counts is still the last. *)
LEMMA BackfillAdvances ==
    ASSUME FeedTypeOK, NEW b \in DOMAIN backfill, NEW new \in Backfill,
           backfill' = [backfill EXCEPT ![b] = new], UNCHANGED log
    PROVE  /\ backfill' \in Seq(Backfill)' /\ Len(backfill') = Len(backfill)
           /\ IF IsCancelled(b) THEN Current' = Current ELSE Current' = new
           /\ ~IsCancelled(b) => backfill[b] = Current
  <1>1. backfill \in Seq(Backfill) /\ b \in 1..Len(backfill) /\ Len(backfill) \in 1..Len(backfill)
    BY DEF FeedTypeOK
  <1>2. /\ backfill' \in Seq(Backfill) /\ Len(backfill') = Len(backfill)
        /\ \A j \in 1..Len(backfill) : backfill'[j] = IF j = b THEN new ELSE backfill[j]
    BY <1>1, ExceptSeq
  <1>3. Backfill' = Backfill
    BY DEF Backfill, Logs
  <1> QED
    BY <1>1, <1>2, <1>3 DEF Current, IsCancelled

LEMMA QueryStep ==
    ASSUME FeedInv, NEW b \in DOMAIN backfill, NEW s \in Sources, Query(b, s)
    PROVE  FeedInv'
  <1> DEFINE old == backfill[b]
             new == [old EXCEPT !.answered = @ \cup {s},
                                !.found = IF old.atHome THEN @ \cup LogsOf(s, 0) ELSE @]
  <1>1. FeedTypeOK /\ old \in Backfill
    BY DEF FeedInv, FeedTypeOK
  <1>2. /\ new \in Backfill
        /\ new.atHome = old.atHome /\ new.over = old.over
        /\ new.answered = old.answered \cup {s}
        /\ new.found = IF old.atHome THEN old.found \cup LogsOf(s, 0) ELSE old.found
    BY <1>1 DEF Backfill, LogsOf
  <1>3. /\ backfill' = [backfill EXCEPT ![b] = new]
        /\ UNCHANGED <<log, home, watched, arriving, rows, view, since>>
    BY DEF Query
  <1> HIDE DEF new
  <1>4. /\ backfill' \in Seq(Backfill)' /\ Len(backfill') = Len(backfill)
        /\ IF IsCancelled(b) THEN Current' = Current ELSE Current' = new
        /\ ~IsCancelled(b) => old = Current
    BY <1>1, <1>2, <1>3, BackfillAdvances
  <1>5. FeedTypeOK'
    BY <1>1, <1>3, <1>4 DEF FeedTypeOK, Logs, NotWatching
  <1>6. FollowsWallet' /\ SettledIsOver'
    BY <1>2, <1>3, <1>4 DEF FeedInv, FollowsWallet, SettledIsOver
  <1>7. FoundHistory'
    <2> SUFFICES ASSUME ~IsCancelled(b), home, NEW i \in 1..since, log[i] \in new.answered
                 PROVE  i \in new.found
      BY <1>3, <1>4 DEF FeedInv, FoundHistory
    <2>1. old = Current /\ old.atHome
      BY <1>4 DEF FeedInv, FollowsWallet
    <2>2. CASE log[i] \in old.answered
      BY <1>2, <2>1, <2>2 DEF FeedInv, FoundHistory
    <2>3. CASE log[i] = s
      BY <1>1, <1>2, <2>1, <2>3 DEF LogsOf, Logs, FeedTypeOK
    <2> QED
      BY <1>2, <2>2, <2>3
  <1> QED
    BY <1>3, <1>5, <1>6, <1>7 DEF FeedInv, HistoryComplete

(* Finished or failed, a backfill is over, and shows its rows or none. *)
LEMMA OverStep ==
    ASSUME FeedInv, NEW b \in DOMAIN backfill, Finish(b) \/ Fail(b)
    PROVE  /\ FeedInv'
           /\ DropsOnLoading
  <1> DEFINE old == backfill[b]
             new == [old EXCEPT !.over = TRUE]
  <1>1. FeedTypeOK /\ old \in Backfill
    BY DEF FeedInv, FeedTypeOK
  <1>2. /\ new \in Backfill /\ new.over
        /\ new.atHome = old.atHome /\ new.answered = old.answered /\ new.found = old.found
    BY <1>1 DEF Backfill
  <1>3. /\ backfill' = [backfill EXCEPT ![b] = new]
        /\ UNCHANGED <<log, home, arriving, since>>
        /\ ~old.over
    BY DEF Finish, Fail
  <1>4. \/ rows' = rows /\ view' = view
        \/ ~IsCancelled(b) /\ rows' = rows /\ view' = "failed"
        \/ /\ ~IsCancelled(b) /\ old.answered = Sources
           /\ rows' = old.found /\ view' = "loaded"
    BY DEF Finish, Fail
  <1> HIDE DEF new
  <1>5. /\ backfill' \in Seq(Backfill)' /\ Len(backfill') = Len(backfill)
        /\ IF IsCancelled(b) THEN Current' = Current ELSE Current' = new
        /\ ~IsCancelled(b) => old = Current
    BY <1>1, <1>2, <1>3, BackfillAdvances
  <1>6. rows' \subseteq Logs /\ view' \in {"loading", "loaded", "failed"}
    BY <1>1, <1>4 DEF FeedTypeOK, Backfill
  <1>7. FeedTypeOK'
    <2>1. watched' \in [Sources -> Logs \cup {0, NotWatching}]
      BY <1>1 DEF Finish, Fail, Rerender, FeedTypeOK
    <2> QED
      BY <1>1, <1>3, <1>5, <1>6, <2>1 DEF FeedTypeOK, Logs, NotWatching
  <1>8. FollowsWallet' /\ FoundHistory' /\ SettledIsOver'
    BY <1>2, <1>3, <1>4, <1>5 DEF FeedInv, FollowsWallet, FoundHistory, SettledIsOver
  <1>9. HistoryComplete'
    <2>1. CASE rows' = rows /\ view' \in {view, "failed"}
      BY <1>3, <2>1 DEF FeedInv, HistoryComplete
    <2>2. CASE ~IsCancelled(b) /\ old.answered = Sources /\ rows' = old.found
      <3>1. \A i \in 1..since : log[i] \in Sources
        BY <1>1 DEF FeedTypeOK
      <3> QED
        BY <1>3, <1>5, <2>2, <3>1 DEF FeedInv, FoundHistory, HistoryComplete
    <2> QED
      BY <1>4, <2>1, <2>2
  <1>10. DropsOnLoading
    <2> SUFFICES ASSUME NEW i \in rows \ rows'
                 PROVE  view = "loading" /\ view' = "loaded" /\ (home => i > since)
      BY DEF DropsOnLoading
    <2>1. /\ ~IsCancelled(b) /\ old.answered = Sources
          /\ rows' = old.found /\ view' = "loaded"
      BY <1>4
    <2>2. view = "loading"
      BY <1>3, <1>5, <2>1 DEF FeedInv, SettledIsOver
    <2>3. ASSUME home PROVE i > since
      <3>1. i \in 1..Len(log) /\ since \in 0..Len(log) /\ Len(log) \in Nat
            /\ \A j \in 1..since : log[j] \in Sources
        BY <1>1 DEF FeedTypeOK, Logs
      <3>2. \A j \in 1..since : j \in rows'
        BY <1>5, <2>1, <2>3, <3>1 DEF FeedInv, FoundHistory
      <3> QED
        BY <3>1, <3>2
    <2> QED
      BY <2>1, <2>2, <2>3
  <1> QED
    BY <1>7, <1>8, <1>9, <1>10 DEF FeedInv

(* Renderings and watchers only ever add what is on chain to the rows. *)
LEMMA LiveStep ==
    ASSUME FeedInv,
           \/ RenderPage
           \/ \E s \in Sources : StartWatching(s) \/ Poll(s) \/ PollFails(s)
           \/ \E batch \in arriving : AppendLiveLogs(batch) \/ LoseLiveLogs(batch)
    PROVE  FeedInv' /\ rows \subseteq rows'
  <1>1. UNCHANGED <<log, home, backfill, view, since>> /\ Logs' = Logs
    BY DEF RenderPage, StartWatching, Poll, PollFails, AppendLiveLogs, LoseLiveLogs, Logs
  <1>2. Len(log) \in Logs \cup {0, NotWatching}
    BY DEF FeedInv, FeedTypeOK, Logs
  <1>3. /\ rows \subseteq rows' /\ rows' \subseteq Logs
        /\ watched' \in [Sources -> Logs \cup {0, NotWatching}]
        /\ arriving' \subseteq SUBSET Logs
    <2>1. CASE \E s \in Sources : StartWatching(s)
      BY <1>2, <2>1 DEF StartWatching, FeedInv, FeedTypeOK
    <2>2. CASE \E s \in Sources : Poll(s)
      BY <1>2, <2>2 DEF Poll, FeedInv, FeedTypeOK, LogsOf
    <2>3. CASE \E batch \in arriving : AppendLiveLogs(batch)
      BY <2>3 DEF AppendLiveLogs, MergeRows, Rerender, FeedInv, FeedTypeOK
    <2>4. CASE \E batch \in arriving : LoseLiveLogs(batch)
      BY <2>4 DEF LoseLiveLogs, FeedInv, FeedTypeOK
    <2>5. CASE \E s \in Sources : PollFails(s)
      BY <1>2, <2>5 DEF PollFails, FeedInv, FeedTypeOK
    <2>6. CASE RenderPage
      BY <2>6 DEF RenderPage, Rerender, FeedInv, FeedTypeOK
    <2> QED
      BY <2>1, <2>2, <2>3, <2>4, <2>5, <2>6
  <1>4. Backfill' = Backfill /\ NotWatching' = NotWatching
    BY <1>1 DEF Backfill, NotWatching
  <1>5. FeedTypeOK'
    BY <1>1, <1>3, <1>4 DEF FeedInv, FeedTypeOK
  <1> QED
    BY <1>1, <1>3, <1>5
    DEF FeedInv, FollowsWallet, FoundHistory, SettledIsOver, HistoryComplete, Current

LEMMA FeedStep ==
    FeedInv /\ [FeedNext]_feedVars =>
        FeedInv' /\ DropsOnLoading
  <1> SUFFICES ASSUME FeedInv, [FeedNext]_feedVars
               PROVE  FeedInv' /\ DropsOnLoading
    OBVIOUS
  <1>0. rows \subseteq rows' => DropsOnLoading
    BY DEF DropsOnLoading
  <1>1. CASE \E s \in Sources : Mine(s)
    BY <1>0, <1>1, MineStep DEF Mine
  <1>2. CASE SwitchChain
    BY <1>0, <1>2, SwitchStep DEF SwitchChain
  <1>3. CASE \E b \in DOMAIN backfill, s \in Sources : Query(b, s)
    BY <1>0, <1>3, QueryStep DEF Query
  <1>4. CASE \E b \in DOMAIN backfill : Finish(b) \/ Fail(b)
    BY <1>4, OverStep
  <1>5. CASE \/ RenderPage
             \/ \E s \in Sources : StartWatching(s) \/ Poll(s) \/ PollFails(s)
             \/ \E batch \in arriving : AppendLiveLogs(batch) \/ LoseLiveLogs(batch)
    BY <1>0, <1>5, LiveStep
  <1>6. CASE UNCHANGED feedVars
    BY <1>0, <1>6
    DEF feedVars, FeedInv, FeedTypeOK, FollowsWallet, FoundHistory, SettledIsOver,
        HistoryComplete, Current, Backfill, Logs, NotWatching
  <1> QED
    BY <1>1, <1>2, <1>3, <1>4, <1>5, <1>6 DEF FeedNext

LEMMA FeedInvariant == FeedSpec => []FeedInv
  BY InitFeed, FeedStep, PTL DEF FeedSpec

-----------------------------------------------------------------------------
(***************************************************************************)
(* Rows, batches and backfills hold logs of the chain only, and a watcher  *)
(* is never ahead of it.                                                   *)
(***************************************************************************)
THEOREM FeedTypeCorrect == FeedSpec => []FeedTypeOK
  BY FeedInvariant, PTL DEF FeedInv

(***************************************************************************)
(* A loaded list holds everything that was on chain when its backfill      *)
(* began, whatever older backfills and live batches came back in between.  *)
(***************************************************************************)
THEOREM HistoryIsComplete == FeedSpec => []HistoryComplete
  BY FeedInvariant, PTL DEF FeedInv

(***************************************************************************)
(* Rows disappear only when a backfill sets them, which each does once and *)
(* only the current one, and at home it sets all that was on chain when it *)
(* began.                                                                  *)
(***************************************************************************)
THEOREM RowsStay == FeedSpec => OnlyLoadingDropsRows
  <1>1. FeedInv /\ [FeedNext]_feedVars =>
            [\A i \in rows \ rows' :
                /\ view = "loading" /\ view' = "loaded"
                /\ home => i > since]_feedVars
    BY FeedStep DEF DropsOnLoading
  <1> QED
    BY <1>1, FeedInvariant, PTL DEF FeedSpec, OnlyLoadingDropsRows

=============================================================================
