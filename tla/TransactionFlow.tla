--------------------------- MODULE TransactionFlow ---------------------------
(***************************************************************************)
(* The life of the transactions the Policy Console sends                   *)
(* (lib/useTransactionFlow.ts), one hook per button, and of the copies of  *)
(* contract reads the page decides on.                                     *)
(*                                                                         *)
(* Of the chain there is its height.  A transaction of the page that lands *)
(* makes a block, and so does everybody else; a copy of a read is the      *)
(* height it was read at.  Which clicks a form's own checks let through is *)
(* FormChecks; here any click may be one.                                  *)
(*                                                                         *)
(* External, modelled by what the code relies on: the wallet; wagmi's      *)
(* useWriteContract (forgets its last hash when a new write begins) and    *)
(* useWaitForTransactionReceipt (an error for a reverted transaction and   *)
(* for a receipt it cannot fetch, fetched anew on focus; paused offline);  *)
(* TanStack Query (an invalidation asks again for every read that has an   *)
(* answer, but leaves a first request on its way alone).                   *)
(***************************************************************************)
EXTENDS Naturals, Sequences

CONSTANTS
    Buttons,        \* each with its own useTransactionFlow
    Unguarded,      \* those drawn on the wrong network too: DepositForm's
    Reads,          \* the page's contract reads
    Questions,      \* those first asked when something is typed
    None,           \* no answer, no request
    MaxSends,       \* bound on the clicks
    MaxOutside,     \* bound on the blocks made by others
    MaxDetours      \* bound on changes of network and visits to other pages

ASSUME FlowAssumption ==
    /\ Unguarded \subseteq Buttons
    /\ Questions \subseteq Reads
    /\ None \notin Nat
    /\ {MaxSends, MaxOutside, MaxDetours} \subseteq Nat

VARIABLES
    height,     \* of the chain
    txs,        \* the page's transactions, in the order of their clicks
    flow,       \* per button: its hook's transaction, and its receipt
    network,    \* the chain the wallet is on: "home" (CHAIN_ID) or "away"
    copy,       \* per read, the height of the page's copy
    request,    \* per read, the height at which a request for it was sent
    lostSight,  \* history: transactions the page stopped watching for a while
    overtaken,  \* history: reads whose first request a confirmation overtook
    outside,    \* blocks made by others
    detours     \* detours taken

vars == <<height, txs, flow, network, copy, request, lostSight, overtaken,
          outside, detours>>
historyVars == <<lostSight, overtaken>>
pageVars == <<flow, copy, request>>
bounds == <<outside, detours>>

NoFlow == [tx |-> 0, receipt |-> "loading"]

Init ==
    /\ height = 0
    /\ txs = <<>>
    /\ flow = [b \in Buttons |-> NoFlow]
    /\ network = "home"
    /\ copy = [k \in Reads |-> None]
    /\ request = [k \in Reads |-> IF k \in Questions THEN None ELSE 0]
    /\ lostSight = {} /\ overtaken = {}
    /\ outside = 0 /\ detours = 0

-----------------------------------------------------------------------------
(* The status the hook derives. *)
StatusOfReceipt ==
    [error |-> "failed", success |-> "confirmed", loading |-> "pending",
     paused |-> "submitted"]

FlowStatus(f) ==
    IF f.tx = 0 THEN "idle"
    ELSE CASE txs[f.tx].fate = "unsent" -> "rejected"  \* or "failed", by the error
           [] txs[f.tx].fate = "asked" -> "wallet-confirmation"
           [] OTHER -> StatusOfReceipt[f.receipt]

Status(b) == IF network = "away" THEN "wrong-network" ELSE FlowStatus(flow[b])

M_PromptIsBusy(b) == Status(b) = "wallet-confirmation"

(* The forms' submitting. *)
Busy(b) == Status(b) \in {"wallet-confirmation", "pending"}

OnItsWay(n) == txs[n].fate \in {"asked", "waiting"}

LoseSightOf(buttons) ==
    lostSight' = lostSight \cup
        {n \in DOMAIN txs : OnItsWay(n) /\ \E b \in buttons : flow[b].tx = n}

-----------------------------------------------------------------------------
(* The person. *)
Click(b) ==
    /\ network = "home" \/ b \in Unguarded
    /\ ~Busy(b)
    /\ Len(txs) < MaxSends
    /\ txs' = Append(txs, [button |-> b, chain |-> network, fate |-> "asked", block |-> 0])
    /\ flow' = [flow EXCEPT ![b] = [NoFlow EXCEPT !.tx = Len(txs')]]
    /\ IF network = "away" THEN LoseSightOf({b}) ELSE UNCHANGED lostSight
    /\ UNCHANGED <<height, network, copy, request, overtaken, bounds>>

Detour ==
    /\ detours < MaxDetours
    /\ detours' = detours + 1

SwitchNetwork ==
    /\ Detour
    /\ network' = IF network = "home" THEN "away" ELSE "home"
    /\ UNCHANGED <<height, txs, pageVars, historyVars, outside>>

(* To the activity page and back: the hooks start anew, the reads' copies  *)
(* are kept and asked for again.                                           *)
LeaveAndReturn ==
    /\ Detour
    /\ flow' = [b \in Buttons |-> NoFlow]
    /\ LoseSightOf(Buttons)
    /\ request' = [k \in Reads |-> IF copy[k] = None THEN request[k] ELSE height]
    /\ overtaken' = {k \in overtaken : copy[k] = None}
    /\ UNCHANGED <<height, txs, network, copy, outside>>

-----------------------------------------------------------------------------
(* The wallet, and the chain.  An account's transactions land in the order *)
(* of their nonces; nothing below rests on it.                             *)
Settle(n, from, to) ==
    /\ txs[n].fate = from
    /\ txs' = [txs EXCEPT ![n].fate = to]
    /\ UNCHANGED <<height, network, pageVars, historyVars, bounds>>

Confirm(n) ==
    Settle(n, "asked", IF txs[n].chain = "home" THEN "waiting" ELSE "astray")

NotSent(n) == Settle(n, "asked", "unsent")

Land(n) ==
    /\ txs[n].fate = "waiting"
    /\ height' = height + 1
    /\ txs' = [txs EXCEPT ![n].fate = "landed", ![n].block = height']
    /\ UNCHANGED <<network, pageVars, historyVars, bounds>>

RevertOrDrop(n) == Settle(n, "waiting", "reverted") \/ Settle(n, "waiting", "dropped")

Outside ==
    /\ outside < MaxOutside
    /\ outside' = outside + 1
    /\ height' = height + 1
    /\ UNCHANGED <<txs, network, pageVars, historyVars, detours>>

-----------------------------------------------------------------------------
(* Receipts. *)
M_EveryReceiptIsSuccess(fate) == "success"

ReceiptOf(fate) == IF fate = "landed" THEN "success" ELSE "error"

M_InvalidateNothing == request

(* queryClient.invalidateQueries. *)
InvalidateQueries ==
    [k \in Reads |-> IF copy[k] = None THEN request[k] ELSE height]

ReceiptArrives(b) ==
    /\ flow[b].tx # 0 /\ flow[b].receipt = "loading"
    /\ txs[flow[b].tx].fate \in {"landed", "reverted"}
    /\ flow' = [flow EXCEPT ![b].receipt = ReceiptOf(txs[flow[b].tx].fate)]
    /\ IF flow'[b].receipt = "success"
       THEN /\ request' = InvalidateQueries
            /\ overtaken' = {k \in Reads : copy[k] = None /\ request[k] # None}
       ELSE UNCHANGED <<request, overtaken>>
    /\ UNCHANGED <<height, txs, network, copy, lostSight, bounds>>

WatchReceipt(b, from, to) ==
    /\ flow[b].tx # 0
    /\ txs[flow[b].tx].fate \notin {"asked", "unsent"}
    /\ flow[b].receipt = from
    /\ flow' = [flow EXCEPT ![b].receipt = to]
    /\ UNCHANGED <<height, txs, network, copy, request, overtaken, bounds>>

ReceiptNotFetched(b) ==
    /\ WatchReceipt(b, "loading", "error") \/ WatchReceipt(b, "loading", "paused")
    /\ LoseSightOf({b})

FetchReceiptAgain(b) ==
    /\ WatchReceipt(b, "error", "loading") \/ WatchReceipt(b, "paused", "loading")
    /\ UNCHANGED lostSight

-----------------------------------------------------------------------------
(* Reads: first asked for, or again on the window's focus. *)
Ask(k) ==
    /\ request[k] = None
    /\ request' = [request EXCEPT ![k] = height]
    /\ overtaken' = overtaken \ {k}
    /\ UNCHANGED <<height, txs, flow, network, copy, lostSight, bounds>>

(* The answer is as of some block since the request. *)
Answer(k) ==
    /\ request[k] # None
    /\ \E h \in request[k]..height : copy' = [copy EXCEPT ![k] = h]
    /\ request' = [request EXCEPT ![k] = None]
    /\ UNCHANGED <<height, txs, flow, network, historyVars, bounds>>

-----------------------------------------------------------------------------
PersonNext == SwitchNetwork \/ LeaveAndReturn \/ \E b \in Buttons : Click(b)

ChainNext ==
    \/ Outside
    \/ \E n \in DOMAIN txs : Confirm(n) \/ NotSent(n) \/ Land(n) \/ RevertOrDrop(n)

PageNext ==
    \/ \E b \in Buttons : ReceiptArrives(b) \/ ReceiptNotFetched(b) \/ FetchReceiptAgain(b)
    \/ \E k \in Reads : Ask(k) \/ Answer(k)

Next == PersonNext \/ ChainNext \/ PageNext

(* Requests are answered in the end. *)
Fairness == \A k \in Reads : WF_vars(Answer(k))

Spec == Init /\ [][Next]_vars /\ Fairness

-----------------------------------------------------------------------------
Fates == {"asked", "unsent", "waiting", "landed", "reverted", "dropped", "astray"}

Transaction ==
    [button: Buttons, chain: {"home", "away"}, fate: Fates, block: Nat]

Flow == [tx: Nat, receipt: {"error", "success", "loading", "paused"}]

(* What the page knows never runs ahead of what happened: no copy or       *)
(* request from the future, nothing confirmed that did not land.           *)
FlowTypeOK ==
    /\ height \in Nat
    /\ txs \in Seq(Transaction)
    /\ \A n \in DOMAIN txs : txs[n].block <= height
    /\ flow \in [Buttons -> Flow]
    /\ \A b \in Buttons : flow[b].tx <= Len(txs)
    /\ network \in {"home", "away"}
    /\ copy \in [Reads -> 0..height \cup {None}]
    /\ request \in [Reads -> 0..height \cup {None}]
    /\ lostSight \subseteq DOMAIN txs
    /\ overtaken \subseteq Reads
    /\ \A b \in Buttons : Status(b) = "confirmed" => txs[flow[b].tx].fate = "landed"

(***************************************************************************)
(* A button never has two transactions on their way, unless the page lost  *)
(* sight of the first: its receipt could not be fetched, fetching was      *)
(* paused, the page was left, or the second was sent from the wrong        *)
(* network.                                                                *)
(***************************************************************************)
AtMostOneOnTheWay ==
    \A m, n \in DOMAIN txs :
        /\ m < n
        /\ txs[m].button = txs[n].button
        /\ OnItsWay(m) /\ OnItsWay(n)
        => m \in lostSight

(***************************************************************************)
(* What the hook's comment is after: when a button shows its transaction   *)
(* confirmed, every read the page holds shows a state with that            *)
(* transaction in it in the end, in whichever form it is used, except a    *)
(* read whose first request the confirmation overtook.                     *)
(***************************************************************************)
ShownConfirmed(n) ==
    \E b \in Buttons : flow[b].tx = n /\ Status(b) = "confirmed"

Reflects(k, n) == n \in DOMAIN txs /\ copy[k] # None /\ copy[k] >= txs[n].block

ConfirmedIsReflected ==
    \A k \in Reads : \A n \in 1..MaxSends :
        (ShownConfirmed(n) /\ copy[k] # None /\ k \notin overtaken) ~> Reflects(k, n)

=============================================================================
