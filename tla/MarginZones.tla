----------------------------- MODULE MarginZones -----------------------------
(***************************************************************************)
(* What a lending market promises about risk, without saying how: every    *)
(* user is in one of four zones, the market as a whole is open, frozen or  *)
(* matured, and only some moves exist.                                     *)
(*                                                                         *)
(*   none         no debt                                                  *)
(*   within       debt within the borrowing capacity                       *)
(*   margin       debt beyond the capacity, within the maintenance margin  *)
(*   liquidatable debt beyond the maintenance margin                       *)
(*                                                                         *)
(* A user's transactions can lead into debt only as far as "within", and   *)
(* otherwise only to safety; nobody else's transaction touches a user who  *)
(* is not liquidatable, except to the better; the only way into "margin"   *)
(* and "liquidatable" is the market's repricing.                           *)
(***************************************************************************)
CONSTANT Users

VARIABLES
    zone,     \* the zone each user is in
    status,   \* of the asset: open, frozen, matured
    terms     \* price and factors, which only the market as a whole changes

zones == <<zone, status, terms>>

Zone == {"none", "within", "margin", "liquidatable"}
Status == {"open", "frozen", "matured"}

(* The zones no worse than a zone. *)
NoWorse == [none         |-> {"none"},
            within       |-> {"none", "within"},
            margin       |-> {"none", "within", "margin"},
            liquidatable |-> Zone]

Init ==
    /\ zone = [u \in Users |-> "none"]
    /\ status = "open"

(* A step of one user: from one zone into one of some, and nobody else     *)
(* moves.                                                                  *)
MoveInto(u, before, after, somewhere) ==
    /\ after[u] \in somewhere
    /\ \A v \in Users \ {u} : after[v] = before[v]

(* Repaying, or gaining collateral, in any state of the market; or being   *)
(* liquidated, which can make nothing worse for who is liquidatable.       *)
TakeRiskOff(u, before, after) == MoveInto(u, before, after, NoWorse[before[u]])

TakeLoan(u, before, after) ==
    /\ status = "open"
    /\ before[u] \in {"none", "within"}
    /\ MoveInto(u, before, after, {"within"})

(* New terms move everyone who owes, in any direction. *)
Reprice(before, after) ==
    /\ terms' # terms
    /\ UNCHANGED status
    /\ after \in [Users -> Zone]
    /\ \A u \in Users : after[u] = "none" <=> before[u] = "none"

(* The owner freezes and thaws the asset; maturity is for good. *)
ChangeStatus(before, after) ==
    /\ after = before
    /\ UNCHANGED terms
    /\ \/ status = "open" /\ status' \in Status
       \/ status = "frozen" /\ status' = "open"

Next ==
    LET before == zone
        after  == zone'
    IN  \/ /\ UNCHANGED <<status, terms>>
           /\ \E u \in Users : TakeRiskOff(u, before, after) \/ TakeLoan(u, before, after)
        \/ Reprice(before, after)
        \/ ChangeStatus(before, after)

Spec == Init /\ [][Next]_zones

=============================================================================
