--------------------------- MODULE CheckoutOffer ----------------------------
(***************************************************************************)
(* The offers that follow a paid purchase of the checkout. Each offer is   *)
(* answered once; an accepted one is an order of its own, paid by Pix or   *)
(* with the card kept from the purchase, and may be paid again by Pix when *)
(* it was not paid in time. Accepting locks the purchase; declining does   *)
(* not. What a click has read is used some statements later.               *)
(***************************************************************************)
EXTENDS Naturals, SequencesExt, FiniteSetsExt

CONSTANTS
  Offer,
  Click,      \* requests of the buyer: double clicks, two tabs
  MaxOrders   \* bound: orders of one offer

VARIABLES
  window,  \* the purchase is paid and its offers are open
  answer,  \* CheckoutOfferResponse.decision per offer, or NONE
  orders,  \* per offer, oldest first: method, and how far the order is
  click    \* what each request has read and still does

vars == <<window, answer, orders, click>>

\* OPEN; LATE: a Pix past its validity of which Efi was not asked yet; BOUGHT; FAILED.
State == {"OPEN", "LATE", "BOUGHT", "FAILED"}
Idle == [does |-> "nothing"]

Init ==
  /\ window = "open"
  /\ answer = [o \in Offer |-> "NONE"]
  /\ orders = [o \in Offer |-> <<>>]
  /\ click = [c \in Click |-> Idle]

(* orderState of the latest order: a Pix past its validity counts as failed.*)
OrderState(o) ==
  IF orders[o] = <<>> THEN "NONE"
  ELSE IF Last(orders[o]).state = "LATE" THEN "FAILED" ELSE Last(orders[o]).state

Answerable(o) == window = "open" /\ answer[o] # "DECLINED" /\ OrderState(o) # "BOUGHT"

(* "The kept card is charged once per offer", by the latest order alone.    *)
CardUsable(o) ==
  ~(orders[o] # <<>> /\ Last(orders[o]).method = "CARD" /\ OrderState(o) = "FAILED")

ClickAccept(c, o, method) ==
  /\ click[c] = Idle /\ Answerable(o)
  /\ method = "CARD" => CardUsable(o)
  /\ click' = [click EXCEPT ![c] = [does |-> "accept", of |-> o, by |-> method]]
  /\ UNCHANGED <<window, answer, orders>>

(* A variant: an answer is not looked at again.                             *)
MayRecordAnyAnswer(o) == OrderState(o) \notin {"BOUGHT", "OPEN"}

\* Under the lock of the purchase.
MayRecord(o) == OrderState(o) \notin {"BOUGHT", "OPEN"} /\ answer[o] # "DECLINED"

Accept(c) ==
  LET o == click[c].of
  IN /\ click[c].does = "accept"
     /\ MayRecord(o) /\ Len(orders[o]) < MaxOrders
     /\ answer' = [answer EXCEPT ![o] = "ACCEPTED"]
     /\ orders' = [orders EXCEPT ![o] = Append(@, [method |-> click[c].by, state |-> "OPEN"])]
     /\ click' = [click EXCEPT ![c] = Idle]
     /\ UNCHANGED window

ClickDecline(c, o) ==
  /\ click[c] = Idle
  /\ Answerable(o) /\ OrderState(o) # "OPEN"
  /\ click' = [click EXCEPT ![c] = [does |-> "decline", of |-> o]]
  /\ UNCHANGED <<window, answer, orders>>

Decline(c) ==
  /\ click[c].does = "decline"
  /\ answer' = [answer EXCEPT ![click[c].of] = "DECLINED"]
  /\ click' = [click EXCEPT ![c] = Idle]
  /\ UNCHANGED <<window, orders>>

\* Refused, or the process stops.
GiveUp(c) ==
  /\ click[c] # Idle
  /\ click' = [click EXCEPT ![c] = Idle]
  /\ UNCHANGED <<window, answer, orders>>

(* What becomes of an order: see CheckoutPayment. A Pix may be refused by   *)
(* Efi at once; one that is late may turn out to be paid.                   *)
Moves(method, from) ==
  CASE from = "OPEN" -> {"BOUGHT", "FAILED"} \cup (IF method = "PIX" THEN {"LATE"} ELSE {})
    [] from = "LATE" -> {"BOUGHT", "FAILED"}
    [] OTHER -> {}

OrderMoves(o, i) ==
  /\ i \in DOMAIN orders[o]
  /\ \E to \in Moves(orders[o][i].method, orders[o][i].state) :
       orders' = [orders EXCEPT ![o][i].state = to]
  /\ UNCHANGED <<window, answer, click>>

WindowCloses ==
  /\ window = "open"
  /\ window' = "closed"
  /\ UNCHANGED <<answer, orders, click>>

Next ==
  \/ \E c \in Click :
       \/ Accept(c) \/ Decline(c) \/ GiveUp(c)
       \/ \E o \in Offer :
            ClickDecline(c, o) \/ \E method \in {"PIX", "CARD"} : ClickAccept(c, o, method)
  \/ \E o \in Offer, i \in 1 .. MaxOrders : OrderMoves(o, i)
  \/ WindowCloses

Spec == Init /\ [][Next]_vars

(***************************************************************************)
(* Properties.                                                             *)
(***************************************************************************)
TypeOK ==
  /\ window \in {"open", "closed"}
  /\ answer \in [Offer -> {"NONE", "ACCEPTED", "DECLINED"}]
  /\ \A o \in Offer : Range(orders[o]) \subseteq [method : {"PIX", "CARD"}, state : State]
  /\ \A c \in Click : click[c].does \in {"nothing", "accept", "decline"}

(* An offer declined stays declined, and no order is made of it any more,   *)
(* also by a click that was on its way; nor is one made while another may   *)
(* still be bought ("Two clicks never create two offer orders").            *)
OneAnswerEach ==
  [][\A o \in Offer :
       /\ answer[o] = "DECLINED" => answer'[o] = "DECLINED"
       /\ answer[o] = "DECLINED" \/ OrderState(o) \in {"OPEN", "BOUGHT"} =>
            Len(orders'[o]) = Len(orders[o])]_vars
=============================================================================
