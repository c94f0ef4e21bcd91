---------------------------- MODULE CheckoutSale ----------------------------
(***************************************************************************)
(* What the checkout promises of one order, to its seller and its ledger:  *)
(* it is sold at most once, for an amount really paid and never changed    *)
(* afterwards, with one notice. An order with no payment may be closed,    *)
(* and a payment is applied whatever had become of its order.              *)
(***************************************************************************)
EXTENDS Naturals

CONSTANTS
  Total,  \* amounts that may be paid
  None    \* not sold

VARIABLES
  state,    \* OPEN, CLOSED or SOLD
  paid,     \* amounts paid at Efi
  sold,     \* the amount in the ledger
  notices   \* to the seller

vars == <<state, paid, sold, notices>>

Init == state = "OPEN" /\ paid = {} /\ sold = None /\ notices = 0

Pay(amount) ==
  /\ paid' = paid \cup {amount}
  /\ UNCHANGED <<state, sold, notices>>

Close ==
  /\ state = "OPEN" /\ paid = {}
  /\ state' = "CLOSED"
  /\ UNCHANGED <<paid, sold, notices>>

Sell(amount) ==
  /\ state # "SOLD" /\ amount \in paid
  /\ state' = "SOLD" /\ sold' = amount /\ notices' = 1
  /\ UNCHANGED paid

Next == Close \/ \E amount \in Total : Pay(amount) \/ Sell(amount)

Spec == Init /\ [][Next]_vars
=============================================================================
