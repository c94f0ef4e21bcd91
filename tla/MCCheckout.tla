---------------------------- MODULE MCCheckout ------------------------------
(***************************************************************************)
(* The parts of the checkout on small instances. They meet in the database *)
(* only: an order once paid, CheckoutPayment, may be refunded,             *)
(* CheckoutRefund, be followed by offers, CheckoutOffer, and each of its   *)
(* changes is told to the seller, CheckoutDelivery. A behaviour of this    *)
(* module follows one of them, with the others at rest.                    *)
(***************************************************************************)
EXTENDS CheckoutPayment, CheckoutBounds, TLC

VARIABLES
  part,
  day, status, refund, reversal, returned, asking, request,
  row, rule, failing, writes, pass, again, crashes, lapsed,
  window, answer, orders, click

\* A notice is tried again after one tick, each time.
Delays == <<1>>

R == INSTANCE CheckoutRefund WITH
  Total <- SaleTotal, Fee <- SaleFee, MaxRequests <- MaxRefunds
D == INSTANCE CheckoutDelivery WITH
  Worker <- Deliverer, MaxStops <- MaxCrashes, stops <- crashes
O == INSTANCE CheckoutOffer

refundVars == <<day, status, refund, reversal, returned, asking, request>>
deliveryVars == <<row, rule, failing, writes, pass, again, crashes, lapsed>>
offerVars == <<window, answer, orders, click>>
parts == <<part, vars, refundVars, deliveryVars, offerVars>>

\* An order with no step that must come.
PaymentAtRest ==
  /\ method \in Method \cap {"PIX"} /\ age = 3 /\ order = "PENDING" /\ total \in Total /\ sale = None /\ settled = 0
  /\ pix = "FAILED" /\ caller = "done" /\ efiPix = "none" /\ found = {} /\ made = 0
  /\ try = [n \in Try |-> "NONE"] /\ price = [n \in Try |-> total] /\ born = [n \in Try |-> 0]
  /\ sender = [n \in Try |-> "done"] /\ charge = [n \in Try |-> "none"]
  /\ sees = {} /\ asked = {} /\ stops = 0

MCInit ==
  /\ part \in {"payment", "refund", "delivery", "offer"}
  /\ IF part = "payment" THEN Init ELSE PaymentAtRest
  /\ R!Init /\ D!Init /\ O!Init

MCNext ==
  /\ UNCHANGED part
  /\ \/ part = "payment" /\ Next /\ UNCHANGED <<refundVars, deliveryVars, offerVars>>
     \/ part = "refund" /\ R!Next /\ UNCHANGED <<vars, deliveryVars, offerVars>>
     \/ part = "delivery" /\ D!Next /\ UNCHANGED <<vars, refundVars, offerVars>>
     \/ part = "offer" /\ O!Next /\ UNCHANGED <<vars, refundVars, deliveryVars>>

\* The parts at rest have no step that fairness asks for.
MCSpec == MCInit /\ [][MCNext]_parts /\ Fairness /\ D!Fairness

(* The type invariants of the parts.                                        *)
PartsTypeOK == TypeOK /\ R!TypeOK /\ D!TypeOK /\ O!TypeOK

(* The properties of the parts, stated in their modules.                    *)
RefundsAddUp == R!RefundsAddUp
OneSender == D!OneSender
OneAnswerEach == O!OneAnswerEach

(* What was paid is applied and what is told is delivered or given up:      *)
(* PaymentIsApplied and DeliveryEnds.                                       *)
CheckoutEnds == PaymentIsApplied /\ D!DeliveryEnds
=============================================================================
