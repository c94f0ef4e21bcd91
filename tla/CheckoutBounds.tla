--------------------------- MODULE CheckoutBounds ---------------------------
(* What the parts of the checkout that follow a payment are bounded by.     *)
EXTENDS Naturals, Sequences, FiniteSets

CONSTANTS
  \* of CheckoutRefund
  SaleTotal, SaleFee, Devolution, ByHand, MaxRefunds, LastDay,
  \* of CheckoutDelivery
  Notice, Deliverer, Claim, Delay, Window, DisableAfter, PassTime, SendTime, MaxAgain, MaxCrashes,
  \* of CheckoutOffer
  Offer, Click, MaxOrders

ASSUME RefundAssumption ==
  /\ SaleTotal \in Nat \ {0} /\ SaleFee \in Nat /\ LastDay \in Nat
  /\ IsFiniteSet(Devolution) /\ IsFiniteSet(ByHand)

ASSUME DeliveryAssumption ==
  /\ {Claim, Window, DisableAfter, PassTime, SendTime, MaxAgain, MaxCrashes} \subseteq Nat
  /\ Delay \in Seq(Nat \ {0}) /\ Delay # <<>>
=============================================================================
