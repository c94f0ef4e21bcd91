--------------------------- MODULE CheckoutRefund ---------------------------
(***************************************************************************)
(* Refunds of one sale of the checkout. Buyer and seller ask for one, an   *)
(* administrator makes it, in parts if need be, at Efi or by hand. What    *)
(* Efi returned is a fact, told by notices that may be repeated or late;   *)
(* what is entered by hand is checked. Every refund is recorded under the  *)
(* lock of the order, with the part of the platform's fee that goes back;  *)
(* requests are created and resolved without that lock.                    *)
(***************************************************************************)
EXTENDS Integers, FiniteSets, SequencesExt

CONSTANTS
  Total,        \* CheckoutOrder.totalCents
  Fee,          \* CheckoutOrder.platformFeeCents
  Devolution,   \* returns of the Pix at Efi
  ByHand,       \* refunds entered by hand, by idempotency key
  MaxRequests,  \* bound: requests for a refund
  LastDay,      \* bound: days modelled
  None

RequestId == 1 .. MaxRequests
Amount == 1 .. Total
Key == Devolution \cup ByHand
\* BUYER_REFUND_WINDOW_MS and REFUND_HOLD_MS, 7 days each, are one day here.
BuyerWindow == 1
Hold == 1

VARIABLES
  day,       \* since the payment
  status,    \* CheckoutOrder.status
  refund,    \* REFUND entries of the ledger: amount per key, 0 if none
  reversal,  \* sum of the PLATFORM_FEE_REVERSAL entries
  returned,  \* at Efi: amount per devolution, 0 if none
  asking,    \* requests being made: ends of their holds
  request    \* the rows: their status and the end of the hold

vars == <<day, status, refund, reversal, returned, asking, request>>

Init ==
  /\ day = 0 /\ status = "PAID" /\ reversal = 0 /\ asking = <<>>
  /\ refund = [k \in Key |-> 0]
  /\ returned = [d \in Devolution |-> 0]
  /\ request = <<>>

Sum(amounts) == MapThenSumSet(LAMBDA k : amounts[k], DOMAIN amounts)
Refunded == Sum(refund)
AtMost(a, b) == IF a < b THEN a ELSE b
\* Math.round of a quotient of naturals: halves go up.
RoundDiv(a, b) == (2 * a + b) \div (2 * b)

Open == {r \in DOMAIN request : request[r].status = "REQUESTED"}

(***************************************************************************)
(* A refund is recorded.                                                   *)
(***************************************************************************)
(* A variant: the part of each refund is rounded by itself.                 *)
ReversalOfEach(amount) == RoundDiv(Fee * AtMost(Total, amount), Total)

\* Cumulative rounding: what goes back now.
ReversalNow(amount) == RoundDiv(Fee * AtMost(Total, Refunded + amount), Total) - reversal

StatusAfter(amount) ==
  IF Refunded + amount >= Total /\ status = "PAID" THEN "REFUNDED" ELSE status

(* Any refund answers the open requests, whatever its amount.               *)
Record(k, amount) ==
  /\ refund[k] = 0
  /\ refund' = [refund EXCEPT ![k] = amount]
  /\ reversal' = reversal + (IF ReversalNow(amount) > 0 THEN ReversalNow(amount) ELSE 0)
  /\ status' = StatusAfter(amount)
  /\ request' = [r \in DOMAIN request |->
       IF r \in Open THEN [request[r] EXCEPT !.status = "DONE"] ELSE request[r]]

(* Efi returns an amount, and tells it as often as it likes.                *)
EfiReturns(d, amount) ==
  /\ returned[d] = 0 /\ Sum(returned) + amount <= Total
  /\ returned' = [returned EXCEPT ![d] = amount]
  /\ UNCHANGED <<day, status, refund, reversal, asking, request>>

EfiNotice(d) ==
  /\ returned[d] > 0
  /\ Record(d, returned[d])
  /\ UNCHANGED <<day, returned, asking>>

\* The checks of a refund by hand; open is the first open request, if any.
Held(open) == request[open].until # None /\ day < request[open].until

ManualRefund(k, amount) ==
  /\ status = "PAID"
  /\ amount <= Total - Refunded
  /\ Open = {} \/ \E open \in Open : ~Held(open)
  /\ Record(k, amount)
  /\ UNCHANGED <<day, returned, asking>>

(***************************************************************************)
(* Requests. What request() reads of the order is checked some statements  *)
(* before the row is created.                                              *)
(***************************************************************************)
Ask(origin) ==
  /\ Len(asking) + Len(request) < MaxRequests
  /\ status = "PAID" /\ Open = {}
  /\ origin = "BUYER" => day <= BuyerWindow
  /\ asking' = Append(asking, IF origin = "BUYER" THEN day + Hold ELSE None)
  /\ UNCHANGED <<day, status, refund, reversal, returned, request>>

Create(n) ==
  /\ n \in DOMAIN asking
  /\ asking' = RemoveAt(asking, n)
  /\ request' = Append(request, [status |-> "REQUESTED", until |-> asking[n]])
  /\ UNCHANGED <<day, status, refund, reversal, returned>>

Close(r, s) ==
  /\ r \in Open
  /\ request' = [request EXCEPT ![r].status = s]
  /\ UNCHANGED <<day, status, refund, reversal, returned, asking>>

Withdraw(r) == Close(r, "WITHDRAWN")
Reject(r) == Close(r, "REJECTED")

Chargeback ==
  /\ status \in {"PAID", "REFUNDED"}
  /\ status' = "CHARGEBACK"
  /\ UNCHANGED <<day, refund, reversal, returned, asking, request>>

\* A request that was started ends within the day.
NextDay ==
  /\ day < LastDay /\ asking = <<>>
  /\ day' = day + 1
  /\ UNCHANGED <<status, refund, reversal, returned, asking, request>>

Next ==
  \/ \E d \in Devolution : EfiNotice(d) \/ \E amount \in Amount : EfiReturns(d, amount)
  \/ \E k \in ByHand, amount \in Amount : ManualRefund(k, amount)
  \/ \E origin \in {"BUYER", "SELLER"} : Ask(origin)
  \/ \E r \in RequestId : Create(r) \/ Withdraw(r) \/ Reject(r)
  \/ Chargeback \/ NextDay

Spec == Init /\ [][Next]_vars

(***************************************************************************)
(* Properties.                                                             *)
(***************************************************************************)
Until == 0 .. LastDay + Hold \cup {None}

TypeOK ==
  /\ day \in 0 .. LastDay /\ status \in {"PAID", "REFUNDED", "CHARGEBACK"}
  /\ refund \in [Key -> 0 .. Total] /\ reversal \in Nat
  /\ returned \in [Devolution -> 0 .. Total]
  /\ Range(asking) \subseteq Until
  /\ Range(request) \subseteq
       [status : {"REQUESTED", "DONE", "WITHDRAWN", "REJECTED"}, until : Until]

(* However a sale is returned in parts, the fee that went back is that of   *)
(* all that was returned; the sale counts as refunded exactly from the      *)
(* refund that completes it; a late notice never undoes a chargeback.       *)
RefundsAddUp ==
  /\ reversal = RoundDiv(Fee * AtMost(Total, Refunded), Total)
  /\ status # "CHARGEBACK" => (status = "REFUNDED" <=> Refunded >= Total)
=============================================================================
