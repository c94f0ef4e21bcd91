-------------------------- MODULE CheckoutPayment --------------------------
(***************************************************************************)
(* How one order of the checkout is paid: by an immediate Pix or by a card *)
(* charged in up to three tries. Each charge is sent to Efi once; an answer*)
(* that is lost is looked up later and never sent again. Notices and the   *)
(* worker's readings of Efi may be repeated, late or lost.                 *)
(*                                                                         *)
(* Every write is conditional on the current status; what a handler has    *)
(* read at Efi and not applied yet is in found (Pix) and sees (card).      *)
(* Times are those of the order: its age in stages, see Age.               *)
(***************************************************************************)
EXTENDS Integers, FiniteSets

CONSTANTS
  Method,    \* the methods an order may be created with: PIX, CARD
  Request,   \* requests of another try with a card
  MaxTries,  \* CARD_ATTEMPTS_PER_ORDER
  Total,     \* what the options of instalments (or the Pix) come to
  MaxReads,  \* bound: answers and readings of one charge not applied yet
  MaxStops,  \* bound: processes that stop
  None       \* nothing sold yet

ASSUME MethodAssumption == Method \subseteq {"PIX", "CARD"}
ASSUME BoundsAssumption == MaxTries \in Nat \ {0} /\ {MaxReads, MaxStops} \subseteq Nat
ASSUME TotalAssumption == None \notin Total

Try == 1 .. MaxTries
\* 0: under 10 minutes; 1: under 30, the validity; 2: under 40; 3: overdue.
Age == 0 .. 3
Busy == {"SUBMITTING", "APPROVED", "UNCERTAIN"}
OrderStatus == {"PENDING", "PAID", "EXPIRED", "FAILED", "DECLINED"}
PixStatus == {"NONE", "CREATING", "ACTIVE", "UNCERTAIN", "PAID", "EXPIRED", "FAILED"}
TryStatus == {"NONE", "PAID", "DECLINED", "CANCELED"} \cup Busy
\* What Efi has of a charge; COMING is one it received and has not handled.
Final == {"paid", "unpaid", "canceled"}
Told == {"approved"} \cup Final
Charge == {"none", "coming"} \cup Told

VARIABLES
  method,   \* CheckoutOrder.paymentMethod
  age,
  order,    \* CheckoutOrder.status
  total,    \* CheckoutOrder.totalCents
  sale,     \* the amount of the SALE entry of the ledger
  settled,  \* how often a payment was applied: notices to the seller, uses of the coupon
  pix,      \* CheckoutPaymentAttempt.status
  caller,   \* the request that creates the Pix
  efiPix,   \* the Pix at Efi
  found,    \* what the worker has read of the Pix and not applied
  made,     \* tries with a card
  try,      \* CheckoutCardAttempt.status
  price,    \* CheckoutCardAttempt.totalCents
  born,     \* the age at which a try was made
  sender,   \* the request that sends a try
  charge,   \* the charge of a try at Efi
  sees,     \* what was read of charges and not applied
  asked,    \* requests of another try that have read the order
  stops     \* processes stopped

orderVars == <<order, total, sale, settled>>
pixVars == <<pix, caller, efiPix, found>>
tryVars == <<made, try, price, born>>
cardVars == <<tryVars, sender, charge, sees, asked>>
vars == <<method, age, orderVars, pixVars, cardVars, stops>>

Init ==
  /\ method \in Method
  /\ total \in Total
  /\ age = 0 /\ order = "PENDING" /\ sale = None /\ settled = 0
  /\ efiPix = "none" /\ found = {} /\ sees = {} /\ asked = {} /\ stops = 0
  /\ charge = [n \in Try |-> "none"]
  /\ born = [n \in Try |-> 0]
  /\ price = [n \in Try |-> total]
  /\ IF method = "PIX"
     THEN /\ pix = "CREATING" /\ caller = "calling" /\ made = 0
          /\ try = [n \in Try |-> "NONE"]
          /\ sender = [n \in Try |-> "done"]
     ELSE /\ pix = "NONE" /\ caller = "done" /\ made = 1
          /\ try = [n \in Try |-> IF n = 1 THEN "SUBMITTING" ELSE "NONE"]
          /\ sender = [n \in Try |-> IF n = 1 THEN "ready" ELSE "done"]

(***************************************************************************)
(* What a payment does to its order: applied even if the order had expired *)
(* or failed. The key of the SALE entry makes it unique.                   *)
(***************************************************************************)
Settle(amount) ==
  /\ order' = "PAID"
  /\ total' = amount
  /\ sale' = IF sale = None THEN amount ELSE sale
  /\ settled' = settled + 1

(***************************************************************************)
(* The Pix of an order.                                                    *)
(***************************************************************************)
Confirm ==
  IF pix # "PAID"
  THEN pix' = "PAID" /\ Settle(total)
  ELSE UNCHANGED <<pix, orderVars>>

Fail(from) ==
  /\ pix' = IF pix = from THEN "FAILED" ELSE pix
  /\ order' = IF order = "PENDING" THEN "FAILED" ELSE order
  /\ UNCHANGED <<total, sale, settled>>

(* The call of pixCreateCharge and how it ends.                             *)
CallPix ==
  /\ caller = "calling"
  /\ \/ efiPix' = "active" /\ caller' \in {"created", "lost"}
     \/ efiPix' = "coming" /\ caller' = "lost"
     \/ efiPix' = "none" /\ caller' \in {"rejected", "lost"}
  /\ UNCHANGED <<stops, method, age, orderVars, pix, found, cardVars>>

RecordPix ==
  /\ caller \in {"created", "rejected", "lost"}
  /\ caller' = "done"
  /\ IF caller = "rejected"
     THEN Fail("CREATING")
     ELSE /\ pix' = IF pix # "CREATING" THEN pix
                    ELSE IF caller = "created" THEN "ACTIVE" ELSE "UNCERTAIN"
          /\ UNCHANGED orderVars
  /\ UNCHANGED <<stops, method, age, efiPix, found, cardVars>>

(* Efi handles what it received; the buyer pays the code shown.             *)
EfiCreatesPix ==
  /\ efiPix = "coming"
  /\ efiPix' = "active"
  /\ UNCHANGED <<stops, method, age, orderVars, pix, caller, found, cardVars>>

BuyerPays ==
  /\ efiPix = "active" /\ pix = "ACTIVE" /\ age < 3
  /\ efiPix' = "paid"
  /\ UNCHANGED <<stops, method, age, orderVars, pix, caller, found, cardVars>>

PixNotice ==
  /\ efiPix = "paid"
  /\ Confirm
  /\ UNCHANGED <<stops, method, age, caller, efiPix, found, cardVars>>

(* The worker: a lost answer, and an order well past the validity.          *)
Saw == IF efiPix = "coming" THEN "none" ELSE efiPix

ReadPix(by) ==
  /\ IF by = "uncertain"
     THEN pix = "UNCERTAIN"
     ELSE pix = "ACTIVE" /\ order = "PENDING" /\ age = 3
  /\ found' = found \cup {[by |-> by, saw |-> Saw, late |-> age > 0]}
  /\ UNCHANGED <<stops, method, age, orderVars, pix, caller, efiPix, cardVars>>

ApplyUncertain(saw, late) ==
  \/ saw = "paid" /\ Confirm
  \/ /\ saw = "active"
     /\ pix' = IF pix = "UNCERTAIN" THEN "ACTIVE" ELSE pix
     /\ UNCHANGED orderVars
  \/ /\ saw = "none"
     /\ IF late THEN Fail("UNCERTAIN") ELSE UNCHANGED <<pix, orderVars>>

(* A variant: overdue orders expire without a look at Efi.                  *)
ApplyOverdueBlindly(saw) ==
  /\ pix' = IF pix = "ACTIVE" THEN "EXPIRED" ELSE pix
  /\ order' = IF order = "PENDING" THEN "EXPIRED" ELSE order
  /\ UNCHANGED <<total, sale, settled>>

ApplyOverdue(saw) ==
  IF saw = "paid"
  THEN Confirm
  ELSE /\ pix' = IF pix = "ACTIVE" THEN "EXPIRED" ELSE pix
       /\ order' = IF order = "PENDING" THEN "EXPIRED" ELSE order
       /\ UNCHANGED <<total, sale, settled>>

ApplyPix(f) ==
  /\ found' = found \ {f}
  /\ IF f.by = "uncertain" THEN ApplyUncertain(f.saw, f.late) ELSE ApplyOverdue(f.saw)
  /\ UNCHANGED <<stops, method, age, caller, efiPix, cardVars>>

(***************************************************************************)
(* Tries with a card.                                                      *)
(***************************************************************************)
NoneBusy == \A n \in Try : try[n] \notin Busy

(* The checks of pay before its transaction.                                *)
Ask(r) ==
  /\ method = "CARD" /\ r \notin asked
  /\ order = "PENDING" /\ age < 2
  /\ NoneBusy /\ made < MaxTries
  /\ asked' = asked \cup {r}
  /\ UNCHANGED <<stops, method, age, orderVars, pixVars, tryVars, sender, charge, sees>>

(* A variant: what was read before the lock is trusted.                     *)
MayTryAsRead == made < MaxTries

(* A variant: the tries are not counted again.                              *)
MayTryUncounted == NoneBusy

(* What is checked again under the lock of the order.                       *)
MayTry == NoneBusy /\ made < MaxTries

Reserve(r, amount) ==
  /\ r \in asked
  /\ MayTry
  /\ asked' = asked \ {r}
  /\ made' = made + 1
  /\ try' = [try EXCEPT ![made + 1] = "SUBMITTING"]
  /\ price' = [price EXCEPT ![made + 1] = amount]
  /\ born' = [born EXCEPT ![made + 1] = age]
  /\ sender' = [sender EXCEPT ![made + 1] = "ready"]
  /\ total' = amount
  /\ UNCHANGED <<stops, method, age, order, sale, settled, pixVars, charge, sees>>

Refuse(r) ==
  /\ r \in asked
  /\ asked' = asked \ {r}
  /\ UNCHANGED <<stops, method, age, orderVars, pixVars, tryVars, sender, charge, sees>>

Uncertain(n) ==
  try' = [try EXCEPT ![n] = IF @ = "SUBMITTING" THEN "UNCERTAIN" ELSE @]

(* The charge is sent once: answered, lost on either way, or still to be    *)
(* handled when the call gives up.                                          *)
Send(n) ==
  /\ sender[n] = "ready"
  /\ sender' = [sender EXCEPT ![n] = "done"]
  /\ \/ \E now \in Told :
          /\ charge' = [charge EXCEPT ![n] = now]
          /\ \/ sees' = sees \cup {[of |-> n, saw |-> now]} /\ UNCHANGED try
             \/ Uncertain(n) /\ UNCHANGED sees
     \/ charge' = [charge EXCEPT ![n] = "coming"] /\ Uncertain(n) /\ UNCHANGED sees
     \/ Uncertain(n) /\ UNCHANGED <<charge, sees>>
  /\ UNCHANGED <<stops, method, age, orderVars, pixVars, made, price, born, asked>>

EfiCharges(n) ==
  /\ \/ charge[n] = "coming" /\ \E now \in Told : charge' = [charge EXCEPT ![n] = now]
     \/ charge[n] = "approved" /\ \E now \in Final : charge' = [charge EXCEPT ![n] = now]
  /\ UNCHANGED <<stops, method, age, orderVars, pixVars, tryVars, sender, sees, asked>>

(* A notice, or the worker on a try without a final answer, reads a charge. *)
Look(n) ==
  /\ charge[n] \in Told /\ Cardinality({o \in sees : o.of = n}) < MaxReads
  /\ sees' = sees \cup {[of |-> n, saw |-> charge[n]]}
  /\ UNCHANGED <<stops, method, age, orderVars, pixVars, tryVars, sender, charge, asked>>

(* A variant: the first look without a charge cancels.                      *)
NotFoundAtOnce(n) ==
  /\ try[n] \in {"SUBMITTING", "UNCERTAIN"} /\ charge[n] \notin Told
  /\ try' = [try EXCEPT ![n] = "CANCELED"]
  /\ UNCHANGED <<stops, method, age, orderVars, pixVars, made, price, born, sender, charge, sees, asked>>

NotFound(n) ==
  /\ try[n] \in {"SUBMITTING", "UNCERTAIN"} /\ charge[n] \notin Told
  /\ age >= born[n] + 2
  /\ try' = [try EXCEPT ![n] = "CANCELED"]
  /\ UNCHANGED <<stops, method, age, orderVars, pixVars, made, price, born, sender, charge, sees, asked>>

Becomes(n, from, status) == try' = [try EXCEPT ![n] = IF @ \in from THEN status ELSE @]

PaidByAnother(n) == order # "PENDING" /\ \E m \in Try \ {n} : try[m] = "PAID"

(* A variant: an approval counts as a payment.                              *)
ObserveApproved(o) ==
  /\ o \in sees /\ o.saw # "cleared"
  /\ sees' = (sees \ {o}) \cup
       (IF o.saw \in {"approved", "paid"} THEN {[of |-> o.of, saw |-> "cleared"]} ELSE {})
  /\ CASE o.saw \in {"approved", "paid"} -> UNCHANGED try
       [] o.saw = "unpaid" -> Becomes(o.of, Busy, "DECLINED")
       [] o.saw = "canceled" -> Becomes(o.of, Busy, "CANCELED")
  /\ UNCHANGED <<stops, method, age, orderVars, pixVars, made, price, born, sender, charge, asked>>

(* What observe does with a status: a late answer never undoes an approval  *)
(* or a payment. A payment is applied only after a look at the other tries. *)
Observe(o) ==
  /\ o \in sees /\ o.saw # "cleared"
  /\ sees' = (sees \ {o}) \cup
       (IF o.saw = "paid" /\ ~PaidByAnother(o.of) THEN {[of |-> o.of, saw |-> "cleared"]} ELSE {})
  /\ CASE o.saw = "paid" -> UNCHANGED try
       [] o.saw = "approved" -> Becomes(o.of, {"SUBMITTING", "UNCERTAIN"}, "APPROVED")
       [] o.saw = "unpaid" -> Becomes(o.of, Busy, "DECLINED")
       [] o.saw = "canceled" -> Becomes(o.of, Busy, "CANCELED")
  /\ UNCHANGED <<stops, method, age, orderVars, pixVars, made, price, born, sender, charge, asked>>

ConfirmCard(n) ==
  /\ [of |-> n, saw |-> "cleared"] \in sees
  /\ sees' = sees \ {[of |-> n, saw |-> "cleared"]}
  /\ IF try[n] # "PAID"
     THEN try' = [try EXCEPT ![n] = "PAID"] /\ Settle(price[n])
     ELSE UNCHANGED <<try, orderVars>>
  /\ UNCHANGED <<stops, method, age, pixVars, made, price, born, sender, charge, asked>>

CloseOverdue ==
  /\ method = "CARD" /\ order = "PENDING" /\ age = 3 /\ NoneBusy
  /\ order' = IF \E n \in Try : try[n] = "DECLINED" THEN "DECLINED" ELSE "EXPIRED"
  /\ UNCHANGED <<stops, method, age, total, sale, settled, pixVars, cardVars>>

(***************************************************************************)
(* A process stops: the Pix or the try it was sending stays as it is, and  *)
(* what it had read is lost.                                               *)
(***************************************************************************)
Stop ==
  /\ stops < MaxStops
  /\ stops' = stops + 1
  /\ \/ /\ caller # "done" /\ caller' = "done"
        /\ UNCHANGED <<pix, efiPix, found, cardVars>>
     \/ /\ \E n \in Try : sender[n] = "ready" /\ sender' = [sender EXCEPT ![n] = "done"]
        /\ UNCHANGED <<pixVars, tryVars, charge, sees, asked>>
     \/ /\ \E f \in found : found' = found \ {f}
        /\ UNCHANGED <<pix, caller, efiPix, cardVars>>
     \/ /\ \E o \in sees : sees' = sees \ {o}
        /\ UNCHANGED <<pixVars, tryVars, sender, charge, asked>>
  /\ UNCHANGED <<method, age, orderVars>>

(* No request lasts a stage, and Efi handles within ten minutes what it     *)
(* received.                                                                *)
Tick ==
  /\ age < 3
  /\ caller # "calling" /\ efiPix # "coming" /\ asked = {}
  /\ \A n \in Try : sender[n] = "ready" \/ charge[n] = "coming" => born[n] = age
  /\ age' = age + 1
  /\ UNCHANGED <<stops, method, orderVars, pixVars, cardVars>>

Next ==
  \/ CallPix \/ RecordPix \/ EfiCreatesPix \/ BuyerPays \/ PixNotice
  \/ \E by \in {"uncertain", "overdue"} : ReadPix(by)
  \/ \E f \in found : ApplyPix(f)
  \/ \E r \in Request : Ask(r) \/ Refuse(r) \/ \E amount \in Total : Reserve(r, amount)
  \/ \E n \in Try : Send(n) \/ EfiCharges(n) \/ Look(n) \/ NotFound(n) \/ ConfirmCard(n)
  \/ \E o \in sees : Observe(o)
  \/ CloseOverdue \/ Stop \/ Tick

Spec == Init /\ [][Next]_vars

(***************************************************************************)
(* Time passes, the worker comes back every half minute, and Efi handles   *)
(* what it received. A process that has read Efi applies what it read, or  *)
(* stops.                                                                  *)
(***************************************************************************)
WorkerLook(n) == try[n] \in Busy /\ Look(n)

Fairness ==
  /\ WF_vars(Tick) /\ WF_vars(EfiCreatesPix) /\ WF_vars(CallPix)
  /\ \A by \in {"uncertain", "overdue"} : WF_vars(ReadPix(by))
  /\ WF_vars(\E f \in found : ApplyPix(f))
  /\ \A r \in Request : WF_vars(Refuse(r))
  /\ \A n \in Try :
       /\ WF_vars(Send(n)) /\ WF_vars(EfiCharges(n)) /\ WF_vars(WorkerLook(n))
       /\ WF_vars(\E o \in sees : o.of = n /\ Observe(o)) /\ WF_vars(ConfirmCard(n))

FairSpec == Spec /\ Fairness

(***************************************************************************)
(* Properties.                                                             *)
(***************************************************************************)
TypeOK ==
  /\ method \in Method /\ age \in Age /\ order \in OrderStatus
  /\ total \in Total /\ sale \in Total \cup {None} /\ settled \in Nat
  /\ pix \in PixStatus /\ caller \in {"calling", "created", "rejected", "lost", "done"}
  /\ efiPix \in {"none", "coming", "active", "paid"}
  /\ found \subseteq [by : {"uncertain", "overdue"}, saw : {"none", "active", "paid"}, late : BOOLEAN]
  /\ made \in 0 .. MaxTries
  /\ try \in [Try -> TryStatus] /\ price \in [Try -> Total] /\ born \in [Try -> Age]
  /\ sender \in [Try -> {"ready", "done"}] /\ charge \in [Try -> Charge]
  /\ sees \subseteq [of : Try, saw : Told \cup {"cleared"}]
  /\ asked \subseteq Request /\ stops \in 0 .. MaxStops

\* What was really paid at Efi.
PaidAtEfi ==
  (IF efiPix = "paid" THEN {total} ELSE {})
    \cup {price[n] : n \in {m \in Try : charge[m] = "paid"}}

(* What is given up, an order that is closed, a try or a Pix that ended      *)
(* without payment, is nothing that Efi was paid for or still may be. A lost *)
(* answer, a charge that Efi handles late or a slow reading never closes an  *)
(* order in payment.                                                         *)
NothingPaidIsGivenUp ==
  /\ order \in {"EXPIRED", "FAILED", "DECLINED"} =>
       PaidAtEfi = {} /\ \A n \in Try : charge[n] \notin {"coming", "approved"}
  /\ \A n \in Try : try[n] \in {"DECLINED", "CANCELED"} =>
       charge[n] \notin {"coming", "approved", "paid"} /\ sender[n] # "ready"
  /\ pix \in {"FAILED", "EXPIRED"} => efiPix # "paid"

(* At most one try of an order is in progress, also across API instances    *)
(* and after lost answers.                                                  *)
OneTryAtATime == \A n, m \in Try : try[n] \in Busy /\ try[m] \in Busy => n = m

(* A payment that reached Efi is in the end the sale of its order, whatever *)
(* notices and answers were lost.                                           *)
PaymentIsApplied == PaidAtEfi # {} ~> order = "PAID"

(* To its seller and its ledger the order is a sale made once: the abstract *)
(* view of it, see CheckoutSale.                                            *)
Sale == INSTANCE CheckoutSale WITH
  state <- IF order = "PAID" THEN "SOLD" ELSE IF order = "PENDING" THEN "OPEN" ELSE "CLOSED",
  paid <- PaidAtEfi,
  sold <- sale,
  notices <- settled
SoldOnceForWhatWasPaid == Sale!Spec
=============================================================================
