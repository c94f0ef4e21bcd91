----------------------------- MODULE CardCharge -----------------------------
(***************************************************************************)
(* An invoice charged to a card: the local charge, the tries the payer     *)
(* confirms, what Efi holds of each, and the requests and the worker that  *)
(* submit, read back, book and cancel. A try is submitted once; one whose  *)
(* answer is lost is looked up and never submitted again.                  *)
(*                                                                         *)
(* A transaction locks the invoice and is one step. What was read at Efi   *)
(* and is not applied yet is in sees, what was applied and is not booked   *)
(* yet in booking; both may be lost with their process. Quotes, amounts    *)
(* and instalments are left out: a try has those of its quote, and a       *)
(* reading that differs from them is an odd one.                           *)
(***************************************************************************)
EXTENDS CardTries, Integers, FiniteSets

Try == 1 .. MaxTries
TryStatus == {"NONE", "SUBMITTING", "UNCERTAIN", "APPROVED", "PAID", "DECLINED", "CANCELED"}
Busy == {"SUBMITTING", "UNCERTAIN", "APPROVED", "PAID"}
\* What Efi says of a charge; odd: contested, returned or settled by hand.
Told == {"waiting", "approved", "paid", "odd", "unpaid", "canceled"}
Efi == {"none", "coming"} \cup Told
Debit == {"coming", "waiting", "approved", "paid", "odd"}

VARIABLES
  invoice,  \* Invoice.status
  billing,  \* Invoice.billingType
  charge,   \* PaymentCharge.status of the card charge
  made,     \* tries made
  try,      \* CardPaymentAttempt.status
  named,    \* CardPaymentAttempt.efiChargeId is set
  old,      \* tries made over two minutes ago
  sender,   \* the request that submits a try
  efi,      \* the charge of a try at Efi
  sees,     \* what was read of charges and not applied
  booking,  \* tries found paid whose settlement is not recorded yet
  cancel,   \* a cancellation that has read the invoice: the billing it read
  stops     \* losses so far

tryVars == <<made, try, named, old>>
vars == <<invoice, billing, charge, tryVars, sender, efi, sees, booking, cancel, stops>>

Init ==
  /\ invoice \in {"DRAFT", "PENDING"} /\ billing = "PIX" /\ charge = "NONE"
  /\ made = 0
  /\ try = [n \in Try |-> "NONE"]
  /\ named = {} /\ old = {}
  /\ sender = [n \in Try |-> "done"]
  /\ efi = [n \in Try |-> "none"]
  /\ sees = {} /\ booking = {} /\ cancel = "none" /\ stops = 0

NoneBusy == \A n \in Try : try[n] \notin Busy
Open == charge = "ACTIVE" /\ invoice \notin {"PAID", "CANCELED"}

(* prepareCharge: no other charge of the invoice is open.                   *)
Prepare ==
  /\ charge = "NONE" /\ invoice \in {"DRAFT", "PENDING"}
  /\ invoice' = "PENDING" /\ billing' = "CREDIT_CARD" /\ charge' = "ACTIVE"
  /\ UNCHANGED <<tryVars, sender, efi, sees, booking, cancel, stops>>

(***************************************************************************)
(* A confirmation: the try is reserved, what the last refusal left at Efi  *)
(* is canceled, and the try is submitted.                                  *)
(***************************************************************************)
Refused == {n \in named : try[n] = "DECLINED"}
Last(tries) == CHOOSE n \in tries : \A m \in tries : m <= n

Reserve ==
  /\ Open /\ NoneBusy /\ made < MaxTries
  /\ made' = made + 1
  /\ try' = [try EXCEPT ![made + 1] = "SUBMITTING"]
  /\ sender' = [sender EXCEPT ![made + 1] = IF Refused = {} THEN "send" ELSE "cancel"]
  /\ UNCHANGED <<invoice, billing, charge, named, old, efi, sees, booking, cancel, stops>>

CancelRefused(n) ==
  LET p == Last(Refused \ {n}) IN
  /\ sender[n] = "cancel"
  /\ \/ /\ efi' = [efi EXCEPT ![p] = "canceled"]
        /\ try' = [try EXCEPT ![p] = "CANCELED"]
        /\ sender' = [sender EXCEPT ![n] = "send"]
     \/ /\ efi' \in {efi, [efi EXCEPT ![p] = "canceled"]}
        /\ sender' = [sender EXCEPT ![n] = "failed"]
        /\ UNCHANGED try
  /\ UNCHANGED <<invoice, billing, charge, made, named, old, sees, booking, cancel, stops>>

Submit(n) ==
  /\ sender[n] = "send"
  /\ \/ \E told \in {"waiting", "approved", "unpaid"} :
          /\ efi' = [efi EXCEPT ![n] = told]
          /\ \/ /\ sees' = sees \cup {<<n, told>>}
                /\ sender' = [sender EXCEPT ![n] = "done"]
             \/ /\ sender' = [sender EXCEPT ![n] = "failed"]
                /\ UNCHANGED sees
     \/ /\ efi' \in {efi, [efi EXCEPT ![n] = "coming"]}
        /\ sender' = [sender EXCEPT ![n] = "failed"]
        /\ UNCHANGED sees
  /\ UNCHANGED <<invoice, billing, charge, tryVars, booking, cancel, stops>>

(* A variant: a failure frees the charge for another try.                   *)
FailedIsRefused(n) ==
  /\ sender[n] = "failed"
  /\ sender' = [sender EXCEPT ![n] = "done"]
  /\ try' = [try EXCEPT ![n] = IF @ = "SUBMITTING" THEN "CANCELED" ELSE @]
  /\ UNCHANGED <<invoice, billing, charge, made, named, old, efi, sees, booking, cancel, stops>>

(* The catch: whatever failed, the reservation stands.                      *)
Uncertain(n) ==
  /\ sender[n] = "failed"
  /\ sender' = [sender EXCEPT ![n] = "done"]
  /\ try' = [try EXCEPT ![n] = IF @ = "SUBMITTING" THEN "UNCERTAIN" ELSE @]
  /\ UNCHANGED <<invoice, billing, charge, made, named, old, efi, sees, booking, cancel, stops>>

(***************************************************************************)
(* Efi and time.                                                           *)
(***************************************************************************)
EfiGoesOn(n) ==
  /\ \/ efi[n] = "coming" /\ \E to \in {"waiting", "approved", "unpaid"} : efi' = [efi EXCEPT ![n] = to]
     \/ efi[n] = "waiting" /\ \E to \in {"approved", "unpaid"} : efi' = [efi EXCEPT ![n] = to]
     \/ efi[n] = "approved" /\ \E to \in {"paid", "canceled"} : efi' = [efi EXCEPT ![n] = to]
     \/ efi[n] = "paid" /\ efi' = [efi EXCEPT ![n] = "odd"]
  /\ UNCHANGED <<invoice, billing, charge, tryVars, sender, sees, booking, cancel, stops>>

TwoMinutesPass(n) ==
  /\ try[n] = "SUBMITTING" /\ n \notin old
  /\ old' = old \cup {n}
  /\ UNCHANGED <<invoice, billing, charge, made, try, named, sender, efi, sees, booking, cancel, stops>>

(***************************************************************************)
(* Readings: the worker's, by the list of charges while the try has no     *)
(* identifier, and those a notice of Efi asks for.                         *)
(***************************************************************************)
\* A variant: what was found paid is left alone.
WorkedUnlessPaid(n) ==
  \/ try[n] \in {"UNCERTAIN", "APPROVED"}
  \/ try[n] = "SUBMITTING" /\ n \in old

Worked(n) ==
  \/ try[n] \in {"UNCERTAIN", "APPROVED"}
  \/ try[n] = "SUBMITTING" /\ n \in old
  \/ try[n] = "PAID" /\ invoice # "PAID"

Read(n) ==
  /\ efi[n] \in Told
  /\ \/ <<n, efi[n]>> \in sees
     \/ Cardinality({s \in sees : s[1] = n}) < MaxReads
  /\ sees' = sees \cup {<<n, efi[n]>>}
  /\ UNCHANGED <<invoice, billing, charge, tryVars, sender, efi, booking, cancel, stops>>

Work(n) == Worked(n) /\ Read(n)
Notice(n) == Read(n)

(***************************************************************************)
(* observe: the status is applied if it takes nothing back, to the latest  *)
(* try only.                                                               *)
(***************************************************************************)
Mapped(told) ==
  CASE told \in {"waiting", "approved"} -> "APPROVED"
    [] told = "paid" -> "PAID"
    [] told = "unpaid" -> "DECLINED"
    [] told = "canceled" -> "CANCELED"

Anomalous(n, told) ==
  \/ told = "odd"
  \/ n # made /\ Mapped(told) \in {"PAID", "APPROVED"}

TakesBack(n, told) ==
  \/ try[n] = "PAID" /\ Mapped(told) # "PAID"
  \/ try[n] = "APPROVED" /\ Mapped(told) = "DECLINED"

Observe(n, told) ==
  /\ <<n, told>> \in sees
  /\ sees' = sees \ {<<n, told>>}
  /\ IF Anomalous(n, told)
     THEN /\ try' = [try EXCEPT ![n] = IF @ = "SUBMITTING" THEN "UNCERTAIN" ELSE @]
          /\ named' = IF try[n] = "SUBMITTING" THEN named \cup {n} ELSE named
          /\ UNCHANGED booking
     ELSE IF TakesBack(n, told) \/ n # made
     THEN UNCHANGED <<try, named, booking>>
     ELSE /\ try' = [try EXCEPT ![n] = Mapped(told)]
          /\ named' = named \cup {n}
          /\ booking' = IF told = "paid" THEN booking \cup {n} ELSE booking
  /\ UNCHANGED <<invoice, billing, charge, made, old, sender, efi, cancel, stops>>

(* recordSettlement, a transaction of its own.                              *)
Book(n) ==
  /\ n \in booking
  /\ booking' = booking \ {n}
  /\ charge' = "PAID" /\ invoice' = "PAID"
  /\ UNCHANGED <<billing, tryVars, sender, efi, sees, cancel, stops>>

(* A process stops, or its request fails.                                   *)
Stop ==
  /\ stops < MaxStops
  /\ stops' = stops + 1
  /\ \/ \E s \in sees : sees' = sees \ {s} /\ UNCHANGED <<booking, sender>>
     \/ \E n \in booking : booking' = booking \ {n} /\ UNCHANGED <<sees, sender>>
     \/ /\ \E n \in Try : sender[n] # "done" /\ sender' = [sender EXCEPT ![n] = "done"]
        /\ UNCHANGED <<sees, booking>>
  /\ UNCHANGED <<invoice, billing, charge, tryVars, efi, cancel>>

(***************************************************************************)
(* The company cancels the invoice: it reads it, checks that no try is     *)
(* open, and cancels in a transaction. Only an invoice read as one of card *)
(* has its tries looked at again there.                                    *)
(***************************************************************************)
AskCancel ==
  /\ cancel = "none" /\ invoice = "PENDING" /\ NoneBusy
  /\ cancel' = billing
  /\ UNCHANGED <<invoice, billing, charge, tryVars, sender, efi, sees, booking, stops>>

Cancel ==
  /\ cancel # "none"
  /\ cancel' = "none"
  /\ IF invoice = "PENDING" /\ (cancel = "CREDIT_CARD" => NoneBusy)
     THEN /\ invoice' = "CANCELED"
          /\ charge' = IF cancel = "CREDIT_CARD" /\ charge = "ACTIVE" THEN "CANCELED" ELSE charge
     ELSE UNCHANGED <<invoice, charge>>
  /\ UNCHANGED <<billing, tryVars, sender, efi, sees, booking, stops>>

-----------------------------------------------------------------------------
Next ==
  \/ Prepare \/ Reserve \/ Stop \/ AskCancel \/ Cancel
  \/ \E n \in Try :
       \/ CancelRefused(n) \/ Submit(n) \/ Uncertain(n)
       \/ EfiGoesOn(n) \/ TwoMinutesPass(n)
       \/ Work(n) \/ Notice(n) \/ Book(n)
       \/ \E told \in Told : Observe(n, told)

\* A request goes on until it ends or stops; the worker runs every minute.
Fairness ==
  \A n \in Try :
    /\ WF_vars(CancelRefused(n) \/ Submit(n) \/ Uncertain(n))
    /\ WF_vars(TwoMinutesPass(n)) /\ WF_vars(Work(n)) /\ WF_vars(Book(n))
    /\ WF_vars(\E told \in Told : Observe(n, told))

Spec == Init /\ [][Next]_vars /\ Fairness

-----------------------------------------------------------------------------
TypeOK ==
  /\ invoice \in {"DRAFT", "PENDING", "PAID", "CANCELED"}
  /\ billing \in {"PIX", "CREDIT_CARD"}
  /\ charge \in {"NONE", "ACTIVE", "PAID", "CANCELED"}
  /\ made \in 0 .. MaxTries
  /\ try \in [Try -> TryStatus]
  /\ named \subseteq Try /\ old \subseteq Try
  /\ sender \in [Try -> {"cancel", "send", "failed", "done"}]
  /\ efi \in [Try -> Efi]
  /\ sees \subseteq Try \X Told
  /\ booking \subseteq Try
  /\ cancel \in {"none", "PIX", "CREDIT_CARD"}
  /\ stops \in 0 .. MaxStops

(* Of the tries of a charge one at most may debit the payer, at Efi or in  *)
(* the books.                                                              *)
OneDebit ==
  \A m, n \in Try :
    m # n => ~((try[m] \in Busy \/ efi[m] \in Debit) /\ (try[n] \in Busy \/ efi[n] \in Debit))

(* What is booked as paid was paid at Efi, and a charge that was canceled  *)
(* has no try that may still debit the payer.                              *)
CardBooksAreTrue ==
  /\ charge = "PAID" <=> invoice = "PAID"
  /\ invoice = "PAID" => \E n \in Try : try[n] = "PAID"
  /\ \A n \in Try : try[n] = "PAID" => efi[n] \in {"paid", "odd"}
  /\ charge = "CANCELED" => \A n \in Try : efi[n] \notin Debit

(* A card is debited by one try at most, and the books say what Efi did.    *)
CardIsDebitedOnce == OneDebit /\ CardBooksAreTrue

(* A card that stays paid at Efi is booked in the end.                      *)
CardIsBooked ==
  \A n \in Try : []<>(efi[n] = "paid" => try[n] = "PAID" /\ invoice = "PAID")

(* "Recusa comprovada permite nova ação do pagador com nova                *)
(* tokenização/cotação": a try that Efi refused does not stay open.        *)
RefusalFreesThePayer ==
  \A n \in Try : <>[](efi[n] = "unpaid") => <>[](try[n] \notin Busy)

=============================================================================
