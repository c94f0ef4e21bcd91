-------------------------- MODULE SettlementLedger --------------------------
(***************************************************************************)
(* The money of one charge after it was issued: receipts and returns as    *)
(* Efi tells of them, the append-only ledger, the settlement with the      *)
(* evidence of the platform fee, and the divergences an administrator      *)
(* decides.  Every transaction holds the rows of the invoice, the charge   *)
(* or the settlement it works on, so each is one step; what a notice or a  *)
(* reconciliation read from Efi before it is applied later, or never, or   *)
(* again, in any order.                                                    *)
(*                                                                         *)
(* The Efi fee is left out: its entries follow the rule of the other kinds *)
(* and nothing depends on them.                                            *)
(***************************************************************************)
EXTENDS Integers, SequencesExt

CONSTANTS
  Method,          \* "PIX" or "BOLIX": how the charge may have been issued
  Payment,         \* the Pix that can reach the charge (endToEndId)
  Gross,           \* grossAmountCents
  Amount,          \* what a payer may pay, in cents
  Extra,           \* fine and interest expected of a late payment
  PlatformFee(_),  \* the fee of the charge's version on an amount
  MaxReturns,      \* bound: returns made in all
  Choice,          \* bound: the decisions the administrator takes
  None

ASSUME AmountAssumption ==
  /\ Gross \in Amount
  /\ Amount \subseteq Nat \ {0}
  /\ Extra \in Nat
  /\ MaxReturns \in Nat
  /\ IsFiniteSet(Payment)
  /\ \A a \in Amount : PlatformFee(a) \in Nat
  /\ None \notin Payment \cup Amount
ASSUME NamesAssumption ==
  LET references == {"bill", "return", "refunded"}
  IN  /\ Payment \cap references = {}
      /\ Payment \cap [at : {"paid", "settled", "refunded"}, value : Amount \cup {None}] = {}
      /\ None \notin references \cup {"onTime", "late"}

VARIABLES
  method,       \* PaymentCharge.billingMethod
  pix,          \* at Efi: the amount of each Pix received (0: not paid)
  returned,     \* at Efi: what was returned of it in all, after each return
  bill,         \* at Efi: the state of the boleto and the value paid
  read,         \* what requests have read from Efi and not applied yet
  charge,       \* PaymentCharge: status, paidAmountCents, fee, paidAt
  known,        \* DEVOLVIDO rows of the history: the cents they return
  ledger,       \* the sum of FinancialLedgerEntry.amountCents by kind
  firstRef,     \* evidenceReference of the entry PAYMENT:<charge>:0
  duplicate,    \* the DUPLICATE_PAYMENT entry of each Pix (0: none)
  settlement,   \* PaymentSettlement
  divergences,  \* SettlementDivergence
  complement,   \* amount of the complementary invoice
  option,       \* Company.refundPlatformFeeOnRefund
  applied       \* Pix whose receipt was ever recorded (history)

efiVars == <<method, pix, returned, bill>>
bookVars == <<known, ledger, firstRef, duplicate, complement, applied>>
vars == <<efiVars, read, charge, bookVars, settlement, divergences, option>>

Kind == {"PAYMENT", "PLATFORM_FEE", "REFUND", "PLATFORM_FEE_REVERSAL"}

(* What is decided for each code, and how. *)
Decision ==
  [PAYMENT_BELOW_CHARGE |-> {"ACCEPT_AS_SETTLEMENT", "ISSUE_COMPLEMENTARY"},
   PAYMENT_ABOVE_EXPECTED |-> {"ACCEPT_AS_SETTLEMENT", "REFUND_REGISTERED"},
   DUPLICATE_PAYMENT |-> {"REFUND_REGISTERED", "KEEP_AS_CREDIT"},
   PLATFORM_FEE_EVIDENCE_MISMATCH |-> {"ACCEPT_DIFFERENCE", "ADJUSTMENT_SETTLED"},
   PLATFORM_FEE_CHANGED_AFTER_EVIDENCE |-> {"ACCEPT_DIFFERENCE", "ADJUSTMENT_SETTLED"},
   PLATFORM_FEE_REVERSAL_DUE |-> {"REVERSAL_PAID", "REVERSAL_WAIVED"}]

(***************************************************************************)
(* Arithmetic.                                                             *)
(***************************************************************************)
(* Rounded half up, never above the fee. *)
ProportionalReversal(fee, refunded, paid) ==
  IF fee <= 0 \/ refunded <= 0 \/ paid <= 0 THEN 0
  ELSE IF refunded >= paid THEN fee
  ELSE LET rounded == (2 * fee * refunded + paid) \div (2 * paid)
       IN  IF rounded < fee THEN rounded ELSE fee

MaxExpected(paidAt) == IF paidAt = "late" THEN Gross + Extra ELSE Gross

(* The paid amount, the charged one while the payer's is not known. *)
PaidOf(c) == IF c.paid = None THEN Gross ELSE c.paid

FeeOf(c) == IF c.fee = None THEN PlatformFee(Gross) ELSE c.fee

(* The cents of the first n returns of e. *)
Back(e, n) == IF n = 0 THEN {} ELSE {e} \X (1 .. returned[e][n])

(* The sum of the rows k, of whichever Pix of the charge. A refunded boleto *)
(* has none: it was returned in full.                                       *)
RefundedOf(c, k) ==
  IF c.status = "REFUNDED" /\ k = {} THEN PaidOf(c) ELSE Cardinality(k)

(***************************************************************************)
(* The settlement.                                                         *)
(***************************************************************************)
NoSettlement == [evidence |-> "ABSENT", due |-> 0, backed |-> 0, status |-> "ABSENT"]

(* A variant: an occurrence that was decided is opened again. *)
OpenedAgain(ds, code, ref, amount) ==
  {d \in ds : ~(d.code = code /\ d.ref = ref)} \cup
  {[code |-> code, ref |-> ref, amount |-> amount, decision |-> None]}

(* A variant: an occurrence that is decided does not count. *)
OpenedTwice(ds, code, ref, amount) ==
  IF \E d \in ds : d.code = code /\ d.ref = ref /\ d.decision = None THEN ds
  ELSE ds \cup {[code |-> code, ref |-> ref, amount |-> amount, decision |-> None]}

(* One divergence for each occurrence of a code, told apart by its reference. *)
Opened(ds, code, ref, amount) ==
  IF \E d \in ds : d.code = code /\ d.ref = ref THEN ds
  ELSE ds \cup {[code |-> code, ref |-> ref, amount |-> amount, decision |-> None]}

OpenedIf(condition, ds, code, ref, amount) ==
  IF condition THEN Opened(ds, code, ref, amount) ELSE ds

(* A variant: the status is that before the new divergences. *)
RefreshedBefore(evidence, ds) ==
  IF \E d \in divergences : d.decision = None THEN "DIVERGENT"
  ELSE IF evidence = "PENDING" THEN "AWAITING_EVIDENCE" ELSE "RECONCILED"

Refreshed(evidence, ds) ==
  IF \E d \in ds : d.decision = None THEN "DIVERGENT"
  ELSE IF evidence = "PENDING" THEN "AWAITING_EVIDENCE" ELSE "RECONCILED"

Targets(c, k) ==
  LET refunds == RefundedOf(c, k)
  IN  [PAYMENT |-> PaidOf(c),
       PLATFORM_FEE |-> -FeeOf(c),
       REFUND |-> -refunds,
       PLATFORM_FEE_REVERSAL |->
         IF option THEN ProportionalReversal(FeeOf(c), refunds, PaidOf(c)) ELSE 0]

(* A variant: what is due is entered again, not the difference. *)
EntryInFull(total, target) == IF target = total THEN 0 ELSE target

(* An entry is never changed: a new one makes up the difference. *)
Entry(total, target) == target - total

Required(fee) == IF fee > 0 THEN "PENDING" ELSE "NOT_REQUIRED"

(* The charge becomes c, with the returns k known: the ledger, the          *)
(* settlement and the divergences follow.                                   *)
Sync(c, k, ref) ==
  LET target == Targets(c, k)
      fee == FeeOf(c)
      before == IF settlement = NoSettlement
                THEN [NoSettlement EXCEPT !.evidence = Required(fee), !.due = fee]
                ELSE settlement
      evidenced == before.evidence \in {"CONFIRMED", "MISMATCH"}
      changed == fee # before.due
      evidence == IF changed /\ ~evidenced THEN Required(fee) ELSE before.evidence
      reversal == target.PLATFORM_FEE_REVERSAL
      d1 == OpenedIf(c.paid # None /\ PaidOf(c) < Gross, divergences,
              "PAYMENT_BELOW_CHARGE", None, Gross - PaidOf(c))
      d2 == OpenedIf(c.paid # None /\ c.paidAt # None /\ PaidOf(c) > MaxExpected(c.paidAt), d1,
              "PAYMENT_ABOVE_EXPECTED", None, PaidOf(c) - MaxExpected(c.paidAt))
      d3 == OpenedIf(reversal > 0, d2, "PLATFORM_FEE_REVERSAL_DUE", reversal, reversal)
      d4 == OpenedIf(changed /\ evidenced, d3,
              "PLATFORM_FEE_CHANGED_AFTER_EVIDENCE", fee, fee - before.due)
  IN  /\ charge' = c
      /\ known' = k
      /\ ledger' = [kind \in Kind |-> ledger[kind] + Entry(ledger[kind], target[kind])]
      /\ firstRef' = IF settlement = NoSettlement THEN ref ELSE firstRef
      /\ divergences' = d4
      /\ settlement' = [before EXCEPT !.due = fee, !.evidence = evidence,
                                      !.status = Refreshed(evidence, d4)]

(* Another Pix for a charge already paid: to be returned, not its payment. *)
RecordDuplicate(e, amount) ==
  /\ duplicate' = [duplicate EXCEPT ![e] = IF @ = 0 THEN amount ELSE @]
  /\ divergences' = Opened(divergences, "DUPLICATE_PAYMENT", e, amount)
  /\ settlement' = [settlement EXCEPT
       !.status = Refreshed(settlement.evidence, divergences')]
  /\ UNCHANGED <<charge, known, ledger, firstRef>>

(***************************************************************************)
(* What the charge records.                                                *)
(***************************************************************************)
Settled == charge.status \in {"PAID", "REFUNDED"}

(* A variant: whichever Pix it is, it pays the charge. *)
NeverAnother(ref) == FALSE

(* The evidence names another payment than the one the ledger began with. *)
IsAnotherPayment(ref) == firstRef # None /\ firstRef # ref

(* A value the fee would use up is refused: there is no quote for it. *)
Pay(amount, ref) ==
  LET paid == IF amount = None THEN charge.paid ELSE amount
  IN  /\ paid # None => paid > PlatformFee(paid)
      /\ \E at \in IF charge.paidAt = None THEN {"onTime", "late"} ELSE {charge.paidAt} :
           Sync([status |-> "PAID", paid |-> paid, paidAt |-> at,
                 fee |-> IF paid = None THEN FeeOf(charge) ELSE PlatformFee(paid)],
                known, ref)
      /\ UNCHANGED duplicate

(* recordSettlement for one Pix. *)
RecordReceipt(e) ==
  /\ IF Settled /\ IsAnotherPayment(e)
     THEN RecordDuplicate(e, pix[e])
     ELSE charge.status # "REFUNDED" /\ Pay(pix[e], e)
  /\ applied' = applied \cup {e}
  /\ UNCHANGED complement

(* recordSettlement for a boleto: no answer tells one payment from another. *)
RecordBill(value) ==
  /\ charge.status # "REFUNDED"
  /\ Pay(value, "bill")
  /\ UNCHANGED <<complement, applied>>

(* recordPixRefunds: in all, never more than what was paid. *)
RecordRefunds(k) ==
  LET refundable == PaidOf(charge)
  IN  /\ charge.status # "REFUNDED"
      /\ Cardinality(k) <= refundable
      /\ Sync([charge EXCEPT !.status =
                 IF Cardinality(k) = refundable THEN "REFUNDED" ELSE "PAID"], k, "return")
      /\ UNCHANGED <<duplicate, complement, applied>>

(* Returns are told apart by their identifiers: the first n of e are known. *)
KnownWith(e, n) == known \cup Back(e, n)

RefundBill ==
  /\ Sync([charge EXCEPT !.status = "REFUNDED"], known, "refunded")
  /\ UNCHANGED <<duplicate, complement, applied>>

(***************************************************************************)
(* Notices and reconciliation.                                             *)
(***************************************************************************)
(* A notice of a receipt without returns, or a reconciliation that saw none; *)
(* neither goes on when the charge is refunded by then.                      *)
ReadReceipt(e) ==
  /\ method = "PIX"
  /\ pix[e] > 0
  /\ charge.status # "REFUNDED"
  /\ read' = read \cup {e}
  /\ UNCHANGED <<efiVars, charge, bookVars, settlement, divergences, option>>

ApplyReceipt(e) ==
  /\ e \in read
  /\ RecordReceipt(e)
  /\ read' = read \ {e}
  /\ UNCHANGED <<efiVars, option>>

(* A notice tells the returns of one Pix so far; it may come late. *)
NoticeReturns(e, n) ==
  /\ n \in 1 .. Len(returned[e])
  /\ RecordRefunds(KnownWith(e, n))
  /\ UNCHANGED <<efiVars, read, option>>

(* A reconciliation finds the returns of every Pix of the charge. *)
ReconcileReturns ==
  /\ \E e \in Payment : returned[e] # <<>>
  /\ RecordRefunds(known \cup UNION {Back(e, Len(returned[e])) : e \in Payment})
  /\ UNCHANGED <<efiVars, read, option>>

(* The last event of the boleto, with or without the value paid. *)
ReadBill ==
  /\ bill.at # "waiting"
  /\ \/ charge.status # "REFUNDED"
     \/ bill.at = "refunded"
  /\ \E value \in {bill.value, None} :
       read' = read \cup {[at |-> bill.at, value |-> value]}
  /\ UNCHANGED <<efiVars, charge, bookVars, settlement, divergences, option>>

ApplyBill(fact) ==
  /\ method = "BOLIX"
  /\ fact \in read
  /\ IF fact.at = "refunded" THEN RefundBill ELSE RecordBill(fact.value)
  /\ read' = read \ {fact}
  /\ UNCHANGED <<efiVars, option>>

(* The request stops before it applied what it read. *)
Drop(fact) ==
  /\ fact \in read
  /\ read' = read \ {fact}
  /\ UNCHANGED <<efiVars, charge, bookVars, settlement, divergences, option>>

(***************************************************************************)
(* The administrator.                                                      *)
(***************************************************************************)
(* The fee was seen in the statement, with the amount expected or another. *)
RecordEvidence(matched) ==
  /\ settlement.evidence = "PENDING"
  /\ divergences' = OpenedIf(~matched, divergences,
       "PLATFORM_FEE_EVIDENCE_MISMATCH", "evidence", None)
  /\ LET evidence == IF matched THEN "CONFIRMED" ELSE "MISMATCH"
     IN  settlement' = [settlement EXCEPT
           !.evidence = evidence, !.backed = settlement.due,
           !.status = Refreshed(evidence, divergences')]
  /\ UNCHANGED <<efiVars, read, charge, bookVars, option>>

Resolve(d, decision) ==
  /\ d \in divergences
  /\ d.decision = None
  /\ decision \in Decision[d.code] \cap Choice
  /\ decision = "ISSUE_COMPLEMENTARY" => complement = None
  /\ complement' = IF decision = "ISSUE_COMPLEMENTARY" THEN d.amount ELSE complement
  /\ divergences' = (divergences \ {d}) \cup {[d EXCEPT !.decision = decision]}
  /\ settlement' = [settlement EXCEPT
       !.status = Refreshed(settlement.evidence, divergences')]
  /\ UNCHANGED <<efiVars, read, charge, known, ledger, firstRef, duplicate, applied, option>>

UpdateOptions ==
  /\ option' = ~option
  /\ UNCHANGED <<efiVars, read, charge, bookVars, settlement, divergences>>

(***************************************************************************)
(* Efi: Pix are received and returned, in parts; a boleto is paid, settled *)
(* and perhaps refunded.                                                   *)
(***************************************************************************)
Receive(e, amount) ==
  /\ method = "PIX"
  /\ pix[e] = 0
  /\ pix' = [pix EXCEPT ![e] = amount]
  /\ UNCHANGED <<method, returned, bill>>

Return(e, amount) ==
  /\ method = "PIX"
  /\ LET all == (IF returned[e] = <<>> THEN 0 ELSE Last(returned[e])) + amount
     IN  /\ all <= pix[e]
         /\ returned' = [returned EXCEPT ![e] = Append(@, all)]
  /\ MapThenSumSet(LAMBDA x : Len(returned'[x]), Payment) <= MaxReturns
  /\ UNCHANGED <<method, pix, bill>>

MoveBill ==
  /\ method = "BOLIX"
  /\ \/ bill.at = "waiting" /\ \E v \in Amount : bill' = [at |-> "paid", value |-> v]
     \/ bill.at = "paid" /\ bill' = [bill EXCEPT !.at = "settled"]
     \/ bill.at \in {"paid", "settled"} /\ bill' = [bill EXCEPT !.at = "refunded"]
  /\ UNCHANGED <<method, pix, returned>>

Efi ==
  /\ \/ \E e \in Payment, a \in Amount : Receive(e, a) \/ Return(e, a)
     \/ MoveBill
  /\ UNCHANGED <<read, charge, bookVars, settlement, divergences, option>>

Init ==
  /\ method \in Method
  /\ pix = [e \in Payment |-> 0]
  /\ returned = [e \in Payment |-> <<>>]
  /\ bill = [at |-> "waiting", value |-> None]
  /\ read = {}
  /\ charge = [status |-> "OPEN", paid |-> None, fee |-> None, paidAt |-> None]
  /\ known = {}
  /\ ledger = [k \in Kind |-> 0]
  /\ firstRef = None
  /\ duplicate = [e \in Payment |-> 0]
  /\ settlement = NoSettlement
  /\ divergences = {}
  /\ complement = None
  /\ option \in BOOLEAN
  /\ applied = {}

Next ==
  \/ Efi
  \/ \E e \in Payment :
       \/ ReadReceipt(e) \/ ApplyReceipt(e)
       \/ \E n \in 1 .. MaxReturns : NoticeReturns(e, n)
  \/ ReconcileReturns
  \/ ReadBill
  \/ \E fact \in read : ApplyBill(fact) \/ Drop(fact)
  \/ \E matched \in BOOLEAN : RecordEvidence(matched)
  \/ \E d \in divergences : \E decision \in Decision[d.code] : Resolve(d, decision)
  \/ UpdateOptions

Spec == Init /\ [][Next]_vars

(***************************************************************************)
(* Properties.                                                             *)
(***************************************************************************)
Fact == Payment \cup [at : {"paid", "settled", "refunded"}, value : Amount \cup {None}]

(* Statuses are those of the schema, the returns known are returns that     *)
(* were made, and each occurrence of a divergence is listed once.           *)
TypeOK ==
  /\ method \in Method
  /\ pix \in [Payment -> Amount \cup {0}]
  /\ read \subseteq Fact
  /\ charge \in [status : {"OPEN", "PAID", "REFUNDED"}, paid : Amount \cup {None},
                 fee : Nat \cup {None}, paidAt : {"onTime", "late", None}]
  /\ known \subseteq UNION {Back(e, Len(returned[e])) : e \in Payment}
  /\ ledger \in [Kind -> Int]
  /\ settlement.evidence \in {"ABSENT", "NOT_REQUIRED", "PENDING", "CONFIRMED", "MISMATCH"}
  /\ settlement.status \in {"ABSENT", "AWAITING_EVIDENCE", "RECONCILED", "DIVERGENT"}
  /\ \A d \in divergences : d.decision \in Decision[d.code] \cup {None}
  /\ \A d, x \in divergences : d.code = x.code /\ d.ref = x.ref => d = x

(* Each Pix whose receipt was recorded is in the books once, with its own   *)
(* amount: as the payment of the charge, or as a duplicate when another Pix *)
(* is that payment, however often and in whatever order notices and         *)
(* reconciliations tell of them. Left out is a charge of which the books    *)
(* first heard by a return: isAnotherPayment compares every receipt with    *)
(* the return's reference, and books the one Pix as the payment and as a    *)
(* duplicate.                                                               *)
AccountedOnce ==
  firstRef # "return" =>
    \A e \in applied :
      \/ firstRef = e /\ ledger["PAYMENT"] = pix[e] /\ duplicate[e] = 0
      \/ firstRef \in Payment \ {e} /\ duplicate[e] = pix[e]

(* The ledger's entries add up to what the charge says: the payment, the    *)
(* fee due, and the returns known of any Pix of the charge, a duplicate     *)
(* included (recordPixRefunds and refundedCents do not tell them apart); a  *)
(* charge is refunded exactly when those returns reach what it says was     *)
(* paid; never is more fee returned than due.                               *)
BooksBalance ==
  settlement # NoSettlement =>
    /\ ledger["PAYMENT"] = PaidOf(charge)
    /\ -ledger["PLATFORM_FEE"] = settlement.due
    /\ settlement.due = FeeOf(charge)
    /\ -ledger["REFUND"] = RefundedOf(charge, known)
    /\ RefundedOf(charge, known) <= PaidOf(charge)
    /\ charge.status = "REFUNDED" <=> RefundedOf(charge, known) = PaidOf(charge)
    /\ ledger["PLATFORM_FEE_REVERSAL"] \in 0 .. settlement.due

Noted(code, ref) == \E d \in divergences : d.code = code /\ d.ref = ref

(* A settlement shown as reconciled hides nothing: its fee was seen or is   *)
(* none, and every shortfall, excess, duplicate and difference of the fee   *)
(* has been decided, also one that came after the fee was seen.             *)
ReconciledIsClear ==
  settlement.status = "RECONCILED" =>
    /\ settlement.evidence # "PENDING"
    /\ \A d \in divergences : d.decision # None
    /\ charge.paid # None /\ PaidOf(charge) < Gross => Noted("PAYMENT_BELOW_CHARGE", None)
    /\ charge.paid # None /\ PaidOf(charge) > MaxExpected(charge.paidAt)
         => Noted("PAYMENT_ABOVE_EXPECTED", None)
    /\ \A e \in Payment : duplicate[e] > 0 => Noted("DUPLICATE_PAYMENT", e)
    /\ settlement.evidence = "MISMATCH" => Noted("PLATFORM_FEE_EVIDENCE_MISMATCH", "evidence")
    /\ settlement.evidence \in {"CONFIRMED", "MISMATCH"} /\ settlement.due # settlement.backed
         => Noted("PLATFORM_FEE_CHANGED_AFTER_EVIDENCE", settlement.due)

(* The complementary invoice asks for exactly what the payer left unpaid,   *)
(* whatever was received or returned since the administrator asked for it.  *)
ComplementIsTheBalance ==
  complement # None => charge.paid # None /\ PaidOf(charge) + complement = Gross

(* A divergence that was decided is never opened or decided again.          *)
DecisionsStand ==
  [][\A d \in divergences : d.decision # None => d \in divergences']_vars

(* Reversals paid to the customer never exceed the fee CifraMais received.  *)
ReversalsWithinFee ==
  MapThenSumSet(LAMBDA d : d.amount,
    {d \in divergences : d.decision = "REVERSAL_PAID"}) <= settlement.due
=============================================================================
