----------------------- MODULE SettlementLedgerProofs -----------------------
(***************************************************************************)
(* Proofs about SettlementLedger, for any Pix, amounts, fee and bound on   *)
(* returns: every receipt is accounted once, the books balance, a          *)
(* reconciled settlement hides nothing, decisions stand and the            *)
(* complementary invoice asks for what is missing.                         *)
(***************************************************************************)
EXTENDS SettlementLedger, FiniteSetTheorems, TLAPS

Below == "PAYMENT_BELOW_CHARGE"
Above == "PAYMENT_ABOVE_EXPECTED"
Changed == "PLATFORM_FEE_CHANGED_AFTER_EVIDENCE"
Evidenced(s) == s.evidence \in {"CONFIRMED", "MISMATCH"}

BillFact == [at : {"paid", "settled", "refunded"}, value : Amount \cup {None}]

Charges == [status : {"OPEN", "PAID", "REFUNDED"}, paid : Amount \cup {None},
            fee : Nat \cup {None}, paidAt : {"onTime", "late", None}]

Settlements ==
  [evidence : {"ABSENT", "NOT_REQUIRED", "PENDING", "CONFIRMED", "MISMATCH"},
   due : Nat, backed : Nat,
   status : {"ABSENT", "AWAITING_EVIDENCE", "RECONCILED", "DIVERGENT"}]

Shaped(ds) ==
  \A d \in ds : /\ d = [code |-> d.code, ref |-> d.ref,
                        amount |-> d.amount, decision |-> d.decision]
                /\ d.code \in DOMAIN Decision
                /\ d.decision \in Decision[d.code] \cup {None}
                /\ \A x \in ds : d.code = x.code /\ d.ref = x.ref => d = x

Ranges ==
  /\ pix \in [Payment -> Amount \cup {0}]
  /\ duplicate \in [Payment -> Amount \cup {0}]
  /\ read \subseteq Payment \cup BillFact
  /\ bill \in [at : {"waiting", "paid", "settled", "refunded"}, value : Amount \cup {None}]
  /\ charge \in Charges
  /\ settlement \in Settlements
  /\ ledger["PAYMENT"] \in Int
  /\ applied \subseteq Payment
  /\ Shaped(divergences)

(* The settlement, its first reference and the paid charge come together.  *)
Books ==
  /\ firstRef = None <=> settlement = NoSettlement
  /\ charge.status = "OPEN" <=> settlement = NoSettlement
  /\ settlement = NoSettlement => charge.paid = None /\ divergences = {} /\ applied = {}
  /\ settlement # NoSettlement =>
       /\ ledger["PAYMENT"] = PaidOf(charge)
       /\ settlement.status = Refreshed(settlement.evidence, divergences)

(* What is known of each Pix: nothing is read or recorded but was received. *)
Receipts ==
  /\ \A e \in Payment : pix[e] # 0 => method = "PIX"
  /\ \A e \in Payment : e \in read \/ e \in applied => pix[e] # 0
  /\ \A e \in applied : firstRef # e => duplicate[e] = pix[e]
  /\ \A e \in Payment : e \notin applied => duplicate[e] = 0 /\ firstRef # e
  /\ firstRef \in Payment => charge.paid = pix[firstRef] /\ duplicate[firstRef] = 0
  /\ firstRef \in Payment \cup {None, "return"} \/ method = "BOLIX"

(* The paid amount is that of the first Pix, or the boleto's. *)
PaidAsTold ==
  /\ \A f \in read : f \notin Payment =>
       /\ bill.at # "waiting"
       /\ f.value \in {None, bill.value}
  /\ bill.at # "waiting" => method = "BOLIX"
  /\ charge.paid # None =>
       /\ charge.paidAt # None
       /\ \/ firstRef \in Payment
          \/ method = "BOLIX" /\ bill.at # "waiting" /\ charge.paid = bill.value

(* Each occurrence is noted, whether or not it has been decided. *)
Notes ==
  /\ charge.paid # None /\ PaidOf(charge) < Gross => Noted(Below, None)
  /\ charge.paid # None /\ PaidOf(charge) > MaxExpected(charge.paidAt) => Noted(Above, None)
  /\ \A e \in Payment : duplicate[e] # 0 => Noted("DUPLICATE_PAYMENT", e)
  /\ settlement.evidence = "MISMATCH" => Noted("PLATFORM_FEE_EVIDENCE_MISMATCH", "evidence")
  /\ Evidenced(settlement) /\ settlement.due # settlement.backed
       => Noted(Changed, settlement.due)

(* A shortfall that was noted, or charged, is the one there is. *)
Shortfall ==
  /\ \A d \in divergences : d.code = Below =>
       charge.paid # None /\ d.amount = Gross - charge.paid
  /\ complement # None => charge.paid # None /\ complement = Gross - charge.paid

IInv == Ranges /\ Books /\ Receipts /\ PaidAsTold /\ Notes /\ Shortfall

(***************************************************************************)
(* What opening a divergence does.                                         *)
(***************************************************************************)
Has(ds, code, ref) == \E d \in ds : d.code = code /\ d.ref = ref

LEMMA OpenedAdds ==
  ASSUME NEW ds, Shaped(ds), NEW code \in DOMAIN Decision, NEW ref, NEW amount
  PROVE  /\ ds \subseteq Opened(ds, code, ref, amount)
         /\ Shaped(Opened(ds, code, ref, amount))
         /\ Has(Opened(ds, code, ref, amount), code, ref)
         /\ \A d \in Opened(ds, code, ref, amount) \ ds : d.code = code /\ d.amount = amount
<1> DEFINE new == [code |-> code, ref |-> ref, amount |-> amount, decision |-> None]
<1>1. CASE \E d \in ds : d.code = code /\ d.ref = ref
  BY <1>1 DEF Opened, Has
<1>2. CASE ~\E d \in ds : d.code = code /\ d.ref = ref
  <2>1. Opened(ds, code, ref, amount) = ds \cup {new}
    BY <1>2 DEF Opened
  <2>2. new.code = code /\ new.ref = ref /\ new.amount = amount /\ new.decision = None
    OBVIOUS
  <2>3. Shaped(ds \cup {new})
    BY <1>2, <2>2 DEF Shaped
  <2> QED
    BY <2>1, <2>2, <2>3 DEF Has
<1> QED
  BY <1>1, <1>2

LEMMA OpenedIfAdds ==
  ASSUME NEW ds, Shaped(ds), NEW code \in DOMAIN Decision, NEW ref, NEW amount,
         NEW condition \in BOOLEAN
  PROVE  /\ ds \subseteq OpenedIf(condition, ds, code, ref, amount)
         /\ Shaped(OpenedIf(condition, ds, code, ref, amount))
         /\ condition => Has(OpenedIf(condition, ds, code, ref, amount), code, ref)
         /\ \A d \in OpenedIf(condition, ds, code, ref, amount) \ ds :
              condition /\ d.code = code /\ d.amount = amount
<1>1. CASE condition
  BY <1>1, OpenedAdds DEF OpenedIf
<1>2. CASE ~condition
  BY <1>2 DEF OpenedIf
<1> QED
  BY <1>1, <1>2

LEMMA HasGrows ==
  ASSUME NEW ds, NEW es, ds \subseteq es, NEW code, NEW ref, Has(ds, code, ref)
  PROVE  Has(es, code, ref)
  BY DEF Has

(***************************************************************************)
(* What Sync does to the books, whoever calls it.                          *)
(***************************************************************************)
LEMMA Amounts ==
  ASSUME NEW c \in Charges
  PROVE  PaidOf(c) \in Nat /\ FeeOf(c) \in Nat
  BY AmountAssumption DEF Charges, PaidOf, FeeOf

LEMMA SyncOpens ==
  ASSUME Ranges, NEW c \in Charges, NEW k, NEW ref, Sync(c, k, ref)
  PROVE  /\ divergences \subseteq divergences'
         /\ Shaped(divergences')
         /\ c.paid # None /\ PaidOf(c) < Gross => Noted(Below, None)'
         /\ c.paid # None /\ c.paidAt # None /\ PaidOf(c) > MaxExpected(c.paidAt)
              => Noted(Above, None)'
         /\ Evidenced(settlement) /\ FeeOf(c) # settlement.due /\ settlement # NoSettlement
              => Noted(Changed, FeeOf(c))'
         /\ \A d \in divergences' \ divergences :
              d.code = Below => c.paid # None /\ d.amount = Gross - PaidOf(c)
<1> DEFINE fee == FeeOf(c)
           before == IF settlement = NoSettlement
                     THEN [NoSettlement EXCEPT !.evidence = Required(fee), !.due = fee]
                     ELSE settlement
           reversal == Targets(c, k).PLATFORM_FEE_REVERSAL
           short == c.paid # None /\ PaidOf(c) < Gross
           over == c.paid # None /\ c.paidAt # None /\ PaidOf(c) > MaxExpected(c.paidAt)
           other == fee # before.due /\ before.evidence \in {"CONFIRMED", "MISMATCH"}
           d1 == OpenedIf(short, divergences, Below, None, Gross - PaidOf(c))
           d2 == OpenedIf(over, d1, Above, None, PaidOf(c) - MaxExpected(c.paidAt))
           d3 == OpenedIf(reversal > 0, d2, "PLATFORM_FEE_REVERSAL_DUE", reversal, reversal)
           d4 == OpenedIf(other, d3, Changed, fee, fee - before.due)
<1>1. divergences' = d4
  BY DEF Sync, Below, Above, Changed
<1>2. Below \in DOMAIN Decision /\ Above \in DOMAIN Decision /\ Changed \in DOMAIN Decision
      /\ "PLATFORM_FEE_REVERSAL_DUE" \in DOMAIN Decision
  BY DEF Decision, Below, Above, Changed
<1>3. /\ divergences \subseteq d1 /\ Shaped(d1) /\ (short => Has(d1, Below, None))
      /\ \A d \in d1 \ divergences : short /\ d.code = Below /\ d.amount = Gross - PaidOf(c)
  <2>1. Shaped(divergences) /\ short \in BOOLEAN
    BY DEF Ranges
  <2> HIDE DEF short
  <2> QED
    BY <1>2, <2>1, OpenedIfAdds
<1>4. /\ d1 \subseteq d2 /\ Shaped(d2) /\ (over => Has(d2, Above, None))
      /\ \A d \in d2 \ d1 : d.code = Above
  <2>1. over \in BOOLEAN
    OBVIOUS
  <2> HIDE DEF over, d1
  <2> QED
    BY <1>2, <1>3, <2>1, OpenedIfAdds
<1>5. /\ d2 \subseteq d3 /\ Shaped(d3)
      /\ \A d \in d3 \ d2 : d.code = "PLATFORM_FEE_REVERSAL_DUE"
  <2> DEFINE some == reversal > 0
  <2>1. some \in BOOLEAN
    OBVIOUS
  <2> HIDE DEF some, reversal, d2
  <2>2. d3 = OpenedIf(some, d2, "PLATFORM_FEE_REVERSAL_DUE", reversal, reversal)
    BY DEF some
  <2> QED
    BY <1>2, <1>4, <2>1, <2>2, OpenedIfAdds
<1>6. /\ d3 \subseteq d4 /\ Shaped(d4) /\ (other => Has(d4, Changed, fee))
      /\ \A d \in d4 \ d3 : d.code = Changed
  <2>1. other \in BOOLEAN
    OBVIOUS
  <2> HIDE DEF other, d3, fee, before
  <2> QED
    BY <1>2, <1>5, <2>1, OpenedIfAdds
<1>7. settlement # NoSettlement /\ Evidenced(settlement) /\ FeeOf(c) # settlement.due => other
  BY DEF Evidenced
<1>8. Below # Above /\ Below # Changed /\ Below # "PLATFORM_FEE_REVERSAL_DUE"
  BY DEF Below, Above, Changed
<1> HIDE DEF d1, d2, d3, d4, other
<1> QED
  BY <1>1, <1>3, <1>4, <1>5, <1>6, <1>7, <1>8, HasGrows DEF Noted, Has

LEMMA SyncSettles ==
  ASSUME Ranges, NEW c \in Charges, NEW k, NEW ref, Sync(c, k, ref)
  PROVE  /\ charge' = c
         /\ settlement' \in Settlements
         /\ settlement' # NoSettlement
         /\ settlement'.status = Refreshed(settlement'.evidence, divergences')
         /\ ledger'["PAYMENT"] = PaidOf(c)
         /\ firstRef' = IF settlement = NoSettlement THEN ref ELSE firstRef
         /\ settlement'.due = FeeOf(c)
         /\ settlement = NoSettlement => ~Evidenced(settlement')
         /\ settlement # NoSettlement =>
              /\ settlement'.backed = settlement.backed
              /\ Evidenced(settlement) => settlement'.evidence = settlement.evidence
              /\ Evidenced(settlement') => Evidenced(settlement)
<1> DEFINE fee == FeeOf(c)
           before == IF settlement = NoSettlement
                     THEN [NoSettlement EXCEPT !.evidence = Required(fee), !.due = fee]
                     ELSE settlement
           evidence == IF fee # before.due /\ before.evidence \notin {"CONFIRMED", "MISMATCH"}
                       THEN Required(fee) ELSE before.evidence
           shown == Refreshed(evidence, divergences')
<1>1. fee \in Nat /\ PaidOf(c) \in Nat
  BY Amounts
<1>2. Required(fee) \in {"PENDING", "NOT_REQUIRED"}
  BY DEF Required
<1>3. shown \in {"AWAITING_EVIDENCE", "RECONCILED", "DIVERGENT"}
  BY DEF Refreshed
<1>4. settlement' = [before EXCEPT !.due = fee, !.evidence = evidence, !.status = shown]
  BY DEF Sync
<1>5. before \in Settlements
  BY <1>1, <1>2 DEF Ranges, Settlements, NoSettlement
<1>6. evidence \in {"ABSENT", "NOT_REQUIRED", "PENDING", "CONFIRMED", "MISMATCH"}
  BY <1>2, <1>5 DEF Settlements
<1>7. /\ settlement' \in Settlements
      /\ settlement'.evidence = evidence /\ settlement'.due = fee
      /\ settlement'.backed = before.backed /\ settlement'.status = shown
  <2> HIDE DEF fee, before, evidence, shown
  <2> QED
    BY <1>1, <1>3, <1>4, <1>5, <1>6 DEF Settlements
<1>8. settlement' # NoSettlement
  BY <1>3, <1>7 DEF NoSettlement
<1>9. ledger'["PAYMENT"] = PaidOf(c)
  <2>1. "PAYMENT" \in Kind /\ Targets(c, k).PAYMENT = PaidOf(c)
    BY DEF Kind, Targets
  <2>2. ledger'["PAYMENT"] = ledger["PAYMENT"] + Entry(ledger["PAYMENT"], Targets(c, k)["PAYMENT"])
    BY <2>1 DEF Sync
  <2>3. ledger["PAYMENT"] \in Int
    BY DEF Ranges
  <2> QED
    BY <1>1, <2>1, <2>2, <2>3 DEF Entry
<1>10. settlement = NoSettlement => ~Evidenced(settlement')
  BY <1>2, <1>7 DEF Evidenced, NoSettlement
<1>11. settlement # NoSettlement =>
         /\ settlement'.backed = settlement.backed
         /\ Evidenced(settlement) => settlement'.evidence = settlement.evidence
         /\ Evidenced(settlement') => Evidenced(settlement)
  BY <1>2, <1>7 DEF Evidenced
<1> QED
  BY <1>7, <1>8, <1>9, <1>10, <1>11 DEF Sync

LEMMA SyncBooks ==
  ASSUME IInv, NEW c \in Charges, c.status # "OPEN", NEW k, NEW ref, ref # None, Sync(c, k, ref)
  PROVE  Books'
<1>1. Ranges /\ Books
  BY DEF IInv
<1> QED
  BY <1>1, SyncSettles DEF Books

LEMMA SyncNotes ==
  ASSUME IInv, NEW c \in Charges, c.paid # None => c.paidAt # None,
         charge.paid # None => c.paid = charge.paid,
         NEW k, NEW ref, Sync(c, k, ref), duplicate' = duplicate, complement' = complement
  PROVE  Notes' /\ Shortfall'
<1>1. Ranges /\ Books /\ Notes /\ Shortfall
  BY DEF IInv
<1>2. charge' = c /\ divergences \subseteq divergences'
  BY <1>1, SyncSettles, SyncOpens
<1>3. \A code, ref1 : Has(divergences, code, ref1) => Has(divergences', code, ref1)
  BY <1>2 DEF Has
<1>4. /\ charge'.paid # None /\ (PaidOf(charge) < Gross)' => Has(divergences', Below, None)
      /\ charge'.paid # None /\ (PaidOf(charge) > MaxExpected(charge.paidAt))'
           => Has(divergences', Above, None)
  BY <1>1, <1>2, SyncOpens DEF PaidOf, MaxExpected, Noted, Has
<1>5. \A e \in Payment : duplicate'[e] # 0 => Has(divergences', "DUPLICATE_PAYMENT", e)
  BY <1>1, <1>3 DEF Notes, Noted, Has
<1>6. settlement'.evidence = "MISMATCH" => Has(divergences', "PLATFORM_FEE_EVIDENCE_MISMATCH", "evidence")
  <2>1. settlement'.evidence = "MISMATCH" => settlement.evidence = "MISMATCH"
    BY <1>1, SyncSettles DEF Evidenced
  <2> QED
    BY <1>1, <1>3, <2>1 DEF Notes, Noted, Has
<1>7. Evidenced(settlement') /\ settlement'.due # settlement'.backed
        => Has(divergences', Changed, settlement'.due)
  <2> SUFFICES ASSUME Evidenced(settlement'), settlement'.due # settlement'.backed
               PROVE  Has(divergences', Changed, settlement'.due)
    OBVIOUS
  <2>1. settlement # NoSettlement /\ Evidenced(settlement)
        /\ settlement'.backed = settlement.backed /\ settlement'.due = FeeOf(c)
    BY <1>1, SyncSettles
  <2>2. CASE FeeOf(c) # settlement.due
    BY <1>1, <2>1, <2>2, SyncOpens DEF Noted, Has
  <2>3. CASE FeeOf(c) = settlement.due
    BY <1>1, <1>3, <2>1, <2>3 DEF Notes, Noted, Has
  <2> QED
    BY <2>2, <2>3
<1>8. Shortfall'
  <2>1. ASSUME NEW d \in divergences', d.code = Below
        PROVE  c.paid # None /\ d.amount = Gross - c.paid
    <3>1. CASE d \in divergences
      BY <1>1, <2>1, <3>1 DEF Shortfall
    <3>2. CASE d \notin divergences
      BY <1>1, <2>1, <3>2, SyncOpens DEF PaidOf
    <3> QED
      BY <3>1, <3>2
  <2> QED
    BY <1>1, <1>2, <2>1 DEF Shortfall
<1> QED
  BY <1>4, <1>5, <1>6, <1>7, <1>8 DEF Notes, Noted, Has, Evidenced

LEMMA SyncRanges ==
  ASSUME IInv, NEW c \in Charges, NEW k, NEW ref, Sync(c, k, ref),
         UNCHANGED <<efiVars, duplicate>>,
         read' \subseteq read, applied' \subseteq Payment
  PROVE  Ranges'
<1>1. Ranges
  BY DEF IInv
<1>2. PaidOf(c) \in Nat
  BY Amounts
<1> QED
  BY <1>1, <1>2, SyncSettles, SyncOpens DEF Ranges, efiVars

(***************************************************************************)
(* What is recorded.                                                       *)
(***************************************************************************)
(* The charge that Pay records, when the amount agrees with what is known.  *)
LEMMA PayKeeps ==
  ASSUME IInv, NEW amount \in Amount \cup {None}, NEW ref, ref # None, Pay(amount, ref),
         charge.paid # None => amount \in {None, charge.paid},
         UNCHANGED <<efiVars, complement>>, read' \subseteq read, applied' \subseteq Payment
  PROVE  /\ Ranges' /\ Books' /\ Notes' /\ Shortfall'
         /\ charge'.paid = IF amount = None THEN charge.paid ELSE amount
         /\ charge'.paid # None => charge'.paidAt # None
         /\ firstRef' = IF settlement = NoSettlement THEN ref ELSE firstRef
         /\ duplicate' = duplicate
<1> DEFINE paid == IF amount = None THEN charge.paid ELSE amount
           dates == IF charge.paidAt = None THEN {"onTime", "late"} ELSE {charge.paidAt}
<1>1. Ranges /\ charge \in Charges
  BY DEF IInv, Ranges
<1>2. PICK at \in dates :
        Sync([status |-> "PAID", paid |-> paid, paidAt |-> at,
              fee |-> IF paid = None THEN FeeOf(charge) ELSE PlatformFee(paid)], known, ref)
  BY DEF Pay
<1> DEFINE c == [status |-> "PAID", paid |-> paid, paidAt |-> at,
                 fee |-> IF paid = None THEN FeeOf(charge) ELSE PlatformFee(paid)]
<1>3. paid \in Amount \cup {None} /\ at \in {"onTime", "late"} /\ at # None
  BY <1>1, <1>2, NamesAssumption DEF Charges
<1>4. FeeOf(charge) \in Nat
  BY <1>1, Amounts
<1>5. c \in Charges /\ c.status # "OPEN" /\ c.paid = paid /\ c.paidAt = at
  BY <1>3, <1>4, AmountAssumption DEF Charges
<1>6. charge.paid # None => c.paid = charge.paid
  BY <1>5
<1>7. duplicate' = duplicate /\ complement' = complement
  BY DEF Pay
<1> HIDE DEF c, paid
<1>8. Sync(c, known, ref)
  BY <1>2 DEF c, paid
<1>9. charge' = c /\ firstRef' = IF settlement = NoSettlement THEN ref ELSE firstRef
  BY <1>1, <1>5, <1>8, SyncSettles
<1>10. Ranges' /\ Books' /\ Notes' /\ Shortfall'
  BY <1>3, <1>5, <1>6, <1>7, <1>8, SyncRanges, SyncBooks, SyncNotes
<1> QED
  BY <1>3, <1>5, <1>7, <1>9, <1>10 DEF paid

(* A sync that neither receives a payment nor changes what was paid.        *)
LEMMA SyncKeeps ==
  ASSUME IInv, NEW c \in Charges, c.status # "OPEN",
         c.paid = charge.paid, c.paidAt = charge.paidAt,
         NEW k, NEW ref \in {"return", "refunded"}, ref = "return" \/ method = "BOLIX",
         Sync(c, k, ref), UNCHANGED <<efiVars, duplicate, complement, applied>>,
         read' \subseteq read
  PROVE  IInv'
<1>1. Ranges /\ Books /\ Receipts /\ PaidAsTold
  BY DEF IInv
<1>2. ref # None /\ ref \notin Payment
  BY NamesAssumption
<1>3. charge' = c /\ firstRef' = IF settlement = NoSettlement THEN ref ELSE firstRef
  BY <1>1, SyncSettles
<1>4. c.paid # None => c.paidAt # None
  BY <1>1 DEF PaidAsTold
<1>5. applied' \subseteq Payment
  BY <1>1 DEF Ranges
<1>6. Ranges' /\ Books' /\ Notes' /\ Shortfall'
  BY <1>2, <1>4, <1>5, SyncRanges, SyncBooks, SyncNotes
<1>7. Receipts'
  BY <1>1, <1>2, <1>3 DEF Receipts, Books, efiVars
<1>8. PaidAsTold'
  BY <1>1, <1>2, <1>3 DEF PaidAsTold, Books, efiVars
<1> QED
  BY <1>6, <1>7, <1>8 DEF IInv

LEMMA RecordRefundsKeeps ==
  ASSUME IInv, NEW k, RecordRefunds(k), UNCHANGED <<efiVars, read>>
  PROVE  IInv'
<1> DEFINE becomes == IF Cardinality(k) = PaidOf(charge) THEN "REFUNDED" ELSE "PAID"
           c == [charge EXCEPT !.status = becomes]
<1>1. charge \in Charges
  BY DEF IInv, Ranges
<1>2. c \in Charges /\ c.status # "OPEN" /\ c.paid = charge.paid /\ c.paidAt = charge.paidAt
  <2>1. becomes \in {"PAID", "REFUNDED"}
    OBVIOUS
  <2> HIDE DEF becomes
  <2> QED
    BY <1>1, <2>1 DEF Charges
<1>3. Sync(c, k, "return")
  BY DEF RecordRefunds
<1> HIDE DEF c
<1> QED
  BY <1>2, <1>3, SyncKeeps DEF RecordRefunds

LEMMA RefundBillKeeps ==
  ASSUME IInv, method = "BOLIX", RefundBill, UNCHANGED efiVars, read' \subseteq read
  PROVE  IInv'
<1> DEFINE c == [charge EXCEPT !.status = "REFUNDED"]
<1>1. charge \in Charges
  BY DEF IInv, Ranges
<1>2. c \in Charges /\ c.status # "OPEN" /\ c.paid = charge.paid /\ c.paidAt = charge.paidAt
  BY <1>1 DEF Charges
<1>3. Sync(c, known, "refunded")
  BY DEF RefundBill
<1> HIDE DEF c
<1> QED
  BY <1>2, <1>3, SyncKeeps DEF RefundBill

LEMMA RecordBillKeeps ==
  ASSUME IInv, method = "BOLIX", bill.at # "waiting", NEW value \in {None, bill.value},
         RecordBill(value), UNCHANGED efiVars, read' \subseteq read
  PROVE  IInv'
<1>1. Ranges /\ Books /\ Receipts /\ PaidAsTold
  BY DEF IInv
<1>2. "bill" # None /\ "bill" \notin Payment
  BY NamesAssumption
<1>3. \A e \in Payment : firstRef # e
  BY <1>1 DEF Receipts
<1>4. value \in Amount \cup {None} /\ (charge.paid # None => value \in {None, charge.paid})
  BY <1>1, <1>3 DEF PaidAsTold, Ranges
<1>5. applied \subseteq Payment /\ applied' \subseteq Payment
  BY <1>1 DEF RecordBill, Ranges
<1>6. /\ Ranges' /\ Books' /\ Notes' /\ Shortfall'
      /\ charge'.paid = IF value = None THEN charge.paid ELSE value
      /\ charge'.paid # None => charge'.paidAt # None
      /\ firstRef' = IF settlement = NoSettlement THEN "bill" ELSE firstRef
      /\ duplicate' = duplicate
  BY <1>2, <1>4, <1>5, PayKeeps DEF RecordBill
<1>7. firstRef' \notin Payment
  BY <1>2, <1>3, <1>6
<1>8. Receipts'
  BY <1>1, <1>3, <1>5, <1>6, <1>7 DEF Receipts, RecordBill, efiVars
<1>9. PaidAsTold'
  BY <1>1, <1>3, <1>6 DEF PaidAsTold, efiVars
<1> QED
  BY <1>6, <1>8, <1>9 DEF IInv

LEMMA RecordDuplicateKeeps ==
  ASSUME IInv, NEW e \in Payment, pix[e] # 0, Settled, IsAnotherPayment(e),
         RecordDuplicate(e, pix[e]), UNCHANGED <<efiVars, complement>>,
         read' \subseteq read, applied' = applied \cup {e}
  PROVE  IInv'
<1>1. Ranges /\ Books /\ Receipts /\ PaidAsTold /\ Notes /\ Shortfall
  BY DEF IInv
<1>2. settlement # NoSettlement /\ firstRef # e /\ firstRef # None
  BY <1>1 DEF Books, Settled, IsAnotherPayment
<1>3. /\ divergences \subseteq divergences' /\ Shaped(divergences')
      /\ Has(divergences', "DUPLICATE_PAYMENT", e)
      /\ \A d \in divergences' \ divergences : d.code = "DUPLICATE_PAYMENT"
  <2>1. "DUPLICATE_PAYMENT" \in DOMAIN Decision /\ Shaped(divergences)
    BY <1>1 DEF Decision, Ranges
  <2> QED
    BY <2>1, OpenedAdds DEF RecordDuplicate
<1>4. \A code, ref : Has(divergences, code, ref) => Has(divergences', code, ref)
  BY <1>3 DEF Has
<1> DEFINE shown == Refreshed(settlement.evidence, divergences')
<1>5. shown \in {"AWAITING_EVIDENCE", "RECONCILED", "DIVERGENT"}
  BY DEF Refreshed
<1>6. /\ settlement' \in Settlements /\ settlement' # NoSettlement
      /\ settlement'.status = shown /\ settlement'.evidence = settlement.evidence
      /\ settlement'.due = settlement.due /\ settlement'.backed = settlement.backed
  <2>1. settlement' = [settlement EXCEPT !.status = shown]
    BY DEF RecordDuplicate
  <2> HIDE DEF shown
  <2> QED
    BY <1>1, <1>5, <2>1 DEF Ranges, Settlements, NoSettlement
<1>7. \A a \in Payment : duplicate'[a] = IF a = e /\ duplicate[e] = 0 THEN pix[e] ELSE duplicate[a]
  BY <1>1 DEF RecordDuplicate, Ranges
<1>8. duplicate' \in [Payment -> Amount \cup {0}]
  BY <1>1 DEF RecordDuplicate, Ranges
<1>9. Ranges'
  BY <1>1, <1>3, <1>6, <1>8 DEF Ranges, RecordDuplicate, efiVars
<1>10. Books'
  <2>1. UNCHANGED <<charge, ledger, firstRef>>
    BY DEF RecordDuplicate
  <2>2. PaidOf(charge)' = PaidOf(charge)
    BY <2>1 DEF PaidOf
  <2>3. settlement'.status = Refreshed(settlement.evidence, divergences)'
    BY <1>6 DEF Refreshed
  <2> QED
    BY <1>1, <1>2, <1>6, <2>1, <2>2, <2>3 DEF Books
<1>11. Receipts'
  BY <1>1, <1>2, <1>7 DEF Receipts, RecordDuplicate, efiVars
<1>12. PaidAsTold'
  BY <1>1 DEF PaidAsTold, RecordDuplicate, efiVars
<1>13. Notes'
  BY <1>1, <1>3, <1>4, <1>6, <1>7
     DEF Notes, Noted, Has, Evidenced, RecordDuplicate, PaidOf, MaxExpected
<1>14. Shortfall'
  BY <1>1, <1>3 DEF Shortfall, RecordDuplicate, Below
<1> QED
  BY <1>9, <1>10, <1>11, <1>12, <1>13, <1>14 DEF IInv

LEMMA RecordReceiptKeeps ==
  ASSUME IInv, NEW e \in Payment, pix[e] # 0, RecordReceipt(e), UNCHANGED efiVars,
         read' \subseteq read
  PROVE  IInv'
<1>1. Ranges /\ Books /\ Receipts /\ PaidAsTold
  BY DEF IInv
<1>2. applied' = applied \cup {e} /\ complement' = complement
  BY DEF RecordReceipt
<1>3. CASE Settled /\ IsAnotherPayment(e)
  <2>1. RecordDuplicate(e, pix[e])
    BY <1>3 DEF RecordReceipt
  <2> QED
    BY <1>2, <1>3, <2>1, RecordDuplicateKeeps
<1>4. CASE ~(Settled /\ IsAnotherPayment(e))
  <2>1. Pay(pix[e], e)
    BY <1>4 DEF RecordReceipt
  <2>2. pix[e] \in Amount /\ e # None /\ applied \subseteq Payment /\ None \notin Payment
        /\ pix[e] # None
    BY <1>1, AmountAssumption DEF Ranges
  <2>3. \/ settlement = NoSettlement /\ firstRef = None /\ charge.paid = None /\ applied = {}
        \/ settlement # NoSettlement /\ firstRef = e /\ charge.paid = pix[e] /\ duplicate[e] = 0
    <3>1. CASE settlement = NoSettlement
      BY <1>1, <3>1 DEF Books
    <3>2. CASE settlement # NoSettlement
      <4>1. charge.status \in {"PAID", "REFUNDED"} /\ firstRef # None
        BY <1>1, <3>2 DEF Books, Ranges, Charges
      <4>2. firstRef = e
        BY <1>4, <4>1 DEF Settled, IsAnotherPayment
      <4> QED
        BY <1>1, <3>2, <4>2 DEF Receipts
    <3> QED
      BY <3>1, <3>2
  <2>4. charge.paid # None => pix[e] \in {None, charge.paid}
    BY <2>3
  <2>5. applied' \subseteq Payment
    BY <1>2, <2>2
  <2>6. /\ Ranges' /\ Books' /\ Notes' /\ Shortfall'
        /\ charge'.paid = pix[e]
        /\ charge'.paid # None => charge'.paidAt # None
        /\ firstRef' = IF settlement = NoSettlement THEN e ELSE firstRef
        /\ duplicate' = duplicate
    BY <1>2, <2>1, <2>2, <2>4, <2>5, PayKeeps
  <2>7. firstRef' = e
    BY <2>3, <2>6
  <2>8. Receipts'
    BY <1>1, <1>2, <2>2, <2>3, <2>6, <2>7 DEF Receipts, efiVars
  <2>9. PaidAsTold'
    BY <1>1, <2>6, <2>7 DEF PaidAsTold, efiVars
  <2> QED
    BY <2>6, <2>8, <2>9 DEF IInv
<1> QED
  BY <1>3, <1>4

(***************************************************************************)
(* One lemma for each action.                                              *)
(***************************************************************************)
LEMMA ApplyReceiptKeeps ==
  ASSUME IInv, NEW e \in Payment, ApplyReceipt(e)
  PROVE  IInv'
<1>1. pix[e] # 0
  BY DEF IInv, Receipts, ApplyReceipt
<1> QED
  BY <1>1, RecordReceiptKeeps DEF ApplyReceipt

LEMMA ApplyBillKeeps ==
  ASSUME IInv, NEW fact \in read, ApplyBill(fact)
  PROVE  IInv'
<1>1. Ranges /\ Receipts /\ PaidAsTold
  BY DEF IInv
<1>2. fact \notin Payment
  BY <1>1 DEF ApplyBill, Receipts
<1>3. bill.at # "waiting" /\ fact.value \in {None, bill.value}
  BY <1>1, <1>2 DEF PaidAsTold
<1>4. CASE fact.at = "refunded"
  BY <1>4, RefundBillKeeps DEF ApplyBill
<1>5. CASE fact.at # "refunded"
  BY <1>3, <1>5, RecordBillKeeps DEF ApplyBill
<1> QED
  BY <1>4, <1>5

(* Reading changes nothing but what is read. *)
LEMMA ReadKeeps ==
  ASSUME IInv, UNCHANGED <<efiVars, charge, bookVars, settlement, divergences>>,
         read' \subseteq Payment \cup BillFact,
         \A e \in Payment : e \in read' => pix[e] # 0,
         \A f \in read' : f \notin Payment =>
           bill.at # "waiting" /\ f.value \in {None, bill.value}
  PROVE  IInv'
<1>1. Ranges'
  BY DEF IInv, Ranges, efiVars, bookVars
<1>2. Books'
  BY DEF IInv, Books, PaidOf, Refreshed, bookVars
<1>3. Receipts'
  BY DEF IInv, Receipts, efiVars, bookVars
<1>4. PaidAsTold'
  BY DEF IInv, PaidAsTold, efiVars, bookVars
<1>5. Notes' /\ Shortfall'
  BY DEF IInv, Notes, Shortfall, Noted, PaidOf, MaxExpected, Evidenced, bookVars
<1> QED
  BY <1>1, <1>2, <1>3, <1>4, <1>5 DEF IInv

LEMMA ReadReceiptKeeps ==
  ASSUME IInv, NEW e \in Payment, ReadReceipt(e)
  PROVE  IInv'
<1>1. Ranges /\ Receipts /\ PaidAsTold
  BY DEF IInv
<1>2. pix[e] # 0 /\ read' = read \cup {e}
  BY <1>1, AmountAssumption DEF ReadReceipt, Ranges
<1>3. read' \subseteq Payment \cup BillFact
  BY <1>1, <1>2 DEF Ranges
<1>4. \A a \in Payment : a \in read' => pix[a] # 0
  BY <1>1, <1>2 DEF Receipts
<1>5. \A f \in read' : f \notin Payment =>
        bill.at # "waiting" /\ f.value \in {None, bill.value}
  BY <1>1, <1>2 DEF PaidAsTold
<1> QED
  BY <1>3, <1>4, <1>5, ReadKeeps DEF ReadReceipt

LEMMA ReadBillKeeps ==
  ASSUME IInv, ReadBill
  PROVE  IInv'
<1>1. Ranges /\ Receipts /\ PaidAsTold
  BY DEF IInv
<1>2. PICK value \in {bill.value, None} :
        read' = read \cup {[at |-> bill.at, value |-> value]}
  BY DEF ReadBill
<1> DEFINE fact == [at |-> bill.at, value |-> value]
<1>3. fact \in BillFact /\ fact.value = value /\ bill.at # "waiting"
  BY <1>1, <1>2 DEF Ranges, BillFact, ReadBill
<1>4. \A e \in Payment : pix[e] = 0
  BY <1>1, <1>3 DEF PaidAsTold, Receipts
<1>5. fact \notin Payment
  BY <1>3, NamesAssumption DEF BillFact
<1> HIDE DEF fact
<1>6. read' = read \cup {fact}
  BY <1>2 DEF fact
<1>7. read' \subseteq Payment \cup BillFact
  BY <1>1, <1>3, <1>6 DEF Ranges
<1>8. \A e \in Payment : e \in read' => pix[e] # 0
  BY <1>1, <1>5, <1>6 DEF Receipts
<1>9. \A f \in read' : f \notin Payment =>
        bill.at # "waiting" /\ f.value \in {None, bill.value}
  BY <1>1, <1>2, <1>3, <1>6 DEF PaidAsTold
<1> QED
  BY <1>7, <1>8, <1>9, ReadKeeps DEF ReadBill

LEMMA DropKeeps ==
  ASSUME IInv, NEW fact \in read, Drop(fact)
  PROVE  IInv'
<1>1. Ranges /\ Receipts /\ PaidAsTold /\ read' \subseteq read
  BY DEF IInv, Drop
<1> QED
  BY <1>1, ReadKeeps DEF Ranges, Receipts, PaidAsTold, Drop

LEMMA UpdateOptionsKeeps ==
  ASSUME IInv, UpdateOptions
  PROVE  IInv'
<1>1. Ranges /\ Receipts /\ PaidAsTold
  BY DEF IInv
<1> QED
  BY <1>1, ReadKeeps DEF Ranges, Receipts, PaidAsTold, UpdateOptions

(* Efi moves: nothing recorded rests on a Pix or a boleto not yet paid.     *)
LEMMA EfiKeeps ==
  ASSUME IInv, Efi
  PROVE  IInv'
<1>1. Ranges /\ Books /\ Receipts /\ PaidAsTold
  BY DEF IInv
<1>2. UNCHANGED <<read, charge, bookVars, settlement, divergences, option>>
  BY DEF Efi
<1>3. Books' /\ Notes' /\ Shortfall'
  BY <1>2 DEF IInv, Books, Notes, Shortfall, Noted, PaidOf, MaxExpected, Evidenced, Refreshed, bookVars
<1>4. CASE \E e \in Payment, a \in Amount : Receive(e, a)
  <2>1. PICK e \in Payment, a \in Amount : Receive(e, a)
    BY <1>4
  <2>2. /\ method = "PIX" /\ pix[e] = 0 /\ UNCHANGED <<method, bill>> /\ e \notin applied
        /\ \A x \in Payment : pix'[x] = IF x = e THEN a ELSE pix[x]
        /\ pix' \in [Payment -> Amount \cup {0}]
    BY <1>1, <2>1 DEF Receive, Ranges, Receipts
  <2>3. firstRef # e /\ applied \subseteq Payment /\ a # 0
    BY <1>1, <2>2, AmountAssumption DEF Receipts, Ranges
  <2>4. Ranges'
    BY <1>1, <1>2, <2>2 DEF Ranges, bookVars
  <2>5. Receipts'
    BY <1>1, <1>2, <2>2, <2>3 DEF Receipts, bookVars
  <2>6. PaidAsTold'
    BY <1>1, <1>2, <2>2 DEF PaidAsTold, bookVars
  <2> QED
    BY <1>3, <2>4, <2>5, <2>6 DEF IInv
<1>5. CASE \E e \in Payment, a \in Amount : Return(e, a)
  <2>1. UNCHANGED <<method, pix, bill>>
    BY <1>5 DEF Return
  <2>2. Ranges' /\ Receipts' /\ PaidAsTold'
    BY <1>1, <1>2, <2>1 DEF Ranges, Receipts, PaidAsTold, bookVars
  <2> QED
    BY <1>3, <2>2 DEF IInv
<1>6. CASE MoveBill
  <2>1. /\ method = "BOLIX" /\ UNCHANGED <<method, pix>>
        /\ bill' \in [at : {"waiting", "paid", "settled", "refunded"}, value : Amount \cup {None}]
        /\ bill'.at # "waiting"
        /\ bill.at # "waiting" => bill'.value = bill.value
    BY <1>1, <1>6 DEF MoveBill, Ranges
  <2>2. Ranges' /\ Receipts'
    BY <1>1, <1>2, <2>1 DEF Ranges, Receipts, bookVars
  <2>3. PaidAsTold'
    BY <1>1, <1>2, <2>1 DEF PaidAsTold, bookVars
  <2> QED
    BY <1>3, <2>2, <2>3 DEF IInv
<1> QED
  BY <1>4, <1>5, <1>6 DEF Efi

LEMMA RecordEvidenceKeeps ==
  ASSUME IInv, NEW matched \in BOOLEAN, RecordEvidence(matched)
  PROVE  IInv'
<1> DEFINE evidence == IF matched THEN "CONFIRMED" ELSE "MISMATCH"
           shown == Refreshed(evidence, divergences')
<1>1. Ranges /\ Books /\ Receipts /\ PaidAsTold /\ Notes /\ Shortfall
  BY DEF IInv
<1>2. settlement.evidence = "PENDING" /\ settlement # NoSettlement
  BY DEF RecordEvidence, NoSettlement
<1>3. UNCHANGED <<efiVars, read, charge, bookVars, option>>
  BY DEF RecordEvidence
<1>4. /\ divergences \subseteq divergences' /\ Shaped(divergences')
      /\ ~matched => Has(divergences', "PLATFORM_FEE_EVIDENCE_MISMATCH", "evidence")
      /\ \A d \in divergences' \ divergences : d.code = "PLATFORM_FEE_EVIDENCE_MISMATCH"
  <2> DEFINE other == ~matched
  <2>1. "PLATFORM_FEE_EVIDENCE_MISMATCH" \in DOMAIN Decision /\ Shaped(divergences)
    BY <1>1 DEF Decision, Ranges
  <2>2. other \in BOOLEAN /\ (~matched => other)
    OBVIOUS
  <2>3. divergences' = OpenedIf(other, divergences,
                                "PLATFORM_FEE_EVIDENCE_MISMATCH", "evidence", None)
    BY DEF RecordEvidence
  <2> HIDE DEF other
  <2>4. /\ divergences \subseteq divergences' /\ Shaped(divergences')
        /\ other => Has(divergences', "PLATFORM_FEE_EVIDENCE_MISMATCH", "evidence")
        /\ \A d \in divergences' \ divergences : d.code = "PLATFORM_FEE_EVIDENCE_MISMATCH"
    BY <2>1, <2>2, <2>3, OpenedIfAdds
  <2> QED
    BY <2>2, <2>4
<1>5. \A code, ref : Has(divergences, code, ref) => Has(divergences', code, ref)
  BY <1>4 DEF Has
<1>6. shown \in {"AWAITING_EVIDENCE", "RECONCILED", "DIVERGENT"}
  BY DEF Refreshed
<1>7. settlement' = [settlement EXCEPT
        !.evidence = evidence, !.backed = settlement.due, !.status = shown]
  BY DEF RecordEvidence
<1>8. evidence \in {"CONFIRMED", "MISMATCH"} /\ (evidence = "MISMATCH" => ~matched)
  OBVIOUS
<1> HIDE DEF shown, evidence
<1>9. /\ settlement' \in Settlements /\ settlement' # NoSettlement
      /\ settlement'.status = shown /\ settlement'.evidence = evidence
      /\ settlement'.due = settlement.due /\ settlement'.backed = settlement.due
  BY <1>1, <1>6, <1>7, <1>8 DEF Ranges, Settlements, NoSettlement
<1>10. Ranges'
  BY <1>1, <1>3, <1>4, <1>9 DEF Ranges, efiVars, bookVars
<1>11. Books'
  <2>1. PaidOf(charge)' = PaidOf(charge)
    BY <1>3 DEF PaidOf
  <2>2. settlement'.status = Refreshed(settlement.evidence, divergences)'
    BY <1>9 DEF Refreshed, shown
  <2> QED
    BY <1>1, <1>2, <1>3, <1>9, <2>1, <2>2 DEF Books, bookVars
<1>12. Receipts' /\ PaidAsTold'
  BY <1>1, <1>3 DEF Receipts, PaidAsTold, efiVars, bookVars
<1>13. Notes'
  BY <1>1, <1>3, <1>4, <1>5, <1>8, <1>9
     DEF Notes, Noted, Has, Evidenced, PaidOf, MaxExpected, bookVars
<1>14. Shortfall'
  BY <1>1, <1>3, <1>4 DEF Shortfall, Below, bookVars
<1> QED
  BY <1>10, <1>11, <1>12, <1>13, <1>14 DEF IInv

LEMMA ResolveKeeps ==
  ASSUME IInv, NEW d \in divergences, NEW decision, Resolve(d, decision)
  PROVE  IInv'
<1> DEFINE decided == [d EXCEPT !.decision = decision]
           shown == Refreshed(settlement.evidence, divergences')
<1>1. Ranges /\ Books /\ Receipts /\ PaidAsTold /\ Notes /\ Shortfall
  BY DEF IInv
<1>2. settlement # NoSettlement
  BY <1>1 DEF Books
<1>3. UNCHANGED <<efiVars, read, charge, known, ledger, firstRef, duplicate, applied, option>>
  BY DEF Resolve
<1>4. /\ d = [code |-> d.code, ref |-> d.ref, amount |-> d.amount, decision |-> d.decision]
      /\ d.code \in DOMAIN Decision
  BY <1>1 DEF Ranges, Shaped
<1>5. decided = [code |-> d.code, ref |-> d.ref, amount |-> d.amount, decision |-> decision]
  BY <1>4
<1>6. /\ decided.code = d.code /\ decided.ref = d.ref /\ decided.amount = d.amount
      /\ decided = [code |-> decided.code, ref |-> decided.ref,
                    amount |-> decided.amount, decision |-> decided.decision]
  BY <1>5
<1>7. divergences' = (divergences \ {d}) \cup {decided}
  BY DEF Resolve
<1>8. /\ settlement' = [settlement EXCEPT !.status = shown]
      /\ shown \in {"AWAITING_EVIDENCE", "RECONCILED", "DIVERGENT"}
  BY DEF Resolve, Refreshed
<1> HIDE DEF decided, shown
<1>9. Shaped(divergences')
  <2>1. decided.decision \in Decision[d.code] \cup {None}
    BY <1>5 DEF Resolve
  <2>2. \A x \in divergences : x.code = d.code /\ x.ref = d.ref => x = d
    BY <1>1 DEF Ranges, Shaped
  <2> QED
    BY <1>1, <1>4, <1>6, <1>7, <2>1, <2>2 DEF Ranges, Shaped
<1>10. \A code, ref : Has(divergences, code, ref) => Has(divergences', code, ref)
  BY <1>6, <1>7 DEF Has
<1>11. /\ settlement' \in Settlements /\ settlement' # NoSettlement
       /\ settlement'.status = shown /\ settlement'.evidence = settlement.evidence
       /\ settlement'.due = settlement.due /\ settlement'.backed = settlement.backed
  BY <1>1, <1>8 DEF Ranges, Settlements, NoSettlement
<1>12. Ranges'
  BY <1>1, <1>3, <1>9, <1>11 DEF Ranges, efiVars
<1>13. Books'
  <2>1. PaidOf(charge)' = PaidOf(charge)
    BY <1>3 DEF PaidOf
  <2>2. settlement'.status = Refreshed(settlement.evidence, divergences)'
    BY <1>11 DEF Refreshed, shown
  <2> QED
    BY <1>1, <1>2, <1>3, <1>11, <2>1, <2>2 DEF Books
<1>14. Receipts' /\ PaidAsTold'
  BY <1>1, <1>3 DEF Receipts, PaidAsTold, efiVars
<1>15. Notes'
  BY <1>1, <1>3, <1>10, <1>11 DEF Notes, Noted, Has, Evidenced, PaidOf, MaxExpected
<1>16. Shortfall'
  <2>1. \A x \in divergences' : x.code = Below =>
          charge.paid # None /\ x.amount = Gross - charge.paid
    BY <1>1, <1>6, <1>7 DEF Shortfall
  <2>2. decision = "ISSUE_COMPLEMENTARY" => d.code = Below
    BY <1>4 DEF Resolve, Decision, Below
  <2>3. complement' = IF decision = "ISSUE_COMPLEMENTARY" THEN d.amount ELSE complement
    BY DEF Resolve
  <2> QED
    BY <1>1, <1>3, <2>1, <2>2, <2>3 DEF Shortfall
<1> QED
  BY <1>12, <1>13, <1>14, <1>15, <1>16 DEF IInv

(***************************************************************************)
(* The invariant, and what follows from it.                                *)
(***************************************************************************)
LEMMA InitInv == Init => IInv
<1> SUFFICES ASSUME Init PROVE IInv
  OBVIOUS
<1>1. 0 \in Nat /\ NoSettlement \in Settlements /\ "PAYMENT" \in Kind
  BY DEF NoSettlement, Settlements, Kind
<1>2. Ranges
  BY <1>1 DEF Init, Ranges, Charges, Shaped
<1>3. Books /\ Receipts /\ PaidAsTold
  BY AmountAssumption DEF Init, Books, Receipts, PaidAsTold, NoSettlement
<1>4. Notes /\ Shortfall
  BY DEF Init, Notes, Shortfall, NoSettlement, Evidenced
<1> QED
  BY <1>2, <1>3, <1>4 DEF IInv

LEMMA NextKeeps == IInv /\ [Next]_vars => IInv'
<1> SUFFICES ASSUME IInv, [Next]_vars PROVE IInv'
  OBVIOUS
<1>1. CASE Efi
  BY <1>1, EfiKeeps
<1>2. CASE \E e \in Payment : ReadReceipt(e)
  BY <1>2, ReadReceiptKeeps
<1>3. CASE \E e \in Payment : ApplyReceipt(e)
  BY <1>3, ApplyReceiptKeeps
<1>4. CASE \E e \in Payment, n \in 1 .. MaxReturns : NoticeReturns(e, n)
  BY <1>4, RecordRefundsKeeps DEF NoticeReturns
<1>5. CASE ReconcileReturns
  BY <1>5, RecordRefundsKeeps DEF ReconcileReturns
<1>6. CASE ReadBill
  BY <1>6, ReadBillKeeps
<1>7. CASE \E fact \in read : ApplyBill(fact)
  BY <1>7, ApplyBillKeeps
<1>8. CASE \E fact \in read : Drop(fact)
  BY <1>8, DropKeeps
<1>9. CASE \E matched \in BOOLEAN : RecordEvidence(matched)
  BY <1>9, RecordEvidenceKeeps
<1>10. CASE \E d \in divergences : \E decision \in Decision[d.code] : Resolve(d, decision)
  BY <1>10, ResolveKeeps
<1>11. CASE UpdateOptions
  BY <1>11, UpdateOptionsKeeps
<1>12. CASE UNCHANGED vars
  <2>1. Ranges /\ Receipts /\ PaidAsTold
    BY DEF IInv
  <2>2. UNCHANGED <<efiVars, charge, bookVars, settlement, divergences>> /\ read' = read
    BY <1>12 DEF vars
  <2> QED
    BY <2>1, <2>2, ReadKeeps DEF Ranges, Receipts, PaidAsTold
<1> QED
  BY <1>1, <1>2, <1>3, <1>4, <1>5, <1>6, <1>7, <1>8, <1>9, <1>10, <1>11, <1>12 DEF Next

(* IInv holds in every state of every behaviour. *)
THEOREM Invariant == Spec => []IInv
<1>1. Init => IInv
  BY InitInv
<1>2. IInv /\ [Next]_vars => IInv'
  BY NextKeeps
<1> QED
  BY <1>1, <1>2, PTL DEF Spec

(* Every receipt recorded is in the books once, whatever tells of it and    *)
(* in which order, unless the books first heard of a return                 *)
(* (recordSettlement, recordDuplicatePayment, isAnotherPayment).            *)
THEOREM ReceiptsAreAccounted == Spec => []AccountedOnce
<1>1. IInv => AccountedOnce
  <2> SUFFICES ASSUME IInv, firstRef # "return", NEW e \in applied
               PROVE  \/ firstRef = e /\ ledger["PAYMENT"] = pix[e] /\ duplicate[e] = 0
                      \/ firstRef \in Payment \ {e} /\ duplicate[e] = pix[e]
    BY DEF AccountedOnce
  <2>1. Ranges /\ Books /\ Receipts
    BY DEF IInv
  <2>2. e \in Payment /\ pix[e] # 0 /\ None \notin Payment \cup Amount
    BY <2>1, AmountAssumption DEF Ranges, Receipts
  <2>3. settlement # NoSettlement /\ firstRef # None
    BY <2>1 DEF Books
  <2>4. method = "PIX" /\ firstRef \in Payment
    BY <2>1, <2>2, <2>3 DEF Receipts
  <2>5. CASE firstRef = e
    <3>1. charge.paid = pix[e] /\ pix[e] \in Amount
      BY <2>1, <2>2, <2>5 DEF Ranges, Receipts
    <3> QED
      BY <2>1, <2>2, <2>3, <2>5, <3>1 DEF Books, Receipts, PaidOf
  <2>6. CASE firstRef # e
    BY <2>1, <2>4, <2>6 DEF Receipts
  <2> QED
    BY <2>5, <2>6
<1> QED
  BY <1>1, Invariant, PTL

(* A reconciled settlement hides no shortfall, excess, duplicate or         *)
(* difference of the fee (refreshSettlement, syncSettlement).               *)
THEOREM ReconciledHidesNothing == Spec => []ReconciledIsClear
<1>1. IInv => ReconciledIsClear
  <2> SUFFICES ASSUME IInv, settlement.status = "RECONCILED"
               PROVE  ReconciledIsClear
    BY DEF ReconciledIsClear
  <2>1. Ranges /\ Books /\ Notes
    BY DEF IInv
  <2>2. settlement # NoSettlement
    BY DEF NoSettlement
  <2>3. settlement.evidence # "PENDING" /\ \A d \in divergences : d.decision # None
    BY <2>1, <2>2 DEF Books, Refreshed
  <2>4. \A e \in Payment : duplicate[e] > 0 => Noted("DUPLICATE_PAYMENT", e)
    BY <2>1 DEF Notes
  <2> QED
    BY <2>1, <2>3, <2>4 DEF ReconciledIsClear, Notes, Evidenced, Below, Above, Changed
<1> QED
  BY <1>1, Invariant, PTL

(* The complementary invoice asks for what is left unpaid                   *)
(* (createComplementaryInvoice), and what is paid never changes after it.   *)
THEOREM ComplementsAreExact == Spec => []ComplementIsTheBalance
<1>1. IInv => ComplementIsTheBalance
  <2> SUFFICES ASSUME IInv, complement # None
               PROVE  charge.paid # None /\ PaidOf(charge) + complement = Gross
    BY DEF ComplementIsTheBalance
  <2>1. charge.paid # None /\ complement = Gross - charge.paid /\ charge.paid \in Nat /\ Gross \in Nat
    BY AmountAssumption DEF IInv, Shortfall, Ranges, Charges
  <2> QED
    BY <2>1 DEF PaidOf
<1> QED
  BY <1>1, Invariant, PTL

(* What was decided stays as it was decided (openDivergence,                *)
(* resolveDivergence).                                                      *)
THEOREM DecisionsAreKept == Spec => DecisionsStand
<1> DEFINE Kept == \A d \in divergences : d.decision # None => d \in divergences'
<1>1. ASSUME IInv, [Next]_vars PROVE Kept
  <2>1. Ranges /\ charge \in Charges
    BY <1>1 DEF IInv, Ranges
  <2>2. ASSUME NEW c \in Charges, NEW k, NEW ref, Sync(c, k, ref) PROVE Kept
    BY <2>1, <2>2, SyncOpens
  <2>3. ASSUME NEW amount \in Amount \cup {None}, NEW ref, Pay(amount, ref) PROVE Kept
    <3> DEFINE paid == IF amount = None THEN charge.paid ELSE amount
               fee == IF paid = None THEN FeeOf(charge) ELSE PlatformFee(paid)
    <3>1. PICK at \in IF charge.paidAt = None THEN {"onTime", "late"} ELSE {charge.paidAt} :
            Sync([status |-> "PAID", paid |-> paid, paidAt |-> at, fee |-> fee], known, ref)
      BY <2>3 DEF Pay
    <3>2. FeeOf(charge) \in Nat
      BY <2>1, Amounts
    <3>3. [status |-> "PAID", paid |-> paid, paidAt |-> at, fee |-> fee] \in Charges
      BY <2>1, <3>2, AmountAssumption DEF Charges
    <3> QED
      BY <2>2, <3>1, <3>3
  <2>4. ASSUME NEW k, RecordRefunds(k) PROVE Kept
    <3> DEFINE becomes == IF Cardinality(k) = PaidOf(charge) THEN "REFUNDED" ELSE "PAID"
    <3>1. [charge EXCEPT !.status = becomes] \in Charges
      BY <2>1 DEF Charges
    <3>2. Sync([charge EXCEPT !.status = becomes], k, "return")
      BY <2>4 DEF RecordRefunds
    <3> QED
      BY <2>2, <3>1, <3>2
  <2>5. ASSUME NEW e \in Payment, ApplyReceipt(e) PROVE Kept
    <3>1. CASE Settled /\ IsAnotherPayment(e)
      <4>1. divergences' = Opened(divergences, "DUPLICATE_PAYMENT", e, pix[e])
        BY <2>5, <3>1 DEF ApplyReceipt, RecordReceipt, RecordDuplicate
      <4> QED
        BY <4>1 DEF Opened
    <3>2. CASE ~(Settled /\ IsAnotherPayment(e))
      <4>1. Pay(pix[e], e)
        BY <2>5, <3>2 DEF ApplyReceipt, RecordReceipt
      <4>2. pix[e] \in Amount
        BY <1>1, <2>1, <2>5 DEF IInv, Receipts, ApplyReceipt, Ranges
      <4> QED
        BY <2>3, <4>1, <4>2
    <3> QED
      BY <3>1, <3>2
  <2>6. ASSUME NEW fact \in read, ApplyBill(fact) PROVE Kept
    <3>1. CASE fact.at = "refunded"
      <4>1. [charge EXCEPT !.status = "REFUNDED"] \in Charges
        BY <2>1 DEF Charges
      <4> QED
        BY <2>2, <2>6, <3>1, <4>1 DEF ApplyBill, RefundBill
    <3>2. CASE fact.at # "refunded"
      <4>1. fact \notin Payment
        BY <1>1, <2>6 DEF IInv, Receipts, ApplyBill
      <4>2. fact.value \in Amount \cup {None}
        BY <2>1, <4>1 DEF Ranges, BillFact
      <4>3. Pay(fact.value, "bill")
        BY <2>6, <3>2 DEF ApplyBill, RecordBill
      <4> QED
        BY <2>3, <4>2, <4>3
    <3> QED
      BY <3>1, <3>2
  <2>7. ASSUME NEW matched \in BOOLEAN, RecordEvidence(matched) PROVE Kept
    BY <2>7 DEF RecordEvidence, OpenedIf, Opened
  <2>8. ASSUME NEW d \in divergences, NEW decision, Resolve(d, decision) PROVE Kept
    BY <2>8 DEF Resolve
  <2>9. CASE Efi
    BY <2>9 DEF Efi
  <2>10. CASE \E e \in Payment : ReadReceipt(e)
    BY <2>10 DEF ReadReceipt
  <2>11. CASE \E e \in Payment, n \in 1 .. MaxReturns : NoticeReturns(e, n)
    BY <2>4, <2>11 DEF NoticeReturns
  <2>12. CASE ReconcileReturns
    BY <2>4, <2>12 DEF ReconcileReturns
  <2>13. CASE ReadBill
    BY <2>13 DEF ReadBill
  <2>14. CASE \E fact \in read : Drop(fact)
    BY <2>14 DEF Drop
  <2>15. CASE UpdateOptions
    BY <2>15 DEF UpdateOptions
  <2>16. CASE UNCHANGED vars
    BY <2>16 DEF vars
  <2> HIDE DEF Kept
  <2> QED
    BY <1>1, <2>5, <2>6, <2>7, <2>8, <2>9, <2>10, <2>11, <2>12, <2>13, <2>14, <2>15, <2>16
       DEF Next
<1>2. IInv /\ [Next]_vars => [Kept]_vars
  BY <1>1
<1> QED
  BY <1>2, Invariant, PTL DEF Spec, DecisionsStand

(***************************************************************************)
(* The sums: what was returned, counted in cents.                          *)
(***************************************************************************)
(* The cents returned by all that was made: what recordPixRefunds can be    *)
(* told of.                                                                 *)
Counts == SUBSET UNION {Back(e, Len(returned[e])) : e \in Payment}

(* The returns known are among those that were made, and only Pix are       *)
(* returned.                                                                *)
Returned ==
  /\ returned \in [Payment -> Seq(Nat \ {0})]
  /\ \A e \in Payment : \A n \in 1 .. Len(returned[e]) :
       returned[e][n] <= returned[e][Len(returned[e])]
  /\ \A e \in Payment : returned[e] # <<>> => method = "PIX"
  /\ known \in Counts
  /\ settlement = NoSettlement => known = {}

(* The charge c agrees with the returns counted by k.                       *)
Agrees(c, k) ==
  /\ RefundedOf(c, k) <= PaidOf(c)
  /\ c.status = "REFUNDED" <=> RefundedOf(c, k) = PaidOf(c)

(* The books balance, and the totals of the ledger are whole cents.         *)
Balance ==
  /\ ledger \in [Kind -> Int]
  /\ BooksBalance

Accounts == Returned /\ Balance

LEMMA BackIsFinite ==
  ASSUME Returned, NEW e \in Payment, NEW n \in 0 .. Len(returned[e])
  PROVE  IsFiniteSet(Back(e, n))
<1>1. CASE n = 0
  BY <1>1, FS_EmptySet DEF Back
<1>2. CASE n # 0
  <2>1. returned[e] \in Seq(Nat \ {0}) /\ n \in 1 .. Len(returned[e])
    BY <1>2 DEF Returned
  <2>2. returned[e][n] \in Nat \ {0}
    BY <2>1
  <2>3. returned[e][n] \in Int /\ 1 \in Int
    BY <2>2
  <2>4. IsFiniteSet(1 .. returned[e][n]) /\ IsFiniteSet({e})
    BY <2>3, FS_Interval, FS_Singleton
  <2> QED
    BY <1>2, <2>4, FS_Product DEF Back
<1> QED
  BY <1>1, <1>2

(* They sum to whole cents, to none when there are none (refundedCents).    *)
LEMMA ReturnsAreCounted ==
  ASSUME Returned, NEW k \in Counts
  PROVE  Cardinality(k) \in Nat /\ (k = {} => Cardinality(k) = 0)
<1> DEFINE backOf == [e \in Payment |-> Back(e, Len(returned[e]))]
           backs == {Back(e, Len(returned[e])) : e \in Payment}
<1>1. IsFiniteSet(Payment)
  BY AmountAssumption
<1>2. backOf \in Surjection(Payment, backs)
  BY DEF Surjection
<1>3. IsFiniteSet(backs)
  BY <1>1, <1>2, FS_Surjection
<1>4. \A e \in Payment : Len(returned[e]) \in 0 .. Len(returned[e])
  BY DEF Returned
<1>5. \A s \in backs : IsFiniteSet(s)
  BY <1>4, BackIsFinite
<1>6. IsFiniteSet(UNION backs)
  BY <1>3, <1>5, FS_UNION
<1>7. IsFiniteSet(k)
  BY <1>6, FS_Subset DEF Counts
<1> QED
  BY <1>7, FS_CardinalityType, FS_EmptySet

(* The returns a notice tells of were made: the total only grows.           *)
LEMMA KnownIsMade ==
  ASSUME Returned, NEW e \in Payment, NEW n \in 1 .. Len(returned[e])
  PROVE  KnownWith(e, n) \in Counts
<1> DEFINE all == Len(returned[e])
<1>1. returned[e] \in Seq(Nat \ {0}) /\ n \in 1 .. all /\ all \in Nat \ {0} /\ n # 0
  BY DEF Returned
<1>2. returned[e][n] \in Nat /\ returned[e][all] \in Nat
  BY <1>1
<1>3. returned[e][n] <= returned[e][all]
  BY DEF Returned
<1>4. 1 .. returned[e][n] \subseteq 1 .. returned[e][all]
  BY <1>2, <1>3
<1>5. Back(e, n) \subseteq Back(e, all)
  BY <1>1, <1>4 DEF Back
<1>6. known \in Counts
  BY DEF Returned
<1> HIDE DEF all
<1> QED
  BY <1>5, <1>6 DEF KnownWith, Counts, all

(* Never is more fee returned than there is (proportionalReversal).         *)
LEMMA ReversalIsWithinTheFee ==
  ASSUME NEW fee \in Nat, NEW refunded \in Nat, NEW paid \in Nat
  PROVE  ProportionalReversal(fee, refunded, paid) \in 0 .. fee
<1>1. CASE fee <= 0 \/ refunded <= 0 \/ paid <= 0
  BY <1>1 DEF ProportionalReversal
<1>2. CASE ~(fee <= 0 \/ refunded <= 0 \/ paid <= 0) /\ refunded >= paid
  BY <1>2 DEF ProportionalReversal
<1>3. CASE ~(fee <= 0 \/ refunded <= 0 \/ paid <= 0) /\ ~(refunded >= paid)
  <2> DEFINE rounded == (2 * fee * refunded + paid) \div (2 * paid)
  <2>1. \A a \in Nat, b \in Nat \ {0} : a \div b \in Nat
    OBVIOUS
  <2>2. 2 * fee * refunded + paid \in Nat /\ 2 * paid \in Nat \ {0}
    BY <1>3
  <2>3. rounded \in Nat
    BY <2>1, <2>2
  <2>4. ProportionalReversal(fee, refunded, paid) = IF rounded < fee THEN rounded ELSE fee
    BY <1>3 DEF ProportionalReversal
  <2> HIDE DEF rounded
  <2> QED
    BY <2>3, <2>4
<1> QED
  BY <1>1, <1>2, <1>3

(* A sync leaves the books balanced when the charge agrees with the returns.*)
LEMMA SyncBalances ==
  ASSUME IInv, Accounts, NEW c \in Charges, NEW k \in Counts, NEW ref,
         Agrees(c, k), Sync(c, k, ref), UNCHANGED efiVars
  PROVE  Accounts'
<1> DEFINE refunds == RefundedOf(c, k)
           target == Targets(c, k)
<1>1. Ranges /\ Returned /\ ledger \in [Kind -> Int]
  BY DEF IInv, Accounts, Balance
<1>2. /\ charge' = c /\ settlement' # NoSettlement /\ settlement'.due = FeeOf(c)
      /\ known' = k /\ returned' = returned /\ method' = method
  BY <1>1, SyncSettles DEF Sync, efiVars
<1>3. PaidOf(c) \in Nat /\ FeeOf(c) \in Nat /\ Cardinality(k) \in Nat
  BY <1>1, Amounts, ReturnsAreCounted
<1>4. refunds \in Nat
  BY <1>3 DEF RefundedOf
<1>5. Returned'
  <2>1. Counts' = Counts
    BY <1>2 DEF Counts, Back
  <2> QED
    BY <1>1, <1>2, <2>1 DEF Returned
<1>6. /\ target.PAYMENT = PaidOf(c) /\ target.PLATFORM_FEE = -FeeOf(c)
      /\ target.REFUND = -refunds
      /\ target.PLATFORM_FEE_REVERSAL =
           IF option THEN ProportionalReversal(FeeOf(c), refunds, PaidOf(c)) ELSE 0
  BY DEF Targets
<1>7. ProportionalReversal(FeeOf(c), refunds, PaidOf(c)) \in 0 .. FeeOf(c)
  BY <1>3, <1>4, ReversalIsWithinTheFee
<1>8. target.PLATFORM_FEE_REVERSAL \in 0 .. FeeOf(c)
  BY <1>3, <1>6, <1>7
<1>9. \A kind \in Kind : target[kind] \in Int
  <2>1. target["PAYMENT"] \in Int /\ target["PLATFORM_FEE"] \in Int
        /\ target["REFUND"] \in Int /\ target["PLATFORM_FEE_REVERSAL"] \in Int
    BY <1>3, <1>4, <1>6, <1>8
  <2> HIDE DEF target
  <2> QED
    BY <2>1 DEF Kind
<1> HIDE DEF target, refunds
<1>10. ledger' = [kind \in Kind |-> ledger[kind] + Entry(ledger[kind], target[kind])]
  BY DEF Sync, target
<1>11. \A kind \in Kind : ledger'[kind] = target[kind]
  BY <1>1, <1>9, <1>10 DEF Entry
<1>12. ledger' \in [Kind -> Int]
  BY <1>9, <1>10, <1>11
<1>13. /\ ledger'["PAYMENT"] = PaidOf(c) /\ ledger'["PLATFORM_FEE"] = -FeeOf(c)
       /\ ledger'["REFUND"] = -refunds
       /\ ledger'["PLATFORM_FEE_REVERSAL"] \in 0 .. FeeOf(c)
  BY <1>6, <1>8, <1>11 DEF Kind
<1>14. RefundedOf(charge, known)' = refunds /\ PaidOf(charge)' = PaidOf(c)
       /\ FeeOf(charge)' = FeeOf(c)
  BY <1>2 DEF RefundedOf, PaidOf, FeeOf, refunds
<1>15. BooksBalance'
  BY <1>2, <1>3, <1>4, <1>13, <1>14 DEF BooksBalance, Agrees, refunds
<1> QED
  BY <1>5, <1>12, <1>15 DEF Accounts, Balance

(* What neither syncs nor makes returns leaves the books as they are.       *)
LEMMA BooksStand ==
  ASSUME Accounts,
         UNCHANGED <<method, returned, charge, known, ledger>>,
         settlement'.due = settlement.due,
         settlement' = NoSettlement <=> settlement = NoSettlement
  PROVE  Accounts'
<1>1. Returned'
  BY DEF Accounts, Returned, Counts, Back
<1>2. RefundedOf(charge, known)' = RefundedOf(charge, known)
      /\ PaidOf(charge)' = PaidOf(charge) /\ FeeOf(charge)' = FeeOf(charge)
  BY DEF RefundedOf, PaidOf, FeeOf
<1>3. Balance'
  BY <1>2 DEF Accounts, Balance, BooksBalance
<1> QED
  BY <1>1, <1>3 DEF Accounts

(* A payment of this amount finds no returns of another one.                *)
Fits(amount) ==
  \/ settlement = NoSettlement
  \/ known = {}
  \/ amount \in {None, charge.paid}

(* A payment is recorded while less than it was returned.                   *)
LEMMA PayBalances ==
  ASSUME IInv, Accounts, NEW amount \in Amount \cup {None}, NEW ref, Pay(amount, ref),
         UNCHANGED efiVars, charge.status # "REFUNDED", Fits(amount)
  PROVE  Accounts'
<1> DEFINE paid == IF amount = None THEN charge.paid ELSE amount
           dates == IF charge.paidAt = None THEN {"onTime", "late"} ELSE {charge.paidAt}
<1>1. Ranges /\ Books /\ charge \in Charges /\ Returned /\ Balance
  BY DEF IInv, Ranges, Accounts
<1>2. PICK at \in dates :
        Sync([status |-> "PAID", paid |-> paid, paidAt |-> at,
              fee |-> IF paid = None THEN FeeOf(charge) ELSE PlatformFee(paid)], known, ref)
  BY DEF Pay
<1> DEFINE c == [status |-> "PAID", paid |-> paid, paidAt |-> at,
                 fee |-> IF paid = None THEN FeeOf(charge) ELSE PlatformFee(paid)]
<1>3. paid \in Amount \cup {None} /\ at \in {"onTime", "late"}
  BY <1>1, <1>2, NamesAssumption DEF Charges
<1>4. FeeOf(charge) \in Nat
  BY <1>1, Amounts
<1>5. c \in Charges /\ c.status = "PAID" /\ c.paid = paid
  BY <1>3, <1>4, AmountAssumption DEF Charges
<1> HIDE DEF c
<1>6. known \in Counts
  BY <1>1 DEF Returned, Counts
<1>7. Cardinality(known) \in Nat /\ PaidOf(c) \in Nat \ {0}
  BY <1>1, <1>3, <1>5, <1>6, ReturnsAreCounted, AmountAssumption DEF PaidOf
<1>8. Cardinality(known) < PaidOf(c)
  <2>1. CASE known = {}
    <3>1. Cardinality(known) = 0
      BY <1>1, <1>6, <2>1, ReturnsAreCounted
    <3> QED
      BY <1>7, <3>1
  <2>2. CASE settlement = NoSettlement
    BY <1>1, <2>1, <2>2 DEF Returned
  <2>3. CASE settlement # NoSettlement /\ amount \in {None, charge.paid}
    <3>1. PaidOf(c) = PaidOf(charge)
      BY <1>5, <2>3 DEF PaidOf
    <3>2. RefundedOf(charge, known) = Cardinality(known)
      BY DEF RefundedOf
    <3>3. Cardinality(known) <= PaidOf(charge) /\ Cardinality(known) # PaidOf(charge)
      BY <1>1, <2>3, <3>2 DEF Balance, BooksBalance
    <3> QED
      BY <1>7, <3>1, <3>3
  <2> QED
    BY <2>1, <2>2, <2>3 DEF Fits
<1>9. Agrees(c, known)
  BY <1>5, <1>7, <1>8 DEF Agrees, RefundedOf
<1>10. Sync(c, known, ref)
  BY <1>2 DEF c
<1> QED
  BY <1>5, <1>6, <1>9, <1>10, SyncBalances

(* Returns are recorded up to what was paid, and all of it refunds.         *)
LEMMA RecordRefundsBalances ==
  ASSUME IInv, Accounts, NEW k \in Counts, RecordRefunds(k), UNCHANGED efiVars
  PROVE  Accounts'
<1> DEFINE becomes == IF Cardinality(k) = PaidOf(charge) THEN "REFUNDED" ELSE "PAID"
           c == [charge EXCEPT !.status = becomes]
<1>1. charge \in Charges /\ Returned
  BY DEF IInv, Ranges, Accounts
<1>2. becomes \in {"PAID", "REFUNDED"}
  OBVIOUS
<1>3. c \in Charges /\ c.status = becomes /\ PaidOf(c) = PaidOf(charge)
  <2> HIDE DEF becomes
  <2> QED
    BY <1>1, <1>2 DEF Charges, PaidOf
<1>4. Cardinality(k) \in Nat /\ PaidOf(charge) \in Nat \ {0} /\ Cardinality(k) <= PaidOf(charge)
  BY <1>1, ReturnsAreCounted, AmountAssumption DEF RecordRefunds, PaidOf, Charges
<1>5. Agrees(c, k)
  <2>1. CASE Cardinality(k) = PaidOf(charge)
    BY <1>3, <1>4, <2>1 DEF Agrees, RefundedOf
  <2>2. CASE Cardinality(k) # PaidOf(charge)
    BY <1>3, <1>4, <2>2 DEF Agrees, RefundedOf
  <2> QED
    BY <2>1, <2>2
<1>6. Sync(c, k, "return")
  BY DEF RecordRefunds
<1> HIDE DEF c
<1> QED
  BY <1>3, <1>5, <1>6, SyncBalances

(* The two lemmas above for the steps that sync, BooksStand for the others, *)
(* and a return made at Efi adds nothing to the returns known.              *)
LEMMA NextBalances ==
  ASSUME IInv, Accounts, [Next]_vars
  PROVE  Accounts'
<1>1. Ranges /\ Books /\ Receipts /\ PaidAsTold /\ Returned /\ Balance
  BY DEF IInv, Accounts
<1>2. ASSUME UNCHANGED <<method, returned, charge, known, ledger, settlement>>
      PROVE  Accounts'
  BY <1>2, BooksStand
<1>3. ASSUME settlement'.due = settlement.due, settlement'.status # "ABSENT",
             settlement # NoSettlement,
             UNCHANGED <<method, returned, charge, known, ledger>>
      PROVE  Accounts'
  BY <1>3, BooksStand DEF NoSettlement
<1>4. \A evidence, ds : Refreshed(evidence, ds) # "ABSENT"
  BY DEF Refreshed
<1>5. CASE Efi
  <2>1. UNCHANGED <<charge, known, ledger, settlement>>
    BY <1>5 DEF Efi, bookVars
  <2>2. CASE \E e \in Payment, a \in Amount : Return(e, a)
    <3>1. PICK e \in Payment, a \in Amount : Return(e, a)
      BY <2>2
    <3> DEFINE all == (IF returned[e] = <<>> THEN 0 ELSE Last(returned[e])) + a
    <3>2. /\ returned' = [returned EXCEPT ![e] = Append(@, all)]
          /\ method = "PIX" /\ method' = method /\ all <= pix[e]
      BY <3>1 DEF Return
    <3> DEFINE old == Len(returned[e])
    <3>3. /\ returned[e] \in Seq(Nat \ {0}) /\ old \in Nat /\ a \in Nat \ {0}
          /\ returned[e] # <<>> => old \in 1 .. old /\ Last(returned[e]) = returned[e][old]
          /\ returned[e] = <<>> => old = 0
      BY <1>1, AmountAssumption DEF Returned, Last
    <3>4. all \in Nat \ {0} /\ \A n \in 1 .. old : returned[e][n] <= all
      <4>1. CASE returned[e] = <<>>
        BY <3>3, <4>1
      <4>2. CASE returned[e] # <<>>
        <5>1. returned[e][old] \in Nat \ {0} /\ all = returned[e][old] + a
          BY <3>3, <4>2
        <5>2. \A n \in 1 .. old : returned[e][n] \in Nat /\ returned[e][n] <= returned[e][old]
          BY <1>1, <3>3 DEF Returned
        <5> HIDE DEF all, old
        <5> QED
          BY <3>3, <5>1, <5>2
      <4> QED
        BY <4>1, <4>2
    <3> HIDE DEF all
    <3>5. /\ returned'[e] = Append(returned[e], all)
          /\ returned'[e] \in Seq(Nat \ {0})
          /\ Len(returned'[e]) = old + 1 /\ returned'[e][old + 1] = all
          /\ \A n \in 1 .. old : returned'[e][n] = returned[e][n]
      BY <1>1, <3>2, <3>3, <3>4 DEF Returned
    <3>6. \A x \in Payment \ {e} : returned'[x] = returned[x]
      BY <1>1, <3>2 DEF Returned
    <3>7. \A n \in 1 .. old + 1 : returned'[e][n] <= returned'[e][old + 1]
      BY <3>3, <3>4, <3>5
    <3>8. Back(e, old) \subseteq Back(e, Len(returned[e]))'
      <4>1. CASE old = 0
        BY <4>1 DEF Back
      <4>2. CASE old # 0
        <5>1. returned[e][old] <= all /\ returned[e][old] \in Nat /\ old + 1 # 0
          BY <3>3, <3>4, <4>2
        <5>2. 1 .. returned[e][old] \subseteq 1 .. all
          BY <3>4, <5>1
        <5>3. Back(e, Len(returned[e]))' = {e} \X (1 .. all)
          BY <3>5, <5>1 DEF Back
        <5> QED
          BY <4>2, <5>2, <5>3 DEF Back
      <4> QED
        BY <4>1, <4>2
    <3>9. \A x \in Payment : Back(x, Len(returned[x])) \subseteq Back(x, Len(returned[x]))'
      BY <3>6, <3>8 DEF Back
    <3>10. Counts \subseteq Counts'
      BY <3>9 DEF Counts
    <3>11. Returned'
      <4>1. returned' \in [Payment -> Seq(Nat \ {0})]
        BY <1>1, <3>2, <3>5, <3>6 DEF Returned
      <4>2. \A x \in Payment : \A n \in 1 .. Len(returned'[x]) :
              returned'[x][n] <= returned'[x][Len(returned'[x])]
        BY <1>1, <3>5, <3>6, <3>7 DEF Returned
      <4> QED
        BY <1>1, <2>1, <3>2, <3>10, <4>1, <4>2 DEF Returned
    <3>12. RefundedOf(charge, known)' = RefundedOf(charge, known)
           /\ PaidOf(charge)' = PaidOf(charge) /\ FeeOf(charge)' = FeeOf(charge)
      BY <2>1 DEF RefundedOf, PaidOf, FeeOf
    <3>13. Balance'
      BY <1>1, <2>1, <3>12 DEF Balance, BooksBalance
    <3> QED
      BY <3>11, <3>13 DEF Accounts
  <2>3. CASE \/ \E e \in Payment, a \in Amount : Receive(e, a)
             \/ MoveBill
    BY <1>2, <2>1, <2>3 DEF Receive, MoveBill
  <2> QED
    BY <1>5, <2>2, <2>3 DEF Efi
<1>6. CASE \E e \in Payment : ReadReceipt(e)
  BY <1>2, <1>6 DEF ReadReceipt, efiVars, bookVars
<1>7. CASE \E e \in Payment : ApplyReceipt(e)
  <2>1. PICK e \in Payment : ApplyReceipt(e)
    BY <1>7
  <2>2. e \in read /\ RecordReceipt(e) /\ UNCHANGED efiVars
    BY <2>1 DEF ApplyReceipt
  <2>3. CASE Settled /\ IsAnotherPayment(e)
    <3>1. settlement # NoSettlement
      BY <1>1, <2>3 DEF Books, Settled
    <3>2. /\ settlement' = [settlement EXCEPT !.status = Refreshed(settlement.evidence, divergences')]
          /\ UNCHANGED <<charge, known, ledger>>
      BY <2>2, <2>3 DEF RecordReceipt, RecordDuplicate
    <3>3. settlement'.due = settlement.due /\ settlement'.status # "ABSENT"
      BY <1>1, <1>4, <3>2 DEF Ranges, Settlements
    <3> QED
      BY <1>3, <2>2, <3>1, <3>2, <3>3 DEF efiVars
  <2>4. CASE ~(Settled /\ IsAnotherPayment(e))
    <3>1. charge.status # "REFUNDED" /\ Pay(pix[e], e)
      BY <2>2, <2>4 DEF RecordReceipt
    <3>2. pix[e] \in Amount
      BY <1>1, <2>2 DEF Ranges, Receipts
    <3>3. settlement # NoSettlement => charge.paid = pix[e]
      <4> SUFFICES ASSUME settlement # NoSettlement PROVE charge.paid = pix[e]
        OBVIOUS
      <4>1. Settled /\ firstRef # None
        BY <1>1 DEF Books, Settled, Ranges, Charges
      <4>2. firstRef = e
        BY <2>4, <4>1 DEF IsAnotherPayment
      <4> QED
        BY <1>1, <4>2 DEF Receipts
    <3>4. Fits(pix[e])
      BY <3>3 DEF Fits
    <3>5. pix[e] \in Amount \cup {None}
      BY <3>2
    <3> QED
      BY <2>2, <3>1, <3>4, <3>5, PayBalances
  <2> QED
    BY <2>3, <2>4
<1>8. CASE \E e \in Payment, n \in 1 .. MaxReturns : NoticeReturns(e, n)
  <2>1. PICK e \in Payment, n \in 1 .. MaxReturns : NoticeReturns(e, n)
    BY <1>8
  <2>2. n \in 1 .. Len(returned[e]) /\ RecordRefunds(KnownWith(e, n)) /\ UNCHANGED efiVars
    BY <2>1 DEF NoticeReturns
  <2>3. KnownWith(e, n) \in Counts
    BY <1>1, <2>2, KnownIsMade
  <2> QED
    BY <2>2, <2>3, RecordRefundsBalances
<1>9. CASE ReconcileReturns
  <2> DEFINE all == known \cup UNION {Back(e, Len(returned[e])) : e \in Payment}
  <2>1. all \in Counts
    BY <1>1 DEF Counts, Returned
  <2>2. RecordRefunds(all) /\ UNCHANGED efiVars
    BY <1>9 DEF ReconcileReturns
  <2> HIDE DEF all
  <2> QED
    BY <2>1, <2>2, RecordRefundsBalances
<1>10. CASE ReadBill
  BY <1>2, <1>10 DEF ReadBill, efiVars, bookVars
<1>11. CASE \E fact \in read : ApplyBill(fact)
  <2>1. PICK fact \in read : ApplyBill(fact)
    BY <1>11
  <2>2. method = "BOLIX" /\ UNCHANGED efiVars
    BY <2>1 DEF ApplyBill
  <2>3. known = {}
    BY <1>1, <2>2 DEF Returned, Counts, Back
  <2>4. known \in Counts
    BY <1>1 DEF Returned, Counts
  <2>5. CASE fact.at = "refunded"
    <3> DEFINE c == [charge EXCEPT !.status = "REFUNDED"]
    <3>1. c \in Charges /\ c.status = "REFUNDED"
      BY <1>1 DEF Ranges, Charges
    <3>2. Sync(c, known, "refunded")
      BY <2>1, <2>5 DEF ApplyBill, RefundBill
    <3> HIDE DEF c
    <3>3. Cardinality(known) = 0 /\ PaidOf(c) \in Nat
      BY <1>1, <2>3, <2>4, <3>1, ReturnsAreCounted, Amounts
    <3>4. Agrees(c, known)
      BY <2>3, <3>1, <3>3 DEF Agrees, RefundedOf
    <3> QED
      BY <2>2, <2>4, <3>1, <3>2, <3>4, SyncBalances
  <2>6. CASE fact.at # "refunded"
    <3>1. charge.status # "REFUNDED" /\ Pay(fact.value, "bill")
      BY <2>1, <2>6 DEF ApplyBill, RecordBill
    <3>2. fact.value \in Amount \cup {None}
      <4>1. fact \notin Payment
        BY <1>1, <2>1, <2>2 DEF Receipts
      <4> QED
        BY <1>1, <2>1, <4>1 DEF Ranges, BillFact
    <3>3. Fits(fact.value)
      BY <2>3 DEF Fits
    <3> QED
      BY <2>2, <3>1, <3>2, <3>3, PayBalances
  <2> QED
    BY <2>5, <2>6
<1>12. CASE \E fact \in read : Drop(fact)
  BY <1>2, <1>12 DEF Drop, efiVars, bookVars
<1>13. CASE \E matched \in BOOLEAN : RecordEvidence(matched)
  <2>1. PICK matched \in BOOLEAN : RecordEvidence(matched)
    BY <1>13
  <2>2. settlement # NoSettlement
    BY <2>1 DEF RecordEvidence, NoSettlement
  <2>3. UNCHANGED <<efiVars, charge, bookVars>>
    BY <2>1 DEF RecordEvidence
  <2> DEFINE evidence == IF matched THEN "CONFIRMED" ELSE "MISMATCH"
  <2>4. settlement' = [settlement EXCEPT !.evidence = evidence, !.backed = settlement.due,
                                         !.status = Refreshed(evidence, divergences')]
    BY <2>1 DEF RecordEvidence
  <2>5. settlement'.due = settlement.due /\ settlement'.status # "ABSENT"
    <3> HIDE DEF evidence
    <3> QED
      BY <1>1, <1>4, <2>4 DEF Ranges, Settlements
  <2> QED
    BY <1>3, <2>2, <2>3, <2>5 DEF efiVars, bookVars
<1>14. CASE \E d \in divergences : \E decision \in Decision[d.code] : Resolve(d, decision)
  <2>1. PICK d \in divergences : \E decision \in Decision[d.code] : Resolve(d, decision)
    BY <1>14
  <2>2. settlement # NoSettlement
    BY <1>1, <2>1 DEF Books
  <2>3. UNCHANGED <<efiVars, charge, known, ledger>>
        /\ settlement' = [settlement EXCEPT
                            !.status = Refreshed(settlement.evidence, divergences')]
    BY <2>1 DEF Resolve
  <2>4. settlement'.due = settlement.due /\ settlement'.status # "ABSENT"
    BY <1>1, <1>4, <2>3 DEF Ranges, Settlements
  <2> QED
    BY <1>3, <2>2, <2>3, <2>4 DEF efiVars
<1>15. CASE UpdateOptions
  BY <1>2, <1>15 DEF UpdateOptions, efiVars, bookVars
<1>16. CASE UNCHANGED vars
  BY <1>2, <1>16 DEF vars, efiVars, bookVars
<1> QED
  BY <1>5, <1>6, <1>7, <1>8, <1>9, <1>10, <1>11, <1>12, <1>13, <1>14, <1>15, <1>16 DEF Next

(* Accounts holds in every state, given IInv in each.                       *)
THEOREM AccountsStand == Spec => []Accounts
<1>1. Init => Accounts
  <2> SUFFICES ASSUME Init PROVE Accounts
    OBVIOUS
  <2>1. returned \in [Payment -> Seq(Nat \ {0})] /\ known = {}
        /\ \A e \in Payment : returned[e] = <<>>
    BY DEF Init
  <2>2. Returned
    BY <2>1 DEF Returned, Counts
  <2>3. Balance
    BY DEF Init, Balance, BooksBalance
  <2> QED
    BY <2>2, <2>3 DEF Accounts
<1>2. IInv /\ Accounts /\ [Next]_vars => Accounts'
  BY NextBalances
<1> QED
  BY <1>1, <1>2, Invariant, PTL DEF Spec

(* The ledger's entries add up to the payment, the fee due and the returns  *)
(* known of any Pix, and a charge is refunded exactly when those returns    *)
(* reach what it says was paid (syncSettlement, refundedCents,              *)
(* recordPixRefunds).                                                       *)
THEOREM BooksAreBalanced == Spec => []BooksBalance
<1>1. Accounts => BooksBalance
  BY DEF Accounts, Balance
<1> QED
  BY <1>1, AccountsStand, PTL

(* Statuses are those of the schema, what is known was returned, and each   *)
(* occurrence of a divergence is listed once (openDivergence).              *)
THEOREM TypeCorrect == Spec => []TypeOK
<1>1. IInv /\ Accounts /\ method \in Method => TypeOK
  BY DEF IInv, Ranges, Shaped, Accounts, Returned, Counts, Balance, TypeOK, Fact, BillFact,
         Charges, Settlements
<1>2. Init => method \in Method
  BY DEF Init
<1>3. IInv /\ method \in Method /\ [Next]_vars => (method \in Method)'
  BY DEF Next, vars, efiVars, Efi, Receive, Return, MoveBill, ReadReceipt, ApplyReceipt,
         NoticeReturns, ReconcileReturns, ReadBill, ApplyBill, Drop, RecordEvidence,
         Resolve, UpdateOptions
<1> QED
  BY <1>1, <1>2, <1>3, Invariant, AccountsStand, PTL DEF Spec
=============================================================================
