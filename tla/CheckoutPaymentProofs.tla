------------------------ MODULE CheckoutPaymentProofs ------------------------
(***************************************************************************)
(* Proofs about CheckoutPayment, for any number of tries, requests,        *)
(* readings and stops: one try at a time, nothing that was paid is given   *)
(* up, and the order implements the sale that CheckoutSale promises. Then  *)
(* about what follows a payment, as MCCheckout puts it together: refunds   *)
(* add up, a notice is in one hand, an offer is answered once.             *)
(***************************************************************************)
EXTENDS MCCheckout, FiniteSetTheorems, SequenceTheorems, WellFoundedInduction, TLAPS

Closed == {"EXPIRED", "FAILED", "DECLINED"}
\* A charge that is or may still be paid.
Alive == {"coming", "approved", "paid"}

(* An order is paid in one way: the other's rows are never made.            *)
OneWay ==
  /\ method = "CARD" => pix = "NONE" /\ caller = "done" /\ efiPix = "none" /\ found = {}
  /\ method = "PIX" => made = 0 /\ asked = {}
  /\ asked # {} => age < 2

(* What the request that creates the Pix and its row say of the Pix.        *)
PixIsKnown ==
  /\ caller = "calling" => efiPix = "none" /\ age = 0
  /\ caller # "done" => pix = "CREATING"
  /\ caller = "rejected" => efiPix = "none"
  /\ efiPix = "coming" => age = 0
  /\ pix = "FAILED" => efiPix = "none" /\ caller # "calling"
  /\ pix = "EXPIRED" => age = 3 /\ efiPix # "paid"
  /\ pix = "PAID" => efiPix = "paid"
  /\ efiPix = "paid" => caller = "done"

(* A reading of the Pix is true when it is applied, however late.           *)
PixReadingsHold ==
  \A f \in found :
    /\ f.saw = "paid" => efiPix = "paid"
    /\ f.late => age > 0
    /\ f.late /\ f.saw = "none" => efiPix = "none"
    /\ f.by = "overdue" => age = 3 /\ (f.saw # "paid" => efiPix # "paid")

(* Tries are made in order; one is sent before it has a charge, and Efi     *)
(* handles what it received before a look can miss it.                      *)
SentInTime ==
  \A n \in Try :
    /\ n > made <=> try[n] = "NONE"
    /\ n > made => sender[n] = "done" /\ charge[n] = "none"
    /\ sender[n] = "ready" => try[n] = "SUBMITTING" /\ charge[n] = "none"
    /\ sender[n] = "ready" \/ charge[n] = "coming" => age <= born[n] + 1

(* A try ends as its charge did.                                            *)
EndsAsItsCharge ==
  \A n \in Try :
    /\ charge[n] \in Alive => try[n] \in Busy \cup {"PAID"}
    /\ try[n] = "PAID" => charge[n] = "paid"
    /\ try[n] = "DECLINED" => charge[n] = "unpaid"
    /\ try[n] = "CANCELED" => charge[n] \in {"canceled", "none"}

(* A reading of a charge is true when it is applied.                        *)
ReadingsHold ==
  \A o \in sees :
    /\ o.saw = "approved" => charge[o.of] \in Told
    /\ o.saw \in {"paid", "cleared"} => charge[o.of] = "paid"
    /\ o.saw \in {"unpaid", "canceled"} => charge[o.of] = o.saw

(* At most one try is paid, also counting the one cleared to be.            *)
OnePays ==
  /\ \A n, m \in Try : try[n] = "PAID" /\ try[m] = "PAID" => n = m
  /\ \A o \in sees : o.saw = "cleared" => \A m \in Try : try[m] = "PAID" => m = o.of

(* The order is paid exactly when its Pix or a try is, and sold once.       *)
SoldAsPaid ==
  /\ order = "PAID" <=> pix = "PAID" \/ \E n \in Try : try[n] = "PAID"
  /\ order = "PAID" <=> sale # None
  /\ settled = IF order = "PAID" THEN 1 ELSE 0

(* No payment can reach an order that was closed.                           *)
ClosedForGood ==
  order \in Closed =>
    /\ NoneBusy
    /\ efiPix # "paid"
    /\ age = 3 \/ (method = "PIX" /\ efiPix = "none" /\ caller # "calling")

IInv ==
  /\ TypeOK
  /\ OneWay
  /\ PixIsKnown
  /\ PixReadingsHold
  /\ SentInTime
  /\ EndsAsItsCharge
  /\ ReadingsHold
  /\ OneTryAtATime
  /\ OnePays
  /\ SoldAsPaid
  /\ ClosedForGood

USE DEF Try, Age, Busy, Final, Told, Alive, Closed, NoneBusy, orderVars, pixVars, tryVars, cardVars

-----------------------------------------------------------------------------
(* The numbers the steps compare.                                           *)
LEMMA Numbers ==
  ASSUME IInv
  PROVE  /\ age \in 0 .. 3 /\ made \in Nat /\ made <= MaxTries /\ MaxTries \in Nat
         /\ \A n \in Try : born[n] \in 0 .. 3
BY BoundsAssumption DEF IInv, TypeOK

LEMMA TotalTyped == IInv => total \in Total /\ None \notin Total
BY TotalAssumption DEF IInv, TypeOK

LEMMA SeenTyped == IInv => \A o \in sees : o.of \in Try /\ o.saw \in Told \cup {"cleared"}
BY DEF IInv, TypeOK

(* An order with anything of a Pix has no tries.                            *)
LEMMA PixOnly ==
  ASSUME IInv, pix # "NONE" \/ caller # "done" \/ efiPix # "none" \/ found # {}
  PROVE  /\ method = "PIX" /\ asked = {}
         /\ \A n \in Try : try[n] = "NONE" /\ sender[n] = "done" /\ charge[n] = "none"
<1>1. method = "PIX"
  BY MethodAssumption DEF IInv, TypeOK, OneWay
<1>. QED  BY <1>1, Numbers DEF IInv, OneWay, SentInTime

(* An order with a try has nothing of a Pix.                                *)
LEMMA CardOnly ==
  ASSUME IInv, made # 0 \/ asked # {}
  PROVE  method = "CARD" /\ pix = "NONE" /\ efiPix = "none"
BY MethodAssumption DEF IInv, TypeOK, OneWay

(* A Pix found paid makes the sale, or had made it.                         *)
Sells(amount) ==
  /\ order # "PAID" /\ sale = None /\ settled = 0
  /\ order' = "PAID" /\ total' = amount /\ sale' = amount /\ settled' = 1

LEMMA ConfirmSells ==
  ASSUME IInv, efiPix = "paid", Confirm
  PROVE  \/ UNCHANGED <<pix, orderVars>>
         \/ pix # "PAID" /\ pix' = "PAID" /\ Sells(total)
<1>1. CASE pix = "PAID"
  BY <1>1 DEF Confirm
<1>2. CASE pix # "PAID"
  <2>1. order # "PAID" /\ sale = None /\ settled = 0
    BY <1>2, PixOnly DEF IInv, SoldAsPaid
  <2>. QED  BY <1>2, <2>1 DEF Confirm, Settle, Sells
<1>. QED  BY <1>1, <1>2

\* Only the try n changes.
OneTry(n, now) ==
  /\ try' \in [Try -> TryStatus] /\ try'[n] = now
  /\ \A m \in Try : m # n => try'[m] = try[m]

LEMMA BecomesOne ==
  ASSUME TypeOK, NEW n \in Try, NEW from, NEW now \in TryStatus, Becomes(n, from, now)
  PROVE  OneTry(n, IF try[n] \in from THEN now ELSE try[n])
BY DEF TypeOK, Becomes, OneTry

LEMMA OneTrySame ==
  ASSUME TypeOK, NEW n \in Try, OneTry(n, try[n])
  PROVE  UNCHANGED try
<1>1. try = [m \in Try |-> try[m]] /\ try' = [m \in Try |-> try'[m]]
  BY DEF TypeOK, OneTry
<1>2. \A m \in Try : try'[m] = try[m]
  BY DEF OneTry
<1>. QED  BY <1>1, <1>2

LEMMA UncertainOne ==
  ASSUME TypeOK, NEW n \in Try, Uncertain(n)
  PROVE  OneTry(n, IF try[n] = "SUBMITTING" THEN "UNCERTAIN" ELSE try[n])
BY DEF TypeOK, TryStatus, Uncertain, OneTry

-----------------------------------------------------------------------------
(* The steps of the sale that CheckoutSale promises, as those of the order. *)
SaleStep == [Sale!Next]_(Sale!vars)

\* Nothing is paid, and nothing that was paid is changed.
PaidSame ==
  /\ efiPix' = "paid" <=> efiPix = "paid"
  /\ efiPix = "paid" => total' = total
  /\ \A n \in Try : charge'[n] = "paid" <=> charge[n] = "paid"
  /\ \A n \in Try : charge[n] = "paid" => price'[n] = price[n]

LEMMA SamePaid == PaidSame => PaidAtEfi' = PaidAtEfi
BY DEF PaidSame, PaidAtEfi

LEMMA QuietStep ==
  ASSUME PaidSame, UNCHANGED <<order, sale, settled>>
  PROVE  SaleStep
BY SamePaid DEF SaleStep, Sale!vars

LEMMA PayStep ==
  ASSUME NEW amount \in Total, PaidAtEfi' = PaidAtEfi \cup {amount},
         UNCHANGED <<order, sale, settled>>
  PROVE  SaleStep
BY DEF SaleStep, Sale!Next, Sale!Pay

LEMMA CloseStep ==
  ASSUME PaidSame, PaidAtEfi = {}, order = "PENDING", order' \in Closed,
         UNCHANGED <<sale, settled>>
  PROVE  SaleStep
BY SamePaid DEF SaleStep, Sale!Next, Sale!Close

LEMMA SellStep ==
  ASSUME PaidSame, NEW amount \in Total, amount \in PaidAtEfi, Sells(amount)
  PROVE  SaleStep
BY SamePaid DEF SaleStep, Sale!Next, Sale!Sell, Sells
-----------------------------------------------------------------------------

(* The one call that creates the Pix: nothing of it was at Efi before.      *)
LEMMA CallPixKeeps ==
  ASSUME IInv, CallPix
  PROVE  IInv' /\ SaleStep
<1>a. /\ caller = "calling" /\ efiPix' \in {"none", "coming", "active"}
      /\ caller' \in {"created", "rejected", "lost"} /\ (caller' = "rejected" => efiPix' = "none")
      /\ UNCHANGED <<stops, method, age, orderVars, pix, found, cardVars>>
  BY DEF CallPix
<1>1. TypeOK'
  BY <1>a DEF IInv, TypeOK
<1>2. OneWay'
  BY <1>a DEF IInv, OneWay
<1>3. PixIsKnown'
  BY <1>a DEF IInv, PixIsKnown
<1>4. PixReadingsHold'
  BY <1>a DEF IInv, PixReadingsHold, PixIsKnown
<1>5. ClosedForGood'
  BY <1>a DEF IInv, ClosedForGood
<1>6. SentInTime' /\ EndsAsItsCharge' /\ ReadingsHold' /\ OneTryAtATime' /\ OnePays'
      /\ SoldAsPaid'
  BY <1>a DEF IInv, SentInTime, EndsAsItsCharge, ReadingsHold, OneTryAtATime, OnePays,
       SoldAsPaid
<1>7. SaleStep
  BY <1>a, QuietStep DEF PaidSame, IInv, PixIsKnown
<1>8. QED  BY <1>1, <1>2, <1>3, <1>4, <1>5, <1>6, <1>7 DEF IInv

(* Only a call that Efi turned away fails the Pix and its order.            *)
LEMMA RecordPixKeeps ==
  ASSUME IInv, RecordPix
  PROVE  IInv' /\ SaleStep
<1>a. /\ caller' = "done" /\ pix = "CREATING" /\ caller # "calling"
      /\ UNCHANGED <<stops, method, age, total, sale, settled, efiPix, found, cardVars>>
      /\ \/ /\ efiPix = "none" /\ pix' = "FAILED"
            /\ order' = IF order = "PENDING" THEN "FAILED" ELSE order
         \/ pix' \in {"ACTIVE", "UNCERTAIN"} /\ order' = order
  BY DEF RecordPix, Fail, IInv, PixIsKnown
<1>b. /\ method = "PIX" /\ asked = {}
      /\ \A n \in Try : try[n] = "NONE" /\ sender[n] = "done" /\ charge[n] = "none"
  BY <1>a, PixOnly
<1>1. TypeOK'
  BY <1>a, <1>b DEF IInv, TypeOK, PixStatus, OrderStatus
<1>2. OneWay'
  BY <1>a, <1>b DEF IInv, OneWay
<1>3. PixIsKnown'
  BY <1>a, <1>b DEF IInv, PixIsKnown
<1>4. SoldAsPaid'
  BY <1>a, <1>b DEF IInv, SoldAsPaid
<1>5. ClosedForGood'
  BY <1>a, <1>b DEF IInv, ClosedForGood
<1>6. PixReadingsHold' /\ SentInTime' /\ EndsAsItsCharge' /\ ReadingsHold'
      /\ OneTryAtATime' /\ OnePays'
  BY <1>a, <1>b DEF IInv, PixReadingsHold, SentInTime, EndsAsItsCharge, ReadingsHold,
       OneTryAtATime, OnePays
<1>7. SaleStep
  <2>1. PaidSame
    BY <1>a DEF PaidSame
  <2>2. CASE order' = order
    BY <1>a, <2>1, <2>2, QuietStep
  <2>3. CASE order' # order
    <3>1. order = "PENDING" /\ order' = "FAILED" /\ efiPix = "none"
      BY <1>a, <2>3
    <3>. QED  BY <1>a, <1>b, <2>1, <3>1, CloseStep DEF PaidAtEfi
  <2>. QED  BY <2>2, <2>3
<1>8. QED  BY <1>1, <1>2, <1>3, <1>4, <1>5, <1>6, <1>7 DEF IInv

(* A call that gave up may still create its Pix, within ten minutes.        *)
LEMMA EfiCreatesPixKeeps ==
  ASSUME IInv, EfiCreatesPix
  PROVE  IInv' /\ SaleStep
<1>a. /\ efiPix = "coming" /\ efiPix' = "active"
      /\ UNCHANGED <<stops, method, age, orderVars, pix, caller, found, cardVars>>
  BY DEF EfiCreatesPix
<1>b. method = "PIX"
  BY <1>a, PixOnly
<1>1. TypeOK'
  BY <1>a DEF IInv, TypeOK
<1>2. OneWay'
  BY <1>a, <1>b DEF IInv, OneWay
<1>3. PixIsKnown'
  BY <1>a DEF IInv, PixIsKnown
<1>4. PixReadingsHold'
  BY <1>a DEF IInv, PixReadingsHold
<1>5. ClosedForGood'
  BY <1>a DEF IInv, ClosedForGood
<1>6. SentInTime' /\ EndsAsItsCharge' /\ ReadingsHold' /\ OneTryAtATime' /\ OnePays'
      /\ SoldAsPaid'
  BY <1>a DEF IInv, SentInTime, EndsAsItsCharge, ReadingsHold, OneTryAtATime, OnePays,
       SoldAsPaid
<1>7. SaleStep
  BY <1>a, QuietStep DEF PaidSame
<1>8. QED  BY <1>1, <1>2, <1>3, <1>4, <1>5, <1>6, <1>7 DEF IInv

(* The code shown is paid while its order may still be paid.                *)
LEMMA BuyerPaysKeeps ==
  ASSUME IInv, BuyerPays
  PROVE  IInv' /\ SaleStep
<1>a. /\ efiPix = "active" /\ efiPix' = "paid" /\ pix = "ACTIVE" /\ age < 3
      /\ UNCHANGED <<stops, method, age, orderVars, pix, caller, found, cardVars>>
  BY DEF BuyerPays
<1>b. method = "PIX" /\ age # 3
  BY <1>a, PixOnly, Numbers
<1>1. TypeOK'
  BY <1>a, <1>b DEF IInv, TypeOK
<1>2. OneWay'
  BY <1>a, <1>b DEF IInv, OneWay
<1>3. PixIsKnown'
  BY <1>a, <1>b DEF IInv, PixIsKnown
<1>4. PixReadingsHold'
  BY <1>a, <1>b DEF IInv, PixReadingsHold
<1>5. ClosedForGood'
  BY <1>a, <1>b DEF IInv, ClosedForGood
<1>6. SentInTime' /\ EndsAsItsCharge' /\ ReadingsHold' /\ OneTryAtATime' /\ OnePays'
      /\ SoldAsPaid'
  BY <1>a, <1>b DEF IInv, SentInTime, EndsAsItsCharge, ReadingsHold, OneTryAtATime,
       OnePays, SoldAsPaid
<1>7. SaleStep
  <2>1. PaidAtEfi' = PaidAtEfi \cup {total}
    BY <1>a DEF PaidAtEfi
  <2>. QED  BY <1>a, <2>1, TotalTyped, PayStep
<1>8. QED  BY <1>1, <1>2, <1>3, <1>4, <1>5, <1>6, <1>7 DEF IInv

(* A notice of payment sells once, also after the order was closed.         *)
LEMMA PixNoticeKeeps ==
  ASSUME IInv, PixNotice
  PROVE  IInv' /\ SaleStep
<1>a. /\ efiPix = "paid" /\ UNCHANGED <<stops, method, age, caller, efiPix, found, cardVars>>
      /\ \/ UNCHANGED <<pix, orderVars>>
         \/ pix # "PAID" /\ pix' = "PAID" /\ Sells(total)
  BY ConfirmSells DEF PixNotice
<1>b. /\ method = "PIX"
      /\ \A n \in Try : try[n] = "NONE" /\ sender[n] = "done" /\ charge[n] = "none"
  BY <1>a, PixOnly
<1>1. TypeOK'
  BY <1>a, <1>b DEF IInv, TypeOK, Sells, PixStatus, OrderStatus
<1>2. OneWay'
  BY <1>a, <1>b DEF IInv, OneWay, Sells
<1>3. PixIsKnown'
  BY <1>a, <1>b DEF IInv, PixIsKnown, Sells
<1>4. SoldAsPaid'
  BY <1>a, <1>b, TotalTyped DEF IInv, SoldAsPaid, Sells
<1>5. ClosedForGood'
  BY <1>a, <1>b DEF IInv, ClosedForGood, Sells
<1>6. PixReadingsHold' /\ SentInTime' /\ EndsAsItsCharge' /\ ReadingsHold'
      /\ OneTryAtATime' /\ OnePays'
  BY <1>a, <1>b DEF IInv, PixReadingsHold, SentInTime, EndsAsItsCharge, ReadingsHold,
       OneTryAtATime, OnePays, Sells
<1>7. SaleStep
  <2>1. PaidSame /\ total \in PaidAtEfi
    BY <1>a DEF PaidSame, PaidAtEfi, Sells
  <2>. QED  BY <1>a, <2>1, TotalTyped, QuietStep, SellStep
<1>8. QED  BY <1>1, <1>2, <1>3, <1>4, <1>5, <1>6, <1>7 DEF IInv

(* What the worker reads stays true until it is applied.                    *)
LEMMA ReadPixKeeps ==
  ASSUME IInv, NEW by \in {"uncertain", "overdue"}, ReadPix(by)
  PROVE  IInv' /\ SaleStep
<1>a. /\ pix # "NONE" /\ UNCHANGED <<stops, method, age, orderVars, pix, caller, efiPix, cardVars>>
      /\ found' = found \cup {[by |-> by, saw |-> Saw, late |-> age > 0]}
      /\ by = "overdue" => age = 3
  BY DEF ReadPix
<1>b. Saw \in {"none", "active", "paid"} /\ (Saw = "paid" <=> efiPix = "paid")
      /\ (age > 0 /\ Saw = "none" => efiPix = "none")
  BY Numbers DEF Saw, IInv, TypeOK, PixIsKnown
<1>c. \E f \in [by : {"uncertain", "overdue"}, saw : {"none", "active", "paid"}, late : BOOLEAN] :
         /\ found' = found \cup {f}
         /\ f.saw = "paid" <=> efiPix = "paid"
         /\ f.late => age > 0
         /\ f.late /\ f.saw = "none" => efiPix = "none"
         /\ f.by = "overdue" => age = 3
  <2> DEFINE f == [by |-> by, saw |-> Saw, late |-> age > 0]
  <2>1. f \in [by : {"uncertain", "overdue"}, saw : {"none", "active", "paid"}, late : BOOLEAN]
    BY <1>b
  <2>2. f.by = by /\ f.saw = Saw /\ f.late = (age > 0)
    OBVIOUS
  <2>3. found' = found \cup {f}
    BY <1>a
  <2> HIDE DEF f
  <2>. QED  BY <1>a, <1>b, <2>1, <2>2, <2>3
<1>d. method = "PIX"
  BY <1>a, PixOnly
<1>1. TypeOK'
  BY <1>a, <1>c, <1>d DEF IInv, TypeOK
<1>2. OneWay'
  BY <1>a, <1>c, <1>d DEF IInv, OneWay
<1>3. PixReadingsHold'
  BY <1>a, <1>c, <1>d DEF IInv, PixReadingsHold
<1>4. PixIsKnown' /\ SentInTime' /\ EndsAsItsCharge' /\ ReadingsHold'
      /\ OneTryAtATime' /\ OnePays' /\ SoldAsPaid' /\ ClosedForGood'
  BY <1>a DEF IInv, PixIsKnown, SentInTime, EndsAsItsCharge, ReadingsHold,
       OneTryAtATime, OnePays, SoldAsPaid, ClosedForGood
<1>5. SaleStep
  BY <1>a, QuietStep DEF PaidSame
<1>6. QED  BY <1>1, <1>2, <1>3, <1>4, <1>5 DEF IInv

(* A late reading fails or expires only a Pix that nobody can pay any more. *)
LEMMA ApplyPixKeeps ==
  ASSUME IInv, NEW f \in found, ApplyPix(f)
  PROVE  IInv' /\ SaleStep
<1>a. found' \subseteq found /\ UNCHANGED <<stops, method, age, caller, efiPix, cardVars>>
  BY DEF ApplyPix
<1>b. /\ method = "PIX"
      /\ \A n \in Try : try[n] = "NONE" /\ sender[n] = "done" /\ charge[n] = "none"
  BY PixOnly
<1>c. \/ efiPix = "paid" /\ Confirm
      \/ UNCHANGED orderVars /\ (pix' = pix \/ (pix' = "ACTIVE" /\ pix = "UNCERTAIN"))
      \/ efiPix = "none" /\ age > 0 /\ Fail("UNCERTAIN")
      \/ /\ age = 3 /\ efiPix # "paid" /\ pix' = IF pix = "ACTIVE" THEN "EXPIRED" ELSE pix
         /\ order' = IF order = "PENDING" THEN "EXPIRED" ELSE order
         /\ UNCHANGED <<total, sale, settled>>
  <2>1. CASE f.by = "uncertain"
    <3>1. ApplyUncertain(f.saw, f.late)
      BY <2>1 DEF ApplyPix
    <3>2. /\ f.saw = "paid" => efiPix = "paid"
          /\ f.late /\ f.saw = "none" => efiPix = "none" /\ age > 0
      BY DEF IInv, PixReadingsHold
    <3>3. CASE f.saw = "paid" /\ Confirm
      BY <3>2, <3>3
    <3>4. CASE UNCHANGED orderVars /\ pix' = IF pix = "UNCERTAIN" THEN "ACTIVE" ELSE pix
      <4>1. pix' = pix \/ (pix' = "ACTIVE" /\ pix = "UNCERTAIN")
        BY <3>4
      <4>. QED  BY <3>4, <4>1
    <3>5. CASE f.saw = "none" /\ f.late /\ Fail("UNCERTAIN")
      BY <3>2, <3>5
    <3>6. CASE UNCHANGED <<pix, orderVars>>
      <4>1. UNCHANGED orderVars /\ pix' = pix
        BY <3>6
      <4>. QED  BY <4>1
    <3>. QED  BY <3>1, <3>3, <3>4, <3>5, <3>6 DEF ApplyUncertain
  <2>2. CASE f.by # "uncertain"
    <3>1. ApplyOverdue(f.saw) /\ f.by = "overdue"
      BY <2>2 DEF ApplyPix, IInv, TypeOK
    <3>. QED  BY <3>1 DEF ApplyOverdue, IInv, PixReadingsHold
  <2>. QED  BY <2>1, <2>2
<1>d. \/ efiPix = "paid" /\ UNCHANGED <<pix, orderVars>>
      \/ efiPix = "paid" /\ pix # "PAID" /\ pix' = "PAID" /\ Sells(total)
      \/ UNCHANGED orderVars /\ (pix' = pix \/ (pix' = "ACTIVE" /\ pix = "UNCERTAIN"))
      \/ /\ UNCHANGED <<total, sale, settled>>
         /\ \/ /\ efiPix = "none" /\ caller # "calling"
               /\ pix' = IF pix = "UNCERTAIN" THEN "FAILED" ELSE pix
               /\ order' = IF order = "PENDING" THEN "FAILED" ELSE order
            \/ /\ age = 3 /\ efiPix # "paid"
               /\ pix' = IF pix = "ACTIVE" THEN "EXPIRED" ELSE pix
               /\ order' = IF order = "PENDING" THEN "EXPIRED" ELSE order
  BY <1>c, ConfirmSells, Numbers DEF Fail, IInv, PixIsKnown
<1>1. TypeOK'
  BY <1>a, <1>b, <1>d DEF IInv, TypeOK, Sells, PixStatus, OrderStatus
<1>2. OneWay'
  BY <1>a, <1>b, <1>d DEF IInv, OneWay, Sells
<1>3. PixIsKnown'
  BY <1>a, <1>b, <1>d DEF IInv, PixIsKnown, Sells
<1>4. PixReadingsHold'
  BY <1>a, <1>b, <1>d DEF IInv, PixReadingsHold, Sells
<1>5. SoldAsPaid'
  BY <1>a, <1>b, <1>d, TotalTyped DEF IInv, SoldAsPaid, Sells
<1>6. ClosedForGood'
  BY <1>a, <1>b, <1>d DEF IInv, ClosedForGood, Sells
<1>7. SentInTime' /\ EndsAsItsCharge' /\ ReadingsHold' /\ OneTryAtATime' /\ OnePays'
  BY <1>a, <1>b, <1>d DEF IInv, SentInTime, EndsAsItsCharge, ReadingsHold,
       OneTryAtATime, OnePays, Sells
<1>8. SaleStep
  <2>1. PaidSame
    BY <1>a, <1>d DEF PaidSame, Sells
  <2>2. CASE UNCHANGED orderVars
    BY <2>1, <2>2, QuietStep
  <2>3. CASE efiPix = "paid" /\ Sells(total)
    <3>1. total \in PaidAtEfi
      BY <2>3 DEF PaidAtEfi
    <3>. QED  BY <2>1, <2>3, <3>1, TotalTyped, SellStep
  <2>4. CASE UNCHANGED <<total, sale, settled>> /\ efiPix # "paid" /\ order' \in Closed /\ order = "PENDING"
    <3>1. PaidAtEfi = {}
      BY <1>b, <2>4 DEF PaidAtEfi
    <3>. QED  BY <2>1, <2>4, <3>1, CloseStep
  <2>. QED  BY <1>d, <2>2, <2>3, <2>4
<1>9. QED  BY <1>1, <1>2, <1>3, <1>4, <1>5, <1>6, <1>7, <1>8 DEF IInv

(* A request reads the order: nothing is decided yet.                       *)
LEMMA AskKeeps ==
  ASSUME IInv, NEW r \in Request, Ask(r)
  PROVE  IInv' /\ SaleStep
<1>a. /\ asked' = asked \cup {r} /\ method = "CARD" /\ age < 2
      /\ UNCHANGED <<stops, method, age, orderVars, pixVars, tryVars, sender, charge, sees>>
  BY DEF Ask
<1>1. TypeOK'
  BY <1>a DEF IInv, TypeOK
<1>2. OneWay'
  BY <1>a DEF IInv, OneWay
<1>3. PixIsKnown' /\ PixReadingsHold' /\ SentInTime' /\ EndsAsItsCharge'
      /\ ReadingsHold' /\ OneTryAtATime' /\ OnePays' /\ SoldAsPaid' /\ ClosedForGood'
  BY <1>a DEF IInv, PixIsKnown, PixReadingsHold, SentInTime, EndsAsItsCharge,
       ReadingsHold, OneTryAtATime, OnePays, SoldAsPaid, ClosedForGood
<1>4. SaleStep
  BY <1>a, QuietStep DEF PaidSame
<1>5. QED  BY <1>1, <1>2, <1>3, <1>4 DEF IInv

(* A request that is refused leaves no trace.                               *)
LEMMA RefuseKeeps ==
  ASSUME IInv, NEW r \in Request, Refuse(r)
  PROVE  IInv' /\ SaleStep
<1>a. /\ asked' \subseteq asked
      /\ UNCHANGED <<stops, method, age, orderVars, pixVars, tryVars, sender, charge, sees>>
  BY DEF Refuse
<1>1. TypeOK'
  BY <1>a DEF IInv, TypeOK
<1>2. OneWay'
  BY <1>a DEF IInv, OneWay
<1>3. PixIsKnown' /\ PixReadingsHold' /\ SentInTime' /\ EndsAsItsCharge'
      /\ ReadingsHold' /\ OneTryAtATime' /\ OnePays' /\ SoldAsPaid' /\ ClosedForGood'
  BY <1>a DEF IInv, PixIsKnown, PixReadingsHold, SentInTime, EndsAsItsCharge,
       ReadingsHold, OneTryAtATime, OnePays, SoldAsPaid, ClosedForGood
<1>4. SaleStep
  BY <1>a, QuietStep DEF PaidSame
<1>5. QED  BY <1>1, <1>2, <1>3, <1>4 DEF IInv

(* Another try is reserved under the lock: none is in progress then.        *)
LEMMA ReserveKeeps ==
  ASSUME IInv, NEW r \in Request, NEW amount \in Total, Reserve(r, amount)
  PROVE  IInv' /\ SaleStep
<1>a. /\ asked # {} /\ asked' \subseteq asked /\ NoneBusy /\ made < MaxTries /\ made' = made + 1
      /\ total' = amount
      /\ UNCHANGED <<stops, method, age, order, sale, settled, pixVars, charge, sees>>
  BY DEF Reserve, MayTry
<1>b. made + 1 \in Try /\ made + 1 \in 0 .. MaxTries /\ age < 2 /\ method = "CARD"
  BY <1>a, CardOnly, Numbers DEF IInv, OneWay
<1>c. /\ OneTry(made + 1, "SUBMITTING")
      /\ price' \in [Try -> Total] /\ born' \in [Try -> Age] /\ sender' \in [Try -> {"ready", "done"}]
      /\ born'[made + 1] = age /\ sender'[made + 1] = "ready"
      /\ \A m \in Try : m # made + 1 => born'[m] = born[m] /\ sender'[m] = sender[m]
  BY <1>b DEF Reserve, OneTry, TryStatus, IInv, TypeOK
<1>d. try[made + 1] = "NONE" /\ charge[made + 1] = "none"
  BY <1>b, Numbers DEF IInv, SentInTime
<1>1. TypeOK'
  BY <1>a, <1>b, <1>c, <1>d DEF IInv, TypeOK, OneTry
<1>2. OneWay'
  BY <1>a, <1>b, <1>c, <1>d, Numbers DEF IInv, OneWay, OneTry
<1>3. SentInTime'
  BY <1>a, <1>b, <1>c, <1>d, Numbers DEF IInv, SentInTime, OneTry
<1>4. EndsAsItsCharge'
  BY <1>a, <1>b, <1>c, <1>d DEF IInv, EndsAsItsCharge, OneTry
<1>5. OneTryAtATime'
  BY <1>a, <1>b, <1>c, <1>d DEF IInv, OneTryAtATime, OneTry
<1>6. OnePays'
  BY <1>a, <1>b, <1>c, <1>d DEF IInv, OnePays, OneTry
<1>7. SoldAsPaid'
  BY <1>a, <1>b, <1>c, <1>d DEF IInv, SoldAsPaid, OneTry
<1>8. ClosedForGood'
  BY <1>a, <1>b, <1>c, <1>d, Numbers DEF IInv, ClosedForGood, OneTry
<1>9. PixIsKnown' /\ PixReadingsHold' /\ ReadingsHold'
  BY <1>a, <1>b, <1>c, <1>d DEF IInv, PixIsKnown, PixReadingsHold, ReadingsHold, OneTry
<1>10. SaleStep
  <2>1. efiPix = "none" /\ price' = [price EXCEPT ![made + 1] = amount]
    BY <1>a, CardOnly DEF Reserve
  <2>2. \A n \in Try : charge[n] = "paid" => price'[n] = price[n]
    BY <1>b, <1>d, <2>1 DEF IInv, TypeOK
  <2>. QED  BY <1>a, <2>1, <2>2, QuietStep DEF PaidSame
<1>11. QED  BY <1>1, <1>2, <1>3, <1>4, <1>5, <1>6, <1>7, <1>8, <1>9, <1>10 DEF IInv

(* A try is sent once, before Efi has anything of it.                       *)
LEMMA SendKeeps ==
  ASSUME IInv, NEW n \in Try, Send(n)
  PROVE  IInv' /\ SaleStep
<1>a. /\ UNCHANGED <<stops, method, age, orderVars, pixVars, made, price, born, asked>>
      /\ sender[n] = "ready" /\ charge[n] = "none" /\ try[n] = "SUBMITTING" /\ n <= made
      /\ age <= born[n] + 1
  BY Numbers DEF Send, IInv, SentInTime
<1>b. /\ sender' \in [Try -> {"ready", "done"}] /\ sender'[n] = "done"
      /\ \A m \in Try : m # n => sender'[m] = sender[m]
  BY DEF Send, IInv, TypeOK
<1>c. /\ \E now \in {"SUBMITTING", "UNCERTAIN"} : OneTry(n, now)
      /\ charge' \in [Try -> Charge] /\ charge'[n] \in Told \cup {"coming", "none"}
      /\ \A m \in Try : m # n => charge'[m] = charge[m]
      /\ sees' = sees \/ (charge'[n] \in Told /\ sees' = sees \cup {[of |-> n, saw |-> charge'[n]]})
  <2>1. UNCHANGED try \/ Uncertain(n)
    BY DEF Send
  <2>2. \E now \in {"SUBMITTING", "UNCERTAIN"} : OneTry(n, now)
    BY <1>a, <2>1, UncertainOne DEF OneTry, IInv, TypeOK
  <2>3. \/ UNCHANGED <<charge, sees>>
        \/ charge' = [charge EXCEPT ![n] = "coming"] /\ sees' = sees
        \/ \E now \in Told : /\ charge' = [charge EXCEPT ![n] = now]
                             /\ sees' = sees \/ sees' = sees \cup {[of |-> n, saw |-> now]}
    BY DEF Send
  <2>. QED  BY <1>a, <2>2, <2>3 DEF IInv, TypeOK, Charge
<1>d. \A o \in sees : o.of # n
  BY <1>a DEF IInv, TypeOK, ReadingsHold
<1>1. TypeOK'
  BY <1>a, <1>b, <1>c DEF IInv, TypeOK, OneTry
<1>2. SentInTime'
  BY <1>a, <1>b, <1>c, Numbers DEF IInv, SentInTime, OneTry
<1>3. EndsAsItsCharge'
  BY <1>a, <1>b, <1>c DEF IInv, EndsAsItsCharge, OneTry
<1>4. ReadingsHold'
  BY <1>a, <1>b, <1>c, <1>d, SeenTyped DEF IInv, ReadingsHold, OneTry
<1>5. OneTryAtATime'
  BY <1>a, <1>b, <1>c DEF IInv, OneTryAtATime, OneTry
<1>6. OnePays'
  BY <1>a, <1>b, <1>c, <1>d DEF IInv, OnePays, OneTry
<1>7. SoldAsPaid'
  BY <1>a, <1>b, <1>c DEF IInv, SoldAsPaid, OneTry
<1>8. ClosedForGood'
  BY <1>a, <1>b, <1>c DEF IInv, ClosedForGood, OneTry
<1>9. OneWay' /\ PixIsKnown' /\ PixReadingsHold'
  BY <1>a, <1>b, <1>c DEF IInv, OneWay, PixIsKnown, PixReadingsHold, OneTry
<1>10. SaleStep
  <2>1. CASE charge'[n] # "paid"
    BY <1>a, <1>c, <2>1, QuietStep DEF PaidSame
  <2>2. CASE charge'[n] = "paid"
    <3>1. PaidAtEfi' = PaidAtEfi \cup {price[n]}
      BY <1>a, <1>c, <2>2 DEF PaidAtEfi
    <3>2. price[n] \in Total
      BY DEF IInv, TypeOK
    <3>. QED  BY <1>a, <3>1, <3>2, PayStep
  <2>. QED  BY <2>1, <2>2
<1>11. QED  BY <1>1, <1>2, <1>3, <1>4, <1>5, <1>6, <1>7, <1>8, <1>9, <1>10 DEF IInv

(* Efi decides a charge while its try is in progress.                       *)
LEMMA EfiChargesKeeps ==
  ASSUME IInv, NEW n \in Try, EfiCharges(n)
  PROVE  IInv' /\ SaleStep
<1>a. /\ UNCHANGED <<stops, method, age, orderVars, pixVars, tryVars, sender, sees, asked>>
      /\ charge[n] \in {"coming", "approved"} /\ charge'[n] \in Told
      /\ charge' \in [Try -> Charge] /\ \A m \in Try : m # n => charge'[m] = charge[m]
  BY DEF EfiCharges, IInv, TypeOK, Charge
<1>1. TypeOK'
  BY <1>a DEF IInv, TypeOK
<1>2. SentInTime'
  BY <1>a, Numbers DEF IInv, SentInTime
<1>3. EndsAsItsCharge'
  BY <1>a DEF IInv, EndsAsItsCharge
<1>4. ReadingsHold'
  BY <1>a, SeenTyped DEF IInv, ReadingsHold
<1>5. OneWay' /\ PixIsKnown' /\ PixReadingsHold' /\ OneTryAtATime' /\ OnePays'
      /\ SoldAsPaid' /\ ClosedForGood'
  BY <1>a DEF IInv, OneWay, PixIsKnown, PixReadingsHold, OneTryAtATime, OnePays,
       SoldAsPaid, ClosedForGood
<1>6. SaleStep
  <2>1. CASE charge'[n] # "paid"
    BY <1>a, <2>1, QuietStep DEF PaidSame
  <2>2. CASE charge'[n] = "paid"
    <3>1. PaidAtEfi' = PaidAtEfi \cup {price[n]}
      BY <1>a, <2>2 DEF PaidAtEfi
    <3>2. price[n] \in Total
      BY DEF IInv, TypeOK
    <3>. QED  BY <1>a, <3>1, <3>2, PayStep
  <2>. QED  BY <2>1, <2>2
<1>7. QED  BY <1>1, <1>2, <1>3, <1>4, <1>5, <1>6 DEF IInv

(* What is read of a charge stays true until it is applied.                 *)
LEMMA LookKeeps ==
  ASSUME IInv, NEW n \in Try, Look(n)
  PROVE  IInv' /\ SaleStep
<1>a. /\ UNCHANGED <<stops, method, age, orderVars, pixVars, tryVars, sender, charge, asked>>
      /\ charge[n] \in Told /\ sees' = sees \cup {[of |-> n, saw |-> charge[n]]}
  BY DEF Look
<1>1. TypeOK'
  BY <1>a DEF IInv, TypeOK
<1>2. ReadingsHold'
  BY <1>a DEF IInv, ReadingsHold
<1>3. OnePays'
  BY <1>a DEF IInv, OnePays
<1>4. OneWay' /\ PixIsKnown' /\ PixReadingsHold' /\ SentInTime' /\ EndsAsItsCharge'
      /\ OneTryAtATime' /\ SoldAsPaid' /\ ClosedForGood'
  BY <1>a DEF IInv, OneWay, PixIsKnown, PixReadingsHold, SentInTime, EndsAsItsCharge,
       OneTryAtATime, SoldAsPaid, ClosedForGood
<1>5. SaleStep
  BY <1>a, QuietStep DEF PaidSame
<1>6. QED  BY <1>1, <1>2, <1>3, <1>4, <1>5 DEF IInv

(* A try without a charge is canceled only when Efi cannot get one any      *)
(* more.                                                                    *)
LEMMA NotFoundKeeps ==
  ASSUME IInv, NEW n \in Try, NotFound(n)
  PROVE  IInv' /\ SaleStep
<1>a. /\ try[n] \in {"SUBMITTING", "UNCERTAIN"} /\ charge[n] = "none" /\ sender[n] # "ready"
      /\ UNCHANGED <<stops, method, age, orderVars, pixVars, made, price, born, sender, charge, sees, asked>>
  <2>1. /\ age >= born[n] + 2 /\ charge[n] \notin Told
        /\ try[n] \in {"SUBMITTING", "UNCERTAIN"}
        /\ UNCHANGED <<stops, method, age, orderVars, pixVars, made, price, born, sender, charge, sees, asked>>
    BY DEF NotFound
  <2>2. sender[n] # "ready" /\ charge[n] # "coming"
    BY <2>1, Numbers DEF IInv, SentInTime
  <2>3. charge[n] \in Charge
    BY DEF IInv, TypeOK
  <2>. QED  BY <2>1, <2>2, <2>3 DEF Charge
<1>b. OneTry(n, "CANCELED")
  BY DEF NotFound, OneTry, TryStatus, IInv, TypeOK
<1>1. TypeOK'
  BY <1>a, <1>b DEF IInv, TypeOK, OneTry
<1>2. SentInTime'
  BY <1>a, <1>b DEF IInv, SentInTime, OneTry
<1>3. EndsAsItsCharge'
  BY <1>a, <1>b DEF IInv, EndsAsItsCharge, OneTry
<1>4. OneTryAtATime'
  BY <1>a, <1>b DEF IInv, OneTryAtATime, OneTry
<1>5. OnePays'
  BY <1>a, <1>b DEF IInv, OnePays, OneTry
<1>6. SoldAsPaid'
  BY <1>a, <1>b DEF IInv, SoldAsPaid, OneTry
<1>7. ClosedForGood'
  BY <1>a, <1>b DEF IInv, ClosedForGood, OneTry
<1>8. OneWay' /\ PixIsKnown' /\ PixReadingsHold' /\ ReadingsHold'
  BY <1>a, <1>b DEF IInv, OneWay, PixIsKnown, PixReadingsHold, ReadingsHold, OneTry
<1>9. SaleStep
  BY <1>a, QuietStep DEF PaidSame
<1>10. QED  BY <1>1, <1>2, <1>3, <1>4, <1>5, <1>6, <1>7, <1>8, <1>9 DEF IInv

(* A late answer ends a try only as its charge ended.                       *)
LEMMA ObserveKeeps ==
  ASSUME IInv, NEW o \in sees, Observe(o)
  PROVE  IInv' /\ SaleStep
<1>a. /\ o.of \in Try /\ o.saw \in Told
      /\ UNCHANGED <<stops, method, age, orderVars, pixVars, made, price, born, sender, charge, asked>>
  BY DEF Observe, IInv, TypeOK
<1>b. charge[o.of] \in Told /\ sender[o.of] # "ready" /\ try[o.of] # "NONE"
  BY <1>a, Numbers DEF IInv, ReadingsHold, SentInTime
<1>c. \/ sees' \subseteq sees
      \/ /\ sees' \subseteq sees \cup {[of |-> o.of, saw |-> "cleared"]} /\ charge[o.of] = "paid"
         /\ \A m \in Try : try[m] = "PAID" => m = o.of
  BY <1>a DEF Observe, PaidByAnother, IInv, ReadingsHold, SoldAsPaid
<1>d. \/ UNCHANGED try
      \/ \E now \in TryStatus :
           /\ OneTry(o.of, now) /\ try[o.of] \in Busy
           /\ \/ now = "APPROVED"
              \/ now = "DECLINED" /\ charge[o.of] = "unpaid"
              \/ now = "CANCELED" /\ charge[o.of] = "canceled"
  <2>1. CASE o.saw = "paid"
    BY <2>1 DEF Observe
  <2>2. CASE o.saw = "approved"
    <3>1. Becomes(o.of, {"SUBMITTING", "UNCERTAIN"}, "APPROVED")
      BY <2>2 DEF Observe
    <3>2. OneTry(o.of, IF try[o.of] \in {"SUBMITTING", "UNCERTAIN"} THEN "APPROVED" ELSE try[o.of])
      BY <1>a, <3>1, BecomesOne DEF IInv, TryStatus
    <3>3. "APPROVED" \in TryStatus
      BY DEF TryStatus
    <3>4. CASE try[o.of] \in {"SUBMITTING", "UNCERTAIN"}
      BY <3>1, <3>2, <3>3, <3>4
    <3>5. CASE try[o.of] \notin {"SUBMITTING", "UNCERTAIN"}
      BY <1>a, <3>2, <3>5, OneTrySame DEF IInv
    <3>. QED  BY <3>4, <3>5
  <2>3. CASE o.saw = "unpaid"
    <3>1. Becomes(o.of, Busy, "DECLINED") /\ charge[o.of] = "unpaid"
      BY <2>3 DEF Observe, IInv, ReadingsHold
    <3>2. OneTry(o.of, IF try[o.of] \in Busy THEN "DECLINED" ELSE try[o.of])
      BY <1>a, <3>1, BecomesOne DEF IInv, TryStatus
    <3>3. "DECLINED" \in TryStatus
      BY DEF TryStatus
    <3>4. CASE try[o.of] \in Busy
      BY <3>1, <3>2, <3>3, <3>4
    <3>5. CASE try[o.of] \notin Busy
      BY <1>a, <3>2, <3>5, OneTrySame DEF IInv
    <3>. QED  BY <3>4, <3>5
  <2>4. CASE o.saw = "canceled"
    <3>1. Becomes(o.of, Busy, "CANCELED") /\ charge[o.of] = "canceled"
      BY <2>4 DEF Observe, IInv, ReadingsHold
    <3>2. OneTry(o.of, IF try[o.of] \in Busy THEN "CANCELED" ELSE try[o.of])
      BY <1>a, <3>1, BecomesOne DEF IInv, TryStatus
    <3>3. "CANCELED" \in TryStatus
      BY DEF TryStatus
    <3>4. CASE try[o.of] \in Busy
      BY <3>1, <3>2, <3>3, <3>4
    <3>5. CASE try[o.of] \notin Busy
      BY <1>a, <3>2, <3>5, OneTrySame DEF IInv
    <3>. QED  BY <3>4, <3>5
  <2>. QED  BY <1>a, <2>1, <2>2, <2>3, <2>4
<1>1. TypeOK'
  BY <1>a, <1>b, <1>c, <1>d DEF IInv, TypeOK, OneTry
<1>2. SentInTime'
  BY <1>a, <1>b, <1>d DEF IInv, SentInTime, OneTry
<1>3. EndsAsItsCharge'
  BY <1>a, <1>b, <1>d DEF IInv, EndsAsItsCharge, OneTry
<1>4. ReadingsHold'
  BY <1>a, <1>b, <1>c DEF IInv, ReadingsHold, OneTry
<1>5. OneTryAtATime'
  BY <1>a, <1>b, <1>d DEF IInv, OneTryAtATime, OneTry
<1>6. OnePays'
  BY <1>a, <1>b, <1>c, <1>d DEF IInv, OnePays, OneTry
<1>7. SoldAsPaid'
  BY <1>a, <1>b, <1>d DEF IInv, SoldAsPaid, OneTry
<1>8. ClosedForGood'
  BY <1>a, <1>b, <1>d DEF IInv, ClosedForGood, OneTry
<1>9. OneWay' /\ PixIsKnown' /\ PixReadingsHold'
  BY <1>a, <1>b DEF IInv, OneWay, PixIsKnown, PixReadingsHold, OneTry
<1>10. SaleStep
  BY <1>a, QuietStep DEF PaidSame
<1>11. QED  BY <1>1, <1>2, <1>3, <1>4, <1>5, <1>6, <1>7, <1>8, <1>9, <1>10 DEF IInv

(* A try cleared to be paid sells the order, which nobody else paid.        *)
LEMMA ConfirmCardKeeps ==
  ASSUME IInv, NEW n \in Try, ConfirmCard(n)
  PROVE  IInv' /\ SaleStep
<1>a. /\ sees' \subseteq sees /\ [of |-> n, saw |-> "cleared"] \in sees
      /\ UNCHANGED <<stops, method, age, pixVars, made, price, born, sender, charge, asked>>
  BY DEF ConfirmCard
<1>b. /\ charge[n] = "paid" /\ try[n] \in Busy \cup {"PAID"}
      /\ \A m \in Try : try[m] = "PAID" => m = n
  BY <1>a DEF IInv, ReadingsHold, EndsAsItsCharge, OnePays
<1>c. pix # "PAID"
  <2>1. n <= made /\ made # 0
    BY <1>b, Numbers DEF IInv, SentInTime
  <2>. QED  BY <2>1, CardOnly
<1>d. \/ UNCHANGED <<try, orderVars>>
      \/ try[n] # "PAID" /\ OneTry(n, "PAID") /\ Sells(price[n])
  <2>1. CASE try[n] = "PAID"
    BY <2>1 DEF ConfirmCard
  <2>2. CASE try[n] # "PAID"
    <3>1. order # "PAID" /\ sale = None /\ settled = 0
      BY <1>b, <1>c, <2>2 DEF IInv, SoldAsPaid
    <3>2. OneTry(n, "PAID") /\ Settle(price[n])
      BY <2>2 DEF ConfirmCard, OneTry, TryStatus, IInv, TypeOK
    <3>. QED  BY <2>2, <3>1, <3>2 DEF Settle, Sells
  <2>. QED  BY <2>1, <2>2
<1>e. price[n] \in Total
  BY DEF IInv, TypeOK
<1>f. try[n] # "PAID" => \A c \in sees : c.saw = "cleared" => c.of = n
  <2>. SUFFICES ASSUME try[n] # "PAID", NEW c \in sees, c.saw = "cleared" PROVE c.of = n
    OBVIOUS
  <2>1. c.of \in Try /\ charge[c.of] = "paid"
    BY DEF IInv, TypeOK, ReadingsHold
  <2>2. try[c.of] \in Busy
    BY <1>b, <2>1 DEF IInv, EndsAsItsCharge
  <2>. QED  BY <1>b, <2>1, <2>2 DEF IInv, OneTryAtATime
<1>1. TypeOK'
  BY <1>a, <1>b, <1>d, <1>e DEF IInv, TypeOK, OneTry, Sells, OrderStatus
<1>2. SentInTime'
  BY <1>a, <1>b, <1>d DEF IInv, SentInTime, OneTry, Sells
<1>3. EndsAsItsCharge'
  BY <1>a, <1>b, <1>d DEF IInv, EndsAsItsCharge, OneTry, Sells
<1>4. ReadingsHold'
  BY <1>a, <1>b, <1>d DEF IInv, ReadingsHold, OneTry, Sells
<1>5. OneTryAtATime'
  BY <1>a, <1>b, <1>d DEF IInv, OneTryAtATime, OneTry, Sells
<1>6. OnePays'
  BY <1>a, <1>b, <1>d, <1>f DEF IInv, OnePays, OneTry, Sells
<1>7. SoldAsPaid'
  BY <1>a, <1>b, <1>d, <1>c, <1>e, TotalTyped DEF IInv, SoldAsPaid, OneTry, Sells
<1>8. ClosedForGood'
  BY <1>a, <1>b, <1>d DEF IInv, ClosedForGood, OneTry, Sells
<1>9. OneWay' /\ PixIsKnown' /\ PixReadingsHold'
  BY <1>a, <1>b, <1>d DEF IInv, OneWay, PixIsKnown, PixReadingsHold, OneTry, Sells
<1>10. SaleStep
  <2>1. efiPix = "none"
    <3>1. n <= made /\ made # 0
      BY <1>b, Numbers DEF IInv, SentInTime
    <3>. QED  BY <3>1, CardOnly
  <2>2. PaidSame
    BY <1>a, <2>1 DEF PaidSame
  <2>3. price[n] \in PaidAtEfi
    BY <1>b DEF PaidAtEfi
  <2>. QED  BY <1>d, <1>e, <2>2, <2>3, QuietStep, SellStep
<1>11. QED  BY <1>1, <1>2, <1>3, <1>4, <1>5, <1>6, <1>7, <1>8, <1>9, <1>10 DEF IInv

(* An overdue order is closed when no try can be paid any more.             *)
LEMMA CloseOverdueKeeps ==
  ASSUME IInv, CloseOverdue
  PROVE  IInv' /\ SaleStep
<1>a. /\ UNCHANGED <<stops, method, age, total, sale, settled, pixVars, cardVars>>
      /\ method = "CARD" /\ order = "PENDING" /\ order' \in {"DECLINED", "EXPIRED"}
      /\ NoneBusy /\ age = 3
  BY DEF CloseOverdue
<1>b. efiPix = "none"
  BY <1>a DEF IInv, OneWay
<1>1. TypeOK'
  BY <1>a, <1>b DEF IInv, TypeOK, OrderStatus
<1>2. SoldAsPaid'
  BY <1>a, <1>b DEF IInv, SoldAsPaid
<1>3. ClosedForGood'
  BY <1>a, <1>b DEF IInv, ClosedForGood
<1>4. OneWay' /\ PixIsKnown' /\ PixReadingsHold' /\ SentInTime' /\ EndsAsItsCharge'
      /\ ReadingsHold' /\ OneTryAtATime' /\ OnePays'
  BY <1>a, <1>b DEF IInv, OneWay, PixIsKnown, PixReadingsHold, SentInTime,
       EndsAsItsCharge, ReadingsHold, OneTryAtATime, OnePays
<1>5. SaleStep
  <2>1. \A n \in Try : charge[n] # "paid"
    BY <1>a DEF IInv, EndsAsItsCharge, SoldAsPaid
  <2>2. PaidAtEfi = {} /\ PaidSame
    BY <1>a, <1>b, <2>1 DEF PaidAtEfi, PaidSame
  <2>. QED  BY <1>a, <2>2, CloseStep
<1>6. QED  BY <1>1, <1>2, <1>3, <1>4, <1>5 DEF IInv

(* A process that stops leaves rows and charges as they are.                *)
LEMMA StopKeeps ==
  ASSUME IInv, Stop
  PROVE  IInv' /\ SaleStep
<1>a. /\ UNCHANGED <<method, age, orderVars, pix, efiPix, tryVars, charge, asked>>
      /\ stops' \in 0 .. MaxStops /\ caller' \in {caller, "done"}
      /\ found' \subseteq found /\ sees' \subseteq sees
      /\ sender' \in [Try -> {"ready", "done"}]
      /\ \A n \in Try : sender'[n] \in {sender[n], "done"}
  BY BoundsAssumption DEF Stop, IInv, TypeOK
<1>1. TypeOK'
  BY <1>a DEF IInv, TypeOK
<1>2. OneWay'
  BY <1>a DEF IInv, OneWay
<1>3. PixIsKnown'
  BY <1>a DEF IInv, PixIsKnown
<1>4. PixReadingsHold'
  BY <1>a DEF IInv, PixReadingsHold
<1>5. SentInTime'
  BY <1>a, Numbers DEF IInv, SentInTime
<1>6. ReadingsHold'
  BY <1>a DEF IInv, ReadingsHold
<1>7. OnePays'
  BY <1>a DEF IInv, OnePays
<1>8. ClosedForGood'
  BY <1>a DEF IInv, ClosedForGood
<1>9. EndsAsItsCharge' /\ OneTryAtATime' /\ SoldAsPaid'
  BY <1>a DEF IInv, EndsAsItsCharge, OneTryAtATime, SoldAsPaid
<1>10. SaleStep
  BY <1>a, QuietStep DEF PaidSame
<1>11. QED  BY <1>1, <1>2, <1>3, <1>4, <1>5, <1>6, <1>7, <1>8, <1>9, <1>10 DEF IInv

(* Time passes when no request, call or handling would take longer.         *)
LEMMA TickKeeps ==
  ASSUME IInv, Tick
  PROVE  IInv' /\ SaleStep
<1>a. /\ age' = age + 1 /\ age # 3 /\ age' \in Age /\ age' > 0
      /\ caller # "calling" /\ efiPix # "coming" /\ asked = {}
      /\ UNCHANGED <<stops, method, orderVars, pixVars, cardVars>>
  BY Numbers DEF Tick
<1>b. \A n \in Try : sender[n] = "ready" \/ charge[n] = "coming" => age' <= born[n] + 1
  BY Numbers DEF Tick
<1>1. TypeOK'
  BY <1>a DEF IInv, TypeOK
<1>2. OneWay'
  BY <1>a DEF IInv, OneWay
<1>3. PixIsKnown'
  BY <1>a DEF IInv, PixIsKnown
<1>4. PixReadingsHold'
  BY <1>a DEF IInv, PixReadingsHold
<1>5. SentInTime'
  BY <1>a, <1>b DEF IInv, SentInTime
<1>6. ClosedForGood'
  BY <1>a DEF IInv, ClosedForGood
<1>7. EndsAsItsCharge' /\ ReadingsHold' /\ OneTryAtATime' /\ OnePays' /\ SoldAsPaid'
  BY <1>a DEF IInv, EndsAsItsCharge, ReadingsHold, OneTryAtATime, OnePays, SoldAsPaid
<1>8. SaleStep
  BY <1>a, QuietStep DEF PaidSame
<1>9. QED  BY <1>1, <1>2, <1>3, <1>4, <1>5, <1>6, <1>7, <1>8 DEF IInv

-----------------------------------------------------------------------------
(* An order just made satisfies the inductive invariant.                    *)
LEMMA InitKeeps == Init => IInv
<1>. SUFFICES ASSUME Init PROVE IInv
  OBVIOUS
<1>1. method \in {"PIX", "CARD"} /\ MaxTries \in Nat /\ MaxTries # 0
  BY MethodAssumption, BoundsAssumption DEF Init
<1>2. /\ method = "PIX" => pix = "CREATING" /\ caller = "calling" /\ made = 0
      /\ method = "CARD" => pix = "NONE" /\ caller = "done" /\ made = 1
      /\ try \in [Try -> {"NONE", "SUBMITTING"}] /\ sender \in [Try -> {"ready", "done"}]
      /\ \A n \in Try : /\ try[n] = "SUBMITTING" => n = 1
                        /\ n > made <=> try[n] = "NONE"
                        /\ n > made <=> sender[n] = "done"
  BY <1>1 DEF Init
<1>3. TypeOK
  BY <1>1, <1>2, BoundsAssumption
  DEF Init, TypeOK, OrderStatus, PixStatus, TryStatus, Charge
<1>4. OneWay /\ PixIsKnown /\ PixReadingsHold
  BY <1>2 DEF Init, OneWay, PixIsKnown, PixReadingsHold
<1>5. SentInTime
  BY <1>2 DEF Init, SentInTime
<1>6. EndsAsItsCharge /\ ReadingsHold /\ OneTryAtATime /\ OnePays
  BY <1>2 DEF Init, EndsAsItsCharge, ReadingsHold, OneTryAtATime, OnePays
<1>7. SoldAsPaid /\ ClosedForGood
  BY <1>1, <1>2 DEF Init, SoldAsPaid, ClosedForGood
<1>. QED  BY <1>3, <1>4, <1>5, <1>6, <1>7 DEF IInv

(* Every step preserves it, and is a step of the sale or leaves it alone.   *)
LEMMA StepKeeps == IInv /\ [Next]_vars => IInv' /\ SaleStep
<1>. SUFFICES ASSUME IInv, [Next]_vars PROVE IInv' /\ SaleStep
  OBVIOUS
<1>1. CASE UNCHANGED vars
  BY <1>1, QuietStep DEF PaidSame, vars, IInv, TypeOK, OneWay, PixIsKnown, PixReadingsHold, SentInTime,
     EndsAsItsCharge, ReadingsHold, OneTryAtATime, OnePays, SoldAsPaid, ClosedForGood
<1>2. CASE CallPix \/ RecordPix \/ EfiCreatesPix \/ BuyerPays \/ PixNotice
  BY <1>2, CallPixKeeps, RecordPixKeeps, EfiCreatesPixKeeps, BuyerPaysKeeps, PixNoticeKeeps
<1>3. CASE \E by \in {"uncertain", "overdue"} : ReadPix(by)
  BY <1>3, ReadPixKeeps
<1>4. CASE \E f \in found : ApplyPix(f)
  BY <1>4, ApplyPixKeeps
<1>5. CASE \E r \in Request : Ask(r) \/ Refuse(r) \/ \E amount \in Total : Reserve(r, amount)
  BY <1>5, AskKeeps, RefuseKeeps, ReserveKeeps
<1>6. CASE \E n \in Try : Send(n) \/ EfiCharges(n) \/ Look(n) \/ NotFound(n) \/ ConfirmCard(n)
  BY <1>6, SendKeeps, EfiChargesKeeps, LookKeeps, NotFoundKeeps, ConfirmCardKeeps
<1>7. CASE \E o \in sees : Observe(o)
  BY <1>7, ObserveKeeps
<1>8. CASE CloseOverdue \/ Stop \/ Tick
  BY <1>8, CloseOverdueKeeps, StopKeeps, TickKeeps
<1>. QED  BY <1>1, <1>2, <1>3, <1>4, <1>5, <1>6, <1>7, <1>8 DEF Next

THEOREM Invariant == Spec => []IInv
BY InitKeeps, StepKeeps, PTL DEF Spec

-----------------------------------------------------------------------------
(* Orders, tries and what was read of them range over what the schema and   *)
(* the code allow.                                                          *)
THEOREM TypeCorrect == Spec => []TypeOK
<1>1. IInv => TypeOK
  BY DEF IInv
<1>. QED  BY <1>1, Invariant, PTL

(* However many requests ask for another try, and whatever answers are      *)
(* lost, at most one try of an order is in progress.                        *)
THEOREM TriesTakeTurns == Spec => []OneTryAtATime
<1>1. IInv => OneTryAtATime
  BY DEF IInv
<1>. QED  BY <1>1, Invariant, PTL

(* No order, try or Pix is closed as unpaid that Efi was paid for or may    *)
(* still be, however late its answers, notices and readings are.            *)
THEOREM PaymentsAreKept == Spec => []NothingPaidIsGivenUp
<1>1. IInv => NothingPaidIsGivenUp
  <2>. SUFFICES ASSUME IInv PROVE NothingPaidIsGivenUp
    OBVIOUS
  <2>1. ASSUME order \in Closed
        PROVE  PaidAtEfi = {} /\ \A n \in Try : charge[n] \notin {"coming", "approved"}
    <3>1. \A n \in Try : charge[n] \notin Alive
      BY <2>1 DEF IInv, ClosedForGood, EndsAsItsCharge, SoldAsPaid
    <3>. QED  BY <2>1, <3>1 DEF PaidAtEfi, IInv, ClosedForGood
  <2>2. \A n \in Try : try[n] \in {"DECLINED", "CANCELED"} =>
          charge[n] \notin {"coming", "approved", "paid"} /\ sender[n] # "ready"
    BY DEF IInv, EndsAsItsCharge, SentInTime
  <2>3. pix \in {"FAILED", "EXPIRED"} => efiPix # "paid"
    BY DEF IInv, PixIsKnown
  <2>. QED  BY <2>1, <2>2, <2>3 DEF NothingPaidIsGivenUp
<1>. QED  BY <1>1, Invariant, PTL

(* The payment of an order implements the sale of CheckoutSale: made once,  *)
(* for an amount Efi was really paid, never changed afterwards, with one    *)
(* notice, and closed only with nothing paid.                               *)
THEOREM ImplementsSale == Spec => SoldOnceForWhatWasPaid
<1>1. Init => Sale!Init
  BY DEF Init, Sale!Init, PaidAtEfi
<1>2. IInv /\ [Next]_vars => [Sale!Next]_(Sale!vars)
  BY StepKeeps DEF SaleStep
<1>. QED  BY <1>1, <1>2, Invariant, PTL DEF Spec, SoldOnceForWhatWasPaid, Sale!Spec

-----------------------------------------------------------------------------
(***************************************************************************)
(* Sums over finite sets, as the folds of the community modules make them. *)
(***************************************************************************)
(* Induction on the natural numbers, as a fact about sets.                  *)
LEMMA Climbing ==
  ASSUME NEW T, 0 \in T, \A n \in Nat : n \in T => n + 1 \in T
  PROVE  Nat \subseteq T
<1>. SUFFICES ASSUME Nat \ T # {} PROVE FALSE
  OBVIOUS
<1>0. \E n \in Nat \ T : \A m \in Nat \ T : ~(m < n)
  <2>1. PICK n \in Nat \ T : \A m \in Nat \ T : <<m, n>> \notin OpToRel(<, Nat)
    BY WFMin, NatLessThanWellFounded
  <2>. QED  BY <2>1 DEF OpToRel
<1>1. PICK n \in Nat \ T : \A m \in Nat \ T : ~(m < n)
  BY <1>0
<1>2. n # 0 /\ n - 1 \in Nat
  BY <1>1
<1>3. n - 1 \in T
  BY <1>1, <1>2
<1>4. (n - 1) + 1 = n
  BY <1>1
<1>. QED  BY <1>1, <1>2, <1>3, <1>4

(* The subsets of up to n elements, by the number of those they have.       *)
Small(S, n) == {s \in SUBSET S : Cardinality(s) <= n}

LEMMA SmallOnes ==
  ASSUME NEW S, IsFiniteSet(S)
  PROVE  /\ Small(S, 0) = {{}} /\ Cardinality(S) \in Nat /\ Small(S, Cardinality(S)) = SUBSET S
         /\ \A n \in Nat : Small(S, n) \subseteq Small(S, n + 1)
         /\ \A n \in Nat : \A s \in Small(S, n + 1) : \A x \in s : s \ {x} \in Small(S, n)
<1>1. \A s \in SUBSET S : IsFiniteSet(s) /\ Cardinality(s) \in Nat /\ Cardinality(s) <= Cardinality(S)
  BY FS_Subset, FS_CardinalityType
<1>2. \A s \in SUBSET S : Cardinality(s) = 0 <=> s = {}
  BY <1>1, FS_EmptySet
<1>3. \A s \in SUBSET S : \A x \in s : Cardinality(s \ {x}) = Cardinality(s) - 1
  BY <1>1, FS_RemoveElement
<1>4. Small(S, 0) = {{}}
  BY <1>1, <1>2 DEF Small
<1>5. Cardinality(S) \in Nat /\ Small(S, Cardinality(S)) = SUBSET S
  BY <1>1, FS_CardinalityType DEF Small
<1>6. \A n \in Nat : Small(S, n) \subseteq Small(S, n + 1)
  BY <1>1 DEF Small
<1>7. ASSUME NEW n \in Nat, NEW s \in Small(S, n + 1), NEW x \in s PROVE s \ {x} \in Small(S, n)
  <2>1. s \in SUBSET S /\ Cardinality(s) \in Nat /\ Cardinality(s) <= n + 1
    BY <1>1 DEF Small
  <2>2. s \ {x} \in SUBSET S /\ Cardinality(s \ {x}) = Cardinality(s) - 1
    BY <1>3, <2>1
  <2>. QED  BY <2>1, <2>2 DEF Small
<1>. QED  BY <1>4, <1>5, <1>6, <1>7

(* The recursion by which a fold goes through a set.                        *)
Body(f, g, s) == IF s = {} THEN 0 ELSE LET x == CHOOSE y \in s : TRUE IN f[x] + g[s \ {x}]

LEMMA FoldIs ==
  ASSUME NEW S, IsFiniteSet(S), NEW f
  PROVE  \E g : g = [s \in SUBSET S |-> Body(f, g, s)]
<1>. DEFINE UpTo == {n \in Nat : \E g : g = [s \in Small(S, n) |-> Body(f, g, s)]}
<1>1. 0 \in UpTo
  <2>1. \A g : [s \in Small(S, 0) |-> Body(f, g, s)] = [s \in Small(S, 0) |-> 0]
    BY SmallOnes DEF Body
  <2>2. \E g : g = [s \in Small(S, 0) |-> Body(f, g, s)]
    BY <2>1
  <2>. QED  BY <2>2
<1>2. ASSUME NEW n \in Nat, n \in UpTo PROVE n + 1 \in UpTo
  <2>1. PICK h : h = [s \in Small(S, n) |-> Body(f, h, s)]
    BY <1>2
  <2>. DEFINE g == [s \in Small(S, n + 1) |-> IF s \in Small(S, n) THEN h[s] ELSE Body(f, h, s)]
  <2>2. ASSUME NEW s \in Small(S, n + 1) PROVE g[s] = Body(f, g, s)
    <3>1. ASSUME s # {} PROVE Body(f, g, s) = Body(f, h, s)
      <4>1. PICK x \in s : x = CHOOSE y \in s : TRUE
        BY <3>1
      <4>2. s \ {x} \in Small(S, n) /\ s \ {x} \in Small(S, n + 1)
        BY <4>1, SmallOnes
      <4>3. g[s \ {x}] = h[s \ {x}]
        BY <4>2
      <4>. QED  BY <3>1, <4>1, <4>3 DEF Body
    <3>2. Body(f, g, s) = Body(f, h, s)
      BY <3>1 DEF Body
    <3>3. s \in Small(S, n) => h[s] = Body(f, h, s)
      BY <2>1
    <3>. QED  BY <3>2, <3>3
  <2>3. g = [s \in Small(S, n + 1) |-> g[s]]
    OBVIOUS
  <2>. HIDE DEF g
  <2>4. g = [s \in Small(S, n + 1) |-> Body(f, g, s)]
    BY <2>2, <2>3
  <2>5. \E k : k = [s \in Small(S, n + 1) |-> Body(f, k, s)]
    BY <2>4
  <2>. QED  BY <2>5
<1>3. Cardinality(S) \in UpTo
  <2>. HIDE DEF UpTo
  <2>. QED  BY <1>1, <1>2, Climbing, SmallOnes
<1>. QED  BY <1>3, SmallOnes

Folded(g, S, f) == g = [s \in SUBSET S |-> Body(f, g, s)]

(* What a sum over the subsets of S is.                                     *)
Sums(g, S, f) ==
  /\ \A s \in SUBSET S : g[s] \in Nat
  /\ g[{}] = 0
  /\ \A s \in SUBSET S : \A x \in s : g[s] = f[x] + g[s \ {x}]

LEMMA Added ==
  ASSUME NEW a \in Nat, NEW b \in Nat, NEW sum, sum = a + b
  PROVE  sum \in Nat
OBVIOUS

LEMMA Swapped ==
  ASSUME NEW a \in Nat, NEW b \in Nat, NEW r \in Nat
  PROVE  a + (b + r) = b + (a + r)
OBVIOUS

LEMMA FoldSums ==
  ASSUME NEW S, IsFiniteSet(S), NEW f \in [S -> Nat], NEW g, Folded(g, S, f)
  PROVE  Sums(g, S, f)
<1>1. \A s \in SUBSET S : g[s] = Body(f, g, s)
  BY DEF Folded
<1>. DEFINE Good == {s \in SUBSET S : g[s] \in Nat /\ \A x \in s : g[s] = f[x] + g[s \ {x}]}
            UpTo == {n \in Nat : Small(S, n) \subseteq Good}
<1>2. g[{}] = 0
  BY <1>1 DEF Body
<1>0. {} \in Good
  BY <1>2
<1>3. 0 \in UpTo
  <2>1. Small(S, 0) = {{}}
    BY SmallOnes
  <2>. HIDE DEF Good
  <2>. QED  BY <1>0, <2>1
<1>4. ASSUME NEW n \in Nat, n \in UpTo PROVE n + 1 \in UpTo
  <2>8. n + 1 \in Nat
    OBVIOUS
  <2>. SUFFICES ASSUME NEW s \in Small(S, n + 1), s # {} PROVE s \in Good
    <3>. HIDE DEF Good
    <3>1. SUFFICES ASSUME NEW s \in Small(S, n + 1) PROVE s \in Good
      BY <2>8, Zenon
    <3>. QED  BY <1>0
  <2>0. s \in SUBSET S /\ \A x \in s : f[x] \in Nat
    BY DEF Small
  <2>1. PICK c \in s : c = CHOOSE y \in s : TRUE
    OBVIOUS
  <2>2. \A x \in s : s \ {x} \in Good
    BY <1>4, SmallOnes
  <2>3. g[s] = f[c] + g[s \ {c}]
    BY <1>1, <2>0, <2>1 DEF Body
  <2>7. \A x \in s : g[s \ {x}] \in Nat
    BY <2>2
  <2>5. g[s] \in Nat
    BY <2>0, <2>1, <2>3, <2>7, Added, Zenon
  <2>6. ASSUME NEW x \in s, x # c PROVE g[s] = f[x] + g[s \ {x}]
    <3>1. x \in s \ {c} /\ c \in s \ {x} /\ (s \ {c}) \ {x} = (s \ {x}) \ {c}
      BY <2>6
    <3>2. g[s \ {c}] = f[x] + g[(s \ {c}) \ {x}]
      BY <2>2, <3>1
    <3>3. g[s \ {x}] = f[c] + g[(s \ {x}) \ {c}]
      BY <2>2, <3>1
    <3>4. (s \ {x}) \ {c} \in Good
      <4>1. s \ {x} \in Small(S, n) /\ c \in s \ {x}
        BY <3>1, SmallOnes
      <4>2. Small(S, n) \subseteq Small(S, n + 1)
        BY SmallOnes
      <4>3. (s \ {x}) \ {c} \in Small(S, n)
        <5>1. \A r \in Small(S, n + 1) : \A y \in r : r \ {y} \in Small(S, n)
          BY SmallOnes
        <5>. QED  BY <4>1, <4>2, <5>1
      <4>. QED  BY <1>4, <4>3
    <3>6. g[(s \ {x}) \ {c}] \in Nat /\ f[x] \in Nat /\ f[c] \in Nat
      BY <2>0, <3>4
    <3>. HIDE DEF Good
    <3>7. g[s \ {c}] = f[x] + g[(s \ {x}) \ {c}]
      BY <3>1, <3>2, Zenon
    <3>8. f[c] + (f[x] + g[(s \ {x}) \ {c}]) = f[x] + (f[c] + g[(s \ {x}) \ {c}])
      BY <3>6, Swapped, Zenon
    <3>. QED  BY <2>3, <3>3, <3>7, <3>8, Zenon
  <2>. QED  BY <2>0, <2>3, <2>5, <2>6
<1>5. Cardinality(S) \in UpTo
  <2>. HIDE DEF UpTo
  <2>. QED  BY <1>3, <1>4, Climbing, SmallOnes
<1>6. SUBSET S \subseteq Good
  BY <1>5, SmallOnes
<1>. QED  BY <1>2, <1>6 DEF Sums

LEMMA SameSums ==
  ASSUME NEW S, IsFiniteSet(S), NEW f, NEW e, NEW g, NEW h, Sums(g, S, f), Sums(h, S, e),
         NEW T \in SUBSET S, \A x \in T : f[x] = e[x]
  PROVE  g[T] = h[T]
<1>. DEFINE UpTo == {n \in Nat : \A s \in Small(T, n) : g[s] = h[s]}
<1>0. IsFiniteSet(T)
  BY FS_Subset
<1>1. 0 \in UpTo
  BY <1>0, SmallOnes DEF Sums
<1>2. ASSUME NEW n \in Nat, n \in UpTo PROVE n + 1 \in UpTo
  <2>. SUFFICES ASSUME NEW s \in Small(T, n + 1) PROVE g[s] = h[s]
    OBVIOUS
  <2>1. CASE s = {}
    BY <2>1 DEF Sums
  <2>2. ASSUME NEW x \in s PROVE g[s] = h[s]
    <3>1. s \ {x} \in Small(T, n)
      BY <1>0, SmallOnes
    <3>2. g[s \ {x}] = h[s \ {x}]
      BY <1>2, <3>1
    <3>3. s \in SUBSET S /\ x \in T
      BY DEF Small
    <3>. QED  BY <3>2, <3>3 DEF Sums
  <2>. QED  BY <2>1, <2>2
<1>3. Cardinality(T) \in UpTo
  <2>. HIDE DEF UpTo
  <2>. QED  BY <1>0, <1>1, <1>2, Climbing, SmallOnes
<1>. QED  BY <1>0, <1>3, SmallOnes

-----------------------------------------------------------------------------
(***************************************************************************)
(* The refunds of a sale.                                                  *)
(***************************************************************************)
LEMMA SumTo ==
  ASSUME NEW S, IsFiniteSet(S), NEW f \in [S -> Nat]
  PROVE  \E g : Sums(g, S, f) /\ R!Sum(f) = g[S]
<1>1. R!Sum(f) = LET iter[s \in SUBSET DOMAIN f] ==
                       IF s = {} THEN 0 ELSE LET x == CHOOSE y \in s : TRUE IN f[x] + iter[s \ {x}]
                 IN iter[DOMAIN f]
  BY DEF R!Sum, R!MapThenSumSet, R!MapThenFoldSet
<1>. DEFINE g == CHOOSE g : g = [s \in SUBSET S |-> Body(f, g, s)]
<1>2. DOMAIN f = S
  OBVIOUS
<1>3. R!Sum(f) = g[S]
  BY <1>1, <1>2 DEF Body
<1>4. g = [s \in SUBSET S |-> Body(f, g, s)]
  BY FoldIs
<1>. HIDE DEF g
<1>5. Sums(g, S, f)
  BY <1>4, FoldSums DEF Folded
<1>. QED  BY <1>3, <1>5

LEMMA SumGrows ==
  ASSUME NEW S, IsFiniteSet(S), NEW f \in [S -> Nat], NEW k \in S, f[k] = 0, NEW amount \in Nat
  PROVE  /\ R!Sum(f) \in Nat
         /\ R!Sum([f EXCEPT ![k] = amount]) = R!Sum(f) + amount
<1>. DEFINE e == [f EXCEPT ![k] = amount]
<1>1. PICK g : Sums(g, S, f) /\ R!Sum(f) = g[S]
  BY SumTo
<1>2. e \in [S -> Nat] /\ e[k] = amount /\ \A x \in S \ {k} : f[x] = e[x]
  OBVIOUS
<1>. HIDE DEF e
<1>3. PICK h : Sums(h, S, e) /\ R!Sum(e) = h[S]
  BY <1>2, SumTo
<1>4. S \ {k} \in SUBSET S
  OBVIOUS
<1>5. g[S \ {k}] = h[S \ {k}]
  BY <1>1, <1>2, <1>3, <1>4, SameSums
<1>6. /\ g[S] = f[k] + g[S \ {k}] /\ h[S] = e[k] + h[S \ {k}]
      /\ g[S \ {k}] \in Nat
  BY <1>1, <1>3, <1>4 DEF Sums
<1>7. R!Sum(e) = R!Sum(f) + amount /\ R!Sum(f) \in Nat
  BY <1>1, <1>2, <1>3, <1>5, <1>6
<1>. QED  BY <1>7 DEF e

LEMMA SumOfNothing ==
  ASSUME NEW S, IsFiniteSet(S)
  PROVE  R!Sum([k \in S |-> 0]) = 0
<1>. DEFINE z == [k \in S |-> 0]
            UpTo(g) == {n \in Nat : \A s \in Small(S, n) : g[s] = 0}
<1>1. z \in [S -> Nat] /\ \A x \in S : z[x] = 0
  OBVIOUS
<1>. HIDE DEF z
<1>2. PICK g : Sums(g, S, z) /\ R!Sum(z) = g[S]
  BY <1>1, SumTo
<1>3. 0 \in UpTo(g)
  BY <1>2, SmallOnes DEF Sums
<1>4. ASSUME NEW n \in Nat, n \in UpTo(g) PROVE n + 1 \in UpTo(g)
  <2>. SUFFICES ASSUME NEW s \in Small(S, n + 1) PROVE g[s] = 0
    OBVIOUS
  <2>1. CASE s = {}
    BY <1>2, <2>1 DEF Sums
  <2>2. ASSUME NEW x \in s PROVE g[s] = 0
    <3>1. g[s \ {x}] = 0
      BY <1>4, SmallOnes
    <3>2. s \in SUBSET S /\ z[x] = 0
      BY <1>1 DEF Small
    <3>3. g[s] = z[x] + g[s \ {x}]
      BY <1>2, <3>2 DEF Sums
    <3>. QED  BY <3>1, <3>2, <3>3
  <2>. QED  BY <2>1, <2>2
<1>5. Cardinality(S) \in UpTo(g)
  <2>. HIDE DEF UpTo
  <2>. QED  BY <1>3, <1>4, Climbing, SmallOnes
<1>6. g[S] = 0
  BY <1>5, SmallOnes
<1>. QED  BY <1>2, <1>6 DEF z

(* The part of the fee that goes back grows with what is returned.          *)
PartOf(n) == R!RoundDiv(SaleFee * R!AtMost(SaleTotal, n), SaleTotal)

LEMMA QuotientGrows ==
  ASSUME NEW a \in Nat, NEW b \in Nat, a <= b, NEW d \in Nat \ {0}
  PROVE  a \div d \in Nat /\ a \div d <= b \div d
OBVIOUS

LEMMA ProductGrows ==
  ASSUME NEW f \in Nat, NEW a \in Nat, NEW b \in Nat, a <= b
  PROVE  f * a \in Nat /\ f * b \in Nat /\ f * a <= f * b
OBVIOUS

LEMMA PartGrows ==
  ASSUME NEW a \in Nat, NEW b \in Nat, a <= b
  PROVE  PartOf(a) \in Nat /\ PartOf(a) <= PartOf(b) /\ PartOf(b) \in Nat
<1>. DEFINE least(n) == R!AtMost(SaleTotal, n)
            whole(n) == 2 * (SaleFee * least(n)) + SaleTotal
<1>1. SaleTotal \in Nat \ {0} /\ SaleFee \in Nat
  BY RefundAssumption
<1>2. least(a) \in Nat /\ least(b) \in Nat /\ least(a) <= least(b)
  BY <1>1 DEF R!AtMost
<1>3. /\ SaleFee * least(a) \in Nat /\ SaleFee * least(b) \in Nat
      /\ SaleFee * least(a) <= SaleFee * least(b)
  BY <1>1, <1>2, ProductGrows
<1>4. whole(a) \in Nat /\ whole(b) \in Nat /\ whole(a) <= whole(b) /\ 2 * SaleTotal \in Nat \ {0}
  BY <1>1, <1>3
<1>5. PartOf(a) = whole(a) \div (2 * SaleTotal) /\ PartOf(b) = whole(b) \div (2 * SaleTotal)
  BY DEF PartOf, R!RoundDiv
<1>. HIDE DEF whole
<1>6. /\ whole(a) \div (2 * SaleTotal) \in Nat /\ whole(b) \div (2 * SaleTotal) \in Nat
      /\ whole(a) \div (2 * SaleTotal) <= whole(b) \div (2 * SaleTotal)
  BY <1>4, QuotientGrows
<1>. QED  BY <1>5, <1>6

Requests == [status : {"REQUESTED", "DONE", "WITHDRAWN", "REJECTED"}, until : R!Until]

RefundInv ==
  /\ R!TypeOK
  /\ asking \in Seq(R!Until) /\ request \in Seq(Requests)
  /\ RefundsAddUp

LEMMA RangeOf == ASSUME NEW S, NEW s \in Seq(S) PROVE R!Range(s) \subseteq S
BY DEF R!Range

LEMMA OneRemoved ==
  ASSUME NEW S, NEW s \in Seq(S), NEW i \in DOMAIN s
  PROVE  R!RemoveAt(s, i) \in Seq(S)
<1>1. Len(s) \in Nat /\ i \in 1 .. Len(s)
  OBVIOUS
<1>2. SubSeq(s, 1, i - 1) \in Seq(S) /\ SubSeq(s, i + 1, Len(s)) \in Seq(S)
  BY <1>1, SubSeqProperties
<1>. QED  BY <1>2, ConcatProperties DEF R!RemoveAt

(* What the sums of a sale are, and how a refund adds to them.              *)
LEMMA RefundNumbers ==
  ASSUME RefundInv
  PROVE  /\ SaleTotal \in Nat \ {0} /\ SaleFee \in Nat /\ LastDay \in Nat
         /\ day \in 0 .. LastDay /\ R!Refunded \in Nat
         /\ refund \in [R!Key -> 0 .. SaleTotal] /\ IsFiniteSet(R!Key)
         /\ reversal = PartOf(R!Refunded)
<1>1. IsFiniteSet(R!Key)
  BY RefundAssumption, FS_Union DEF R!Key
<1>2. refund \in [R!Key -> 0 .. SaleTotal] /\ refund \in [R!Key -> Nat]
  BY RefundAssumption DEF RefundInv, R!TypeOK
<1>3. R!Refunded \in Nat
  BY <1>1, <1>2, SumTo DEF R!Refunded, Sums
<1>. QED  BY <1>1, <1>2, <1>3, RefundAssumption
          DEF RefundInv, R!TypeOK, RefundsAddUp, R!RefundsAddUp, PartOf

LEMMA RecordAdds ==
  ASSUME RefundInv, NEW k \in R!Key, NEW amount \in 1 .. SaleTotal, R!Record(k, amount)
  PROVE  /\ refund' \in [R!Key -> 0 .. SaleTotal]
         /\ R!Refunded' = R!Refunded + amount /\ reversal' = PartOf(R!Refunded')
         /\ request' \in Seq(Requests)
         /\ status' = IF R!Refunded + amount >= SaleTotal /\ status = "PAID" THEN "REFUNDED" ELSE status
<1>1. /\ refund[k] = 0 /\ refund' = [refund EXCEPT ![k] = amount]
      /\ reversal' = reversal + (IF R!ReversalNow(amount) > 0 THEN R!ReversalNow(amount) ELSE 0)
      /\ status' = R!StatusAfter(amount)
      /\ request' = [r \in DOMAIN request |->
           IF r \in R!Open THEN [request[r] EXCEPT !.status = "DONE"] ELSE request[r]]
  BY DEF R!Record
<1>2. amount \in Nat /\ refund \in [R!Key -> Nat]
  BY RefundNumbers
<1>3. refund' \in [R!Key -> 0 .. SaleTotal]
  BY <1>1, RefundNumbers
<1>4. R!Refunded' = R!Refunded + amount
  <2>1. R!Sum([refund EXCEPT ![k] = amount]) = R!Sum(refund) + amount
    BY <1>1, <1>2, RefundNumbers, SumGrows
  <2>. QED  BY <1>1, <2>1 DEF R!Refunded
<1>5. /\ R!Refunded \in Nat /\ R!Refunded + amount \in Nat /\ R!Refunded <= R!Refunded + amount
  BY <1>2, RefundNumbers
<1>6. /\ PartOf(R!Refunded) \in Nat /\ PartOf(R!Refunded) <= PartOf(R!Refunded + amount)
      /\ PartOf(R!Refunded + amount) \in Nat
  BY <1>5, PartGrows
<1>7. R!ReversalNow(amount) = PartOf(R!Refunded + amount) - reversal /\ reversal = PartOf(R!Refunded)
  BY RefundNumbers DEF R!ReversalNow, PartOf
<1>8. reversal' = PartOf(R!Refunded + amount)
  BY <1>1, <1>6, <1>7
<1>9. request' \in Seq(Requests)
  <2>1. /\ Len(request) \in Nat /\ DOMAIN request = 1 .. Len(request)
        /\ \A r \in DOMAIN request : request[r] \in Requests
    BY DEF RefundInv
  <2>2. \A r \in DOMAIN request : [request[r] EXCEPT !.status = "DONE"] \in Requests
    BY <2>1 DEF Requests
  <2>3. request' \in [1 .. Len(request) -> Requests]
    BY <1>1, <2>1, <2>2
  <2>. QED  BY <2>1, <2>3
<1>. QED  BY <1>1, <1>3, <1>4, <1>8, <1>9 DEF R!StatusAfter

LEMMA RecordKeeps ==
  ASSUME RefundInv, NEW k \in R!Key, NEW amount \in 1 .. SaleTotal, R!Record(k, amount),
         UNCHANGED <<day, returned, asking>>
  PROVE  RefundInv'
<1>0. R!Refunded \in Nat /\ amount \in Nat /\ R!Refunded' = R!Refunded + amount
  BY RecordAdds, RefundNumbers
<1>1. R!Refunded' \in Nat /\ PartOf(R!Refunded') \in Nat /\ R!Refunded \in Nat /\ amount \in Nat
  BY <1>0, PartGrows
<1>2. R!Range(request)' \subseteq Requests
  BY RecordAdds, RangeOf
<1>3. R!TypeOK'
  BY <1>1, <1>2, RecordAdds DEF RefundInv, R!TypeOK, R!Until, Requests, R!Key
<1>4. RefundsAddUp'
  <2>1. reversal' = PartOf(R!Refunded')
    BY RecordAdds
  <2>2. status' # "CHARGEBACK" => (status' = "REFUNDED" <=> R!Refunded' >= SaleTotal)
    BY <1>1, RecordAdds, RefundNumbers DEF RefundInv, RefundsAddUp, R!RefundsAddUp, R!TypeOK
  <2>. QED  BY <2>1, <2>2 DEF RefundsAddUp, R!RefundsAddUp, PartOf
<1>5. Requests' = Requests /\ R!Until' = R!Until
  BY DEF Requests, R!Until
<1>. QED  BY <1>3, <1>4, <1>5, RecordAdds DEF RefundInv

(* Steps that record no refund.                                             *)
LEMMA RefundsAside ==
  ASSUME RefundInv, UNCHANGED <<refund, reversal>>,
         day' \in 0 .. LastDay, status' \in {status, "CHARGEBACK"},
         returned' \in [Devolution -> 0 .. SaleTotal],
         asking' \in Seq(R!Until), request' \in Seq(Requests)
  PROVE  RefundInv'
<1>1. R!Range(request)' \subseteq Requests /\ R!Range(asking)' \subseteq R!Until
  BY RangeOf
<1>2. R!TypeOK'
  BY <1>1 DEF RefundInv, R!TypeOK, R!Until, Requests, R!Key
<1>3. R!Refunded' = R!Refunded
  BY DEF R!Refunded
<1>4. RefundsAddUp'
  BY <1>3 DEF RefundInv, RefundsAddUp, R!RefundsAddUp
<1>. QED  BY <1>2, <1>4 DEF RefundInv, Requests, R!Until

LEMMA RefundBegins == R!Init => RefundInv
<1>. SUFFICES ASSUME R!Init PROVE RefundInv
  OBVIOUS
<1>1. IsFiniteSet(R!Key)
  BY RefundAssumption, FS_Union DEF R!Key
<1>2. R!Refunded = 0
  BY <1>1, SumOfNothing DEF R!Init, R!Refunded
<1>3. SaleTotal \in Nat \ {0} /\ SaleFee \in Nat /\ LastDay \in Nat
  BY RefundAssumption
<1>4. PartOf(0) = 0
  <2>1. R!AtMost(SaleTotal, 0) = 0 /\ SaleFee * 0 = 0
    BY <1>3 DEF R!AtMost
  <2>2. SaleTotal \div (2 * SaleTotal) = 0
    BY <1>3
  <2>. QED  BY <1>3, <2>1, <2>2 DEF PartOf, R!RoundDiv
<1>5. asking \in Seq(R!Until) /\ request \in Seq(Requests)
  BY DEF R!Init
<1>6. R!TypeOK
  <2>1. R!Range(asking) \subseteq R!Until /\ R!Range(request) \subseteq Requests
    BY <1>5, RangeOf
  <2>. QED  BY <1>3, <2>1 DEF R!Init, R!TypeOK, Requests
<1>7. RefundsAddUp
  BY <1>2, <1>3, <1>4 DEF R!Init, RefundsAddUp, R!RefundsAddUp, PartOf
<1>. QED  BY <1>5, <1>6, <1>7 DEF RefundInv

LEMMA RefundKeeps == ASSUME RefundInv, R!Next PROVE RefundInv'
<1>0. /\ day \in 0 .. LastDay /\ LastDay \in Nat /\ returned \in [Devolution -> 0 .. SaleTotal]
      /\ asking \in Seq(R!Until) /\ request \in Seq(Requests)
  BY RefundAssumption DEF RefundInv, R!TypeOK
<1>1. ASSUME NEW d \in Devolution, R!EfiNotice(d) PROVE RefundInv'
  <2>1. /\ d \in R!Key /\ returned[d] \in 1 .. SaleTotal
        /\ R!Record(d, returned[d]) /\ UNCHANGED <<day, returned, asking>>
    BY <1>0, <1>1, RefundAssumption DEF R!EfiNotice, R!Key
  <2>. QED  BY <2>1, RecordKeeps
<1>2. ASSUME NEW d \in Devolution, NEW amount \in R!Amount, R!EfiReturns(d, amount) PROVE RefundInv'
  <2>1. returned' = [returned EXCEPT ![d] = amount] /\ amount \in 0 .. SaleTotal
    BY <1>2, RefundAssumption DEF R!EfiReturns, R!Amount
  <2>2. UNCHANGED <<day, status, refund, reversal, asking, request>>
    BY <1>2 DEF R!EfiReturns
  <2>. QED  BY <1>0, <2>1, <2>2, RefundsAside
<1>3. ASSUME NEW k \in ByHand, NEW amount \in R!Amount, R!ManualRefund(k, amount) PROVE RefundInv'
  <2>1. /\ k \in R!Key /\ amount \in 1 .. SaleTotal
        /\ R!Record(k, amount) /\ UNCHANGED <<day, returned, asking>>
    BY <1>3 DEF R!ManualRefund, R!Key, R!Amount
  <2>. QED  BY <2>1, RecordKeeps
<1>4. ASSUME NEW origin, R!Ask(origin) PROVE RefundInv'
  <2>1. (IF origin = "BUYER" THEN day + R!Hold ELSE None) \in R!Until
    BY <1>0 DEF R!Until, R!Hold
  <2>2. asking' = Append(asking, IF origin = "BUYER" THEN day + R!Hold ELSE None)
    BY <1>4 DEF R!Ask
  <2>3. UNCHANGED <<day, status, refund, reversal, returned, request>>
    BY <1>4 DEF R!Ask
  <2>4. asking' \in Seq(R!Until)
    BY <1>0, <2>1, <2>2
  <2>. QED  BY <1>0, <2>3, <2>4, RefundsAside
<1>5. ASSUME NEW n, R!Create(n) PROVE RefundInv'
  <2>1. /\ n \in DOMAIN asking /\ asking' = R!RemoveAt(asking, n)
        /\ request' = Append(request, [status |-> "REQUESTED", until |-> asking[n]])
        /\ UNCHANGED <<day, status, refund, reversal, returned>>
    BY <1>5 DEF R!Create
  <2>2. [status |-> "REQUESTED", until |-> asking[n]] \in Requests
    BY <1>0, <2>1 DEF Requests
  <2>3. asking' \in Seq(R!Until) /\ request' \in Seq(Requests)
    BY <1>0, <2>1, <2>2, OneRemoved
  <2>. QED  BY <1>0, <2>1, <2>3, RefundsAside
<1>6. ASSUME NEW r, NEW s \in {"WITHDRAWN", "REJECTED"}, R!Close(r, s) PROVE RefundInv'
  <2>1. /\ r \in DOMAIN request /\ request' = [request EXCEPT ![r].status = s]
        /\ UNCHANGED <<day, status, refund, reversal, returned, asking>>
    BY <1>6 DEF R!Close, R!Open
  <2>. DEFINE q == [request[r] EXCEPT !.status = s]
  <2>2. request[r] \in Requests /\ r \in 1 .. Len(request)
    BY <1>0, <2>1
  <2>3. q \in Requests /\ request' = [request EXCEPT ![r] = q]
    BY <2>1, <2>2 DEF Requests
  <2>. HIDE DEF q
  <2>4. request' \in Seq(Requests)
    BY <1>0, <2>2, <2>3, ExceptSeq
  <2>. QED  BY <1>0, <2>1, <2>4, RefundsAside
<1>7. CASE R!Chargeback
  BY <1>0, <1>7, RefundsAside DEF R!Chargeback
<1>8. CASE R!NextDay
  <2>1. day' \in 0 .. LastDay /\ UNCHANGED <<status, refund, reversal, returned, asking, request>>
    BY <1>0, <1>8 DEF R!NextDay
  <2>. QED  BY <1>0, <2>1, RefundsAside
<1>. QED
  BY <1>1, <1>2, <1>3, <1>4, <1>5, <1>6, <1>7, <1>8 DEF R!Next, R!Withdraw, R!Reject

LEMMA RefundRests == ASSUME RefundInv, UNCHANGED refundVars PROVE RefundInv'
<1>1. day' \in 0 .. LastDay /\ returned' \in [Devolution -> 0 .. SaleTotal]
  BY DEF RefundInv, R!TypeOK, refundVars
<1>. QED  BY <1>1, RefundsAside DEF RefundInv, refundVars

-----------------------------------------------------------------------------
(***************************************************************************)
(* The notices to the seller. The claim of a notice in hand counts from    *)
(* the start of the pass that made it: until it is outlasted, or the       *)
(* notice sent again, nobody else can claim it.                            *)
(***************************************************************************)
Listed == [of : Notice, tries : 0 .. Len(Delay), retry : Int]
Passes ==
  [age : 0 .. PassTime, list : SUBSET Listed,
   hand : [was : Listed, since : Nat, sent : BOOLEAN] \cup {None}]

Holds(w, n) == pass[w].hand # None /\ pass[w].hand.was.of = n

ClaimsHold ==
  \A w \in Deliverer, n \in Notice : Holds(w, n) /\ n \notin lapsed =>
    /\ pass[w].age < Claim
    /\ row[n].status = "PENDING" => row[n].due = Claim - pass[w].age
    /\ \A x \in Deliverer : Holds(x, n) => x = w

DeliveryInv ==
  /\ D!TypeOK
  /\ row \in [Notice -> D!Row] /\ pass \in [Deliverer -> Passes]
  /\ \A n \in Notice : writes[n] # None => row[n].status = "NONE"
  /\ \A w \in Deliverer :
       /\ \A d \in pass[w].list : row[d.of].status # "NONE"
       /\ pass[w].hand # None => row[pass[w].hand.was.of].status # "NONE"
  /\ ClaimsHold

LEMMA DeliveryNumbers ==
  /\ Claim \in Nat /\ Window \in Nat /\ DisableAfter \in Nat /\ PassTime \in Nat
  /\ MaxAgain \in Nat /\ MaxCrashes \in Nat
  /\ Len(Delay) \in Nat /\ Len(Delay) > 0 /\ \A t \in 1 .. Len(Delay) : Delay[t] \in Nat
BY DeliveryAssumption

(* The rows that the steps write, and where a pass goes on.                 *)
LEMMA RowsWritten ==
  /\ D!Unwritten \in D!Row
  /\ \A t \in 0 .. Len(Delay) : D!Fresh(t) \in D!Row /\ D!Fresh(t).status = "PENDING"
  /\ \A was \in D!Row, s \in {"DELIVERED", "FAILED", "SKIPPED"}, t \in 0 .. Len(Delay) :
       D!Closed(was, s, t) \in D!Row /\ D!Closed(was, s, t).status = s
<1>1. D!Unwritten \in D!Row
  BY DeliveryNumbers DEF D!Unwritten, D!Row
<1>2. ASSUME NEW t \in 0 .. Len(Delay)
      PROVE  D!Fresh(t) \in D!Row /\ D!Fresh(t).status = "PENDING"
  BY DeliveryNumbers DEF D!Fresh, D!Row
<1>3. ASSUME NEW was \in D!Row, NEW s \in {"DELIVERED", "FAILED", "SKIPPED"}, NEW t \in 0 .. Len(Delay)
      PROVE  D!Closed(was, s, t) \in D!Row /\ D!Closed(was, s, t).status = s
  <2>. DEFINE one == [was EXCEPT !.status = s]
              two == [one EXCEPT !.tries = t]
  <2>1. one \in D!Row /\ one.status = s
    BY DEF D!Row
  <2>. HIDE DEF one
  <2>2. two \in D!Row /\ two.status = s
    BY <2>1 DEF D!Row
  <2>. HIDE DEF two
  <2>3. [two EXCEPT !.due = 0] \in D!Row /\ [two EXCEPT !.due = 0].status = s
    BY <2>2 DEF D!Row
  <2>. QED  BY <2>3 DEF D!Closed, one, two
<1>. QED  BY <1>1, <1>2, <1>3

LEMMA TriesCounted ==
  ASSUME NEW t \in 0 .. Len(Delay)
  PROVE  D!AtMost(t + 1, Len(Delay)) \in 1 .. Len(Delay)
BY DeliveryNumbers DEF D!AtMost

LEMMA RetryIs ==
  ASSUME NEW was \in Listed, NEW now \in D!Row, NEW spent \in 0 .. PassTime
  PROVE  D!Retry(was, now, spent) \in D!Row /\ D!Retry(was, now, spent).status \in {"PENDING", "FAILED"}
<1>. DEFINE tries == D!AtMost(was.tries + 1, Len(Delay))
            r == [now EXCEPT !.status = "PENDING", !.tries = tries, !.due = Delay[tries] - spent]
<1>1. was.tries \in 0 .. Len(Delay) /\ was.retry \in Int
  BY DEF Listed
<1>2. tries \in 1 .. Len(Delay) /\ tries \in 0 .. Len(Delay)
  BY <1>1, TriesCounted
<1>. HIDE DEF tries
<1>3. Delay[tries] - spent \in Int
  BY <1>1, <1>2, DeliveryNumbers
<1>4. r \in D!Row /\ r.status = "PENDING"
  BY <1>2, <1>3 DEF D!Row
<1>5. D!Retry(was, now, spent) = IF Delay[tries] > was.retry THEN D!Closed(now, "FAILED", tries) ELSE r
  BY DEF D!Retry, tries
<1>6. D!Closed(now, "FAILED", tries) \in D!Row /\ D!Closed(now, "FAILED", tries).status = "FAILED"
  BY <1>2, RowsWritten
<1>. HIDE DEF r
<1>. QED  BY <1>4, <1>5, <1>6

LEMMA OnwardIs ==
  ASSUME NEW p \in Passes
  PROVE  /\ D!Idle \in Passes /\ D!Onward(p) \in Passes
         /\ D!Onward(p).hand = None /\ D!Onward(p).list \subseteq p.list
BY DeliveryNumbers DEF D!Onward, D!Idle, Passes

LEMMA SkippedIs ==
  ASSUME NEW rows \in [Notice -> D!Row]
  PROVE  /\ D!Skipped(rows) \in [Notice -> D!Row]
         /\ \A n \in Notice : /\ rows[n].status # "NONE" => D!Skipped(rows)[n].status # "NONE"
                              /\ rows[n].status = "NONE" => D!Skipped(rows)[n].status = "NONE"
                              /\ D!Skipped(rows)[n].status # "PENDING"
<1>1. \A n \in Notice : rows[n] \in D!Row /\ rows[n].tries \in 0 .. Len(Delay)
  BY DEF D!Row
<1>2. \A n \in Notice : /\ D!Closed(rows[n], "SKIPPED", rows[n].tries) \in D!Row
                        /\ D!Closed(rows[n], "SKIPPED", rows[n].tries).status = "SKIPPED"
  BY <1>1, RowsWritten
<1>. QED  BY <1>1, <1>2 DEF D!Skipped

(* What a step leaves to a holder of a notice that has not lapsed.          *)
LEMMA Watched ==
  ASSUME D!Watch, pass' \in [Deliverer -> Passes]
  PROVE  /\ lapsed' \subseteq Notice
         /\ \A w \in Deliverer, n \in Notice : Holds(w, n)' /\ n \notin lapsed' =>
              /\ n \notin lapsed /\ pass'[w].age < Claim
              /\ ~(again' > again /\ row'[n] # row[n])
<1>. SUFFICES ASSUME NEW w \in Deliverer, NEW n \in Notice, Holds(w, n)', n \notin lapsed'
              PROVE  /\ n \notin lapsed /\ pass'[w].age < Claim
                     /\ ~(again' > again /\ row'[n] # row[n])
  BY DEF D!Watch
<1>1. w \in D!InHand(n)'
  BY DEF Holds, D!InHand
<1>2. /\ n \notin lapsed /\ ~(again' > again /\ row'[n] # row[n])
      /\ ~(\E x \in D!InHand(n)' : pass'[x].age >= Claim)
  BY <1>1 DEF D!Watch
<1>3. pass'[w].age \in Nat /\ ~(pass'[w].age >= Claim)
  BY <1>1, <1>2 DEF Passes
<1>. QED  BY <1>2, <1>3, DeliveryNumbers

(* The steps that take no row in hand, and leave the times of those in hand *)
(* as they are.                                                             *)
LEMMA DeliveryMoves ==
  ASSUME DeliveryInv, D!Watch,
         rule' \in {"ON", "OFF", "DELETED"},
         failing' = None \/ failing' \in 0 .. DisableAfter + PassTime,
         writes' \in [Notice -> {"ON", "OFF", None}],
         again' \in 0 .. MaxAgain, crashes' \in 0 .. MaxCrashes,
         row' \in [Notice -> D!Row], pass' \in [Deliverer -> Passes],
         \A n \in Notice : row[n].status # "NONE" => row'[n].status # "NONE",
         \A n \in Notice : writes'[n] # None => row'[n].status = "NONE",
         \A w \in Deliverer : \A d \in pass'[w].list : row[d.of].status # "NONE",
         \A w \in Deliverer : pass'[w].hand # None =>
           /\ pass[w].hand # None /\ pass'[w].hand.was.of = pass[w].hand.was.of
           /\ pass'[w].age = pass[w].age,
         \A w \in Deliverer, n \in Notice :
           Holds(w, n)' /\ n \notin lapsed' /\ row'[n].status = "PENDING" =>
             row[n].status = "PENDING" /\ row'[n].due = row[n].due
  PROVE  DeliveryInv'
<1>1. \A w \in Deliverer : /\ pass'[w].age \in 0 .. PassTime
                           /\ \A d \in pass'[w].list : d.of \in Notice
                           /\ pass'[w].hand # None => pass'[w].hand.was.of \in Notice
  BY DEF Passes, Listed
<1>2. \A n \in Notice : row'[n] \in D!Row
  OBVIOUS
<1>3. D!TypeOK'
  BY <1>1, <1>2, Watched DEF D!TypeOK, D!Row
<1>4. \A w \in Deliverer : /\ \A d \in pass'[w].list : row'[d.of].status # "NONE"
                           /\ pass'[w].hand # None => row'[pass'[w].hand.was.of].status # "NONE"
  BY <1>1 DEF DeliveryInv
<1>5. ClaimsHold'
  <2>. SUFFICES ASSUME NEW w \in Deliverer, NEW n \in Notice, Holds(w, n)', n \notin lapsed'
                PROVE  /\ pass'[w].age < Claim
                       /\ row'[n].status = "PENDING" => row'[n].due = Claim - pass'[w].age
                       /\ \A x \in Deliverer : Holds(x, n)' => x = w
    BY DEF ClaimsHold
  <2>1. n \notin lapsed /\ pass'[w].age < Claim
    BY Watched
  <2>2. \A x \in Deliverer : Holds(x, n)' => Holds(x, n) /\ pass'[x].age = pass[x].age
    BY DEF Holds
  <2>3. /\ row[n].status = "PENDING" => row[n].due = Claim - pass[w].age
        /\ \A x \in Deliverer : Holds(x, n) => x = w
    BY <2>1, <2>2 DEF DeliveryInv, ClaimsHold
  <2>. QED  BY <2>1, <2>2, <2>3
<1>. QED  BY <1>3, <1>4, <1>5 DEF DeliveryInv

LEMMA DeliveryTyped ==
  ASSUME DeliveryInv
  PROVE  /\ rule \in {"ON", "OFF", "DELETED"}
         /\ failing = None \/ failing \in 0 .. DisableAfter + PassTime
         /\ writes \in [Notice -> {"ON", "OFF", None}]
         /\ again \in 0 .. MaxAgain /\ crashes \in 0 .. MaxCrashes
         /\ row \in [Notice -> D!Row] /\ pass \in [Deliverer -> Passes]
         /\ \A n \in Notice : row[n] \in D!Row /\ row[n].tries \in 0 .. Len(Delay)
         /\ \A w \in Deliverer : /\ pass[w].age \in 0 .. PassTime
                                 /\ \A d \in pass[w].list : d \in Listed /\ d.of \in Notice
                                 /\ pass[w].hand # None => /\ pass[w].hand.was.of \in Notice
                                                           /\ pass[w].hand.was \in Listed
BY DEF DeliveryInv, D!TypeOK, Passes, Listed, D!Row

LEMMA WritesKeep ==
  ASSUME DeliveryInv, D!Watch, NEW n \in Notice, D!Emit(n) \/ D!Written(n) \/ D!Resend(n)
  PROVE  DeliveryInv'
<1>1. CASE D!Emit(n)
  <2>1. /\ row[n].status = "NONE" /\ rule \in {"ON", "OFF"}
        /\ writes' = [writes EXCEPT ![n] = rule] /\ UNCHANGED <<row, rule, failing, pass, again, crashes>>
    BY <1>1, DeliveryTyped DEF D!Emit
  <2>2. writes' \in [Notice -> {"ON", "OFF", None}]
    BY <2>1, DeliveryTyped
  <2>3. \A m \in Notice : writes'[m] # None => row'[m].status = "NONE"
    BY <2>1, DeliveryTyped DEF DeliveryInv
  <2>. QED  BY <2>1, <2>2, <2>3, DeliveryTyped, DeliveryMoves DEF DeliveryInv
<1>2. CASE D!Written(n)
  <2>. DEFINE r == IF writes[n] = "OFF" THEN D!Closed(D!Fresh(0), "SKIPPED", 0) ELSE D!Fresh(0)
  <2>1. /\ writes[n] # None /\ writes' = [writes EXCEPT ![n] = None] /\ row' = [row EXCEPT ![n] = r]
        /\ UNCHANGED <<rule, failing, pass, again, crashes>>
    BY <1>2 DEF D!Written
  <2>2. r \in D!Row /\ r.status # "NONE"
    <3>1. 0 \in 0 .. Len(Delay)
      BY DeliveryNumbers
    <3>. QED  BY <3>1, RowsWritten
  <2>. HIDE DEF r
  <2>3. row[n].status = "NONE"
    BY <2>1 DEF DeliveryInv
  <2>4. writes' \in [Notice -> {"ON", "OFF", None}] /\ row' \in [Notice -> D!Row]
    BY <2>1, <2>2, DeliveryTyped
  <2>5. \A m \in Notice : /\ row[m].status # "NONE" => row'[m] = row[m]
                          /\ writes'[m] # None => row'[m].status = "NONE"
    BY <2>1, <2>3, DeliveryTyped DEF DeliveryInv
  <2>6. \A w \in Deliverer, m \in Notice : Holds(w, m)' => row'[m] = row[m]
    BY <2>1, <2>5, DeliveryTyped DEF DeliveryInv, Holds
  <2>. QED  BY <2>1, <2>4, <2>5, <2>6, DeliveryTyped, DeliveryMoves DEF DeliveryInv
<1>3. CASE D!Resend(n)
  <2>. DEFINE r == D!Fresh(row[n].tries)
  <2>1. /\ again < MaxAgain /\ again' = again + 1 /\ row' = [row EXCEPT ![n] = r]
        /\ row[n].status \in {"DELIVERED", "FAILED", "SKIPPED"}
        /\ UNCHANGED <<rule, failing, writes, pass, crashes>>
    BY <1>3 DEF D!Resend
  <2>2. r \in D!Row /\ r.status = "PENDING"
    BY DeliveryTyped, RowsWritten
  <2>. HIDE DEF r
  <2>3. row' \in [Notice -> D!Row] /\ again' \in 0 .. MaxAgain /\ again' > again
    BY <2>1, <2>2, DeliveryTyped, DeliveryNumbers
  <2>4. \A m \in Notice : /\ row[m].status # "NONE" => row'[m].status # "NONE"
                          /\ m # n => row'[m] = row[m]
    BY <2>1, <2>2, DeliveryTyped
  <2>5. \A m \in Notice : writes'[m] # None => row'[m].status = "NONE"
    BY <2>1, <2>4 DEF DeliveryInv
  <2>6. \A w \in Deliverer, m \in Notice : Holds(w, m)' /\ m \notin lapsed' => row'[m] = row[m]
    BY <2>1, <2>3, Watched, DeliveryTyped
  <2>. QED  BY <2>1, <2>3, <2>4, <2>5, <2>6, DeliveryTyped, DeliveryMoves DEF DeliveryInv
<1>. QED  BY <1>1, <1>2, <1>3

(* A pass begins, or its process stops.                                     *)
LEMMA PassesBegin ==
  ASSUME DeliveryInv, D!Watch, NEW w \in Deliverer, D!Start(w) \/ D!Stop(w)
  PROVE  DeliveryInv'
<1>1. CASE D!Start(w)
  <2>. DEFINE l == {[of |-> n, tries |-> row[n].tries, retry |-> row[n].retry] :
                      n \in {m \in Notice : D!Pending(m) /\ row[m].due <= 0}}
              p == [pass[w] EXCEPT !.list = l]
  <2>1. /\ pass[w] = D!Idle /\ pass' = [pass EXCEPT ![w].list = l]
        /\ UNCHANGED <<row, rule, failing, writes, again, crashes>>
    BY <1>1 DEF D!Start
  <2>2. l \in SUBSET Listed /\ \A d \in l : row[d.of].status # "NONE"
    BY DeliveryTyped DEF D!Pending, Listed, D!Row
  <2>. HIDE DEF l
  <2>3. p \in Passes /\ p.hand = None /\ p.list = l /\ pass' = [pass EXCEPT ![w] = p]
    BY <2>1, <2>2, DeliveryTyped DEF Passes, D!Idle
  <2>. HIDE DEF p
  <2>4. /\ pass' \in [Deliverer -> Passes]
        /\ \A x \in Deliverer : pass'[x] = IF x = w THEN p ELSE pass[x]
    BY <2>3, DeliveryTyped
  <2>. QED  BY <2>1, <2>2, <2>3, <2>4, DeliveryTyped, DeliveryMoves DEF DeliveryInv
<1>2. CASE D!Stop(w)
  <2>1. /\ crashes' \in 0 .. MaxCrashes /\ pass' = [pass EXCEPT ![w] = D!Idle]
        /\ UNCHANGED <<row, rule, failing, writes, again>>
    BY <1>2, DeliveryTyped, DeliveryNumbers DEF D!Stop
  <2>2. D!Idle \in Passes /\ D!Idle.hand = None /\ D!Idle.list = {}
    BY DeliveryNumbers DEF D!Idle, Passes
  <2>3. /\ pass' \in [Deliverer -> Passes]
        /\ \A x \in Deliverer : pass'[x] = IF x = w THEN D!Idle ELSE pass[x]
    BY <2>1, <2>2, DeliveryTyped
  <2>. QED  BY <2>1, <2>2, <2>3, DeliveryTyped, DeliveryMoves DEF DeliveryInv
<1>. QED  BY <1>1, <1>2

(* A row is taken in hand: nobody has it, unless it has lapsed, for its     *)
(* claim would not be over.                                                 *)
LEMMA ClaimRowKeeps ==
  ASSUME DeliveryInv, D!Watch, NEW w \in Deliverer, NEW d \in pass[w].list, D!ClaimRow(w, d)
  PROVE  DeliveryInv'
<1>. DEFINE rest == [pass[w] EXCEPT !.list = @ \ {d}]
            h == [was |-> d, since |-> rest.age, sent |-> FALSE]
            p == [rest EXCEPT !.hand = h]
            r == [row[d.of] EXCEPT !.due = Claim - pass[w].age]
<1>1. /\ pass[w].hand = None /\ UNCHANGED <<rule, failing, writes, again, crashes>>
      /\ d.of \in Notice /\ d \in Listed /\ pass[w].age \in 0 .. PassTime /\ pass[w] \in Passes
  BY DeliveryTyped DEF D!ClaimRow
<1>2. rest \in Passes /\ rest.list \subseteq pass[w].list /\ rest.age = pass[w].age
  BY <1>1 DEF Passes
<1>3. CASE ~D!Unclaimed(d.of, pass[w].age)
  <2>1. pass' = [pass EXCEPT ![w] = D!Onward(rest)] /\ UNCHANGED row
    BY <1>3 DEF D!ClaimRow
  <2>. HIDE DEF rest
  <2>2. /\ D!Onward(rest) \in Passes /\ D!Onward(rest).hand = None
        /\ D!Onward(rest).list \subseteq pass[w].list
    BY <1>2, OnwardIs
  <2>3. /\ pass' \in [Deliverer -> Passes]
        /\ \A x \in Deliverer : pass'[x] = IF x = w THEN D!Onward(rest) ELSE pass[x]
    BY <2>1, <2>2, DeliveryTyped
  <2>. QED  BY <1>1, <2>1, <2>2, <2>3, DeliveryTyped, DeliveryMoves DEF DeliveryInv
<1>4. CASE D!Unclaimed(d.of, pass[w].age)
  <2>1. /\ row[d.of].status = "PENDING" /\ row[d.of].due <= -pass[w].age
        /\ pass' = [pass EXCEPT ![w] = p] /\ row' = [row EXCEPT ![d.of].due = Claim - pass[w].age]
    BY <1>4 DEF D!ClaimRow, D!Unclaimed, D!Pending
  <2>2. h \in [was : Listed, since : Nat, sent : BOOLEAN] /\ h.was.of = d.of
    BY <1>1, <1>2, DeliveryNumbers
  <2>3. row[d.of] \in D!Row /\ Claim - pass[w].age \in Int
    BY <1>1, DeliveryTyped, DeliveryNumbers
  <2>4. /\ r \in D!Row /\ r.status = "PENDING" /\ r.due = Claim - pass[w].age
        /\ row' = [row EXCEPT ![d.of] = r]
    BY <2>1, <2>3 DEF D!Row
  <2>. HIDE DEF h, rest, r
  <2>5. p \in Passes /\ p.age = pass[w].age /\ p.list \subseteq pass[w].list /\ p.hand = h
    BY <1>2, <2>2 DEF Passes
  <2>. HIDE DEF p
  <2>6. /\ pass' \in [Deliverer -> Passes] /\ row' \in [Notice -> D!Row]
        /\ \A x \in Deliverer : pass'[x] = IF x = w THEN p ELSE pass[x]
        /\ \A m \in Notice : row'[m] = IF m = d.of THEN r ELSE row[m]
    BY <1>1, <2>1, <2>4, <2>5, DeliveryTyped
  <2>7. D!TypeOK'
    <3>1. \A x \in Deliverer : /\ pass'[x].age \in 0 .. PassTime
                               /\ pass'[x].hand # None => pass'[x].hand.was.of \in Notice
      BY <2>6 DEF Passes, Listed
    <3>. QED  BY <1>1, <2>6, <3>1, Watched DEF DeliveryInv, D!TypeOK, D!Row
  <2>8. /\ \A m \in Notice : row'[m].status = row[m].status
        /\ \A x \in Deliverer : /\ \A e \in pass'[x].list : e \in pass[x].list /\ e.of \in Notice
                                /\ pass'[x].hand # None => pass'[x].hand.was.of \in Notice
    BY <2>1, <2>4, <2>5, <2>6, DeliveryTyped DEF Passes, Listed
  <2>9. ASSUME NEW x \in Deliverer, Holds(x, d.of), d.of \notin lapsed PROVE FALSE
    <3>1. pass[x].age < Claim /\ row[d.of].due = Claim - pass[x].age
      BY <1>1, <2>1, <2>9 DEF DeliveryInv, ClaimsHold
    <3>2. pass[x].age \in Nat /\ pass[w].age \in Nat /\ Claim \in Nat /\ row[d.of].due <= -pass[w].age
      BY <1>1, <2>1, DeliveryTyped, DeliveryNumbers
    <3>. QED  BY <3>1, <3>2
  <2>10. ClaimsHold'
    <3>. SUFFICES ASSUME NEW x \in Deliverer, NEW n \in Notice, Holds(x, n)', n \notin lapsed'
                  PROVE  /\ pass'[x].age < Claim
                         /\ row'[n].status = "PENDING" => row'[n].due = Claim - pass'[x].age
                         /\ \A y \in Deliverer : Holds(y, n)' => y = x
      BY DEF ClaimsHold
    <3>1. n \notin lapsed /\ pass'[x].age < Claim
      BY <2>6, Watched
    <3>2. \A y \in Deliverer : y # w => pass'[y] = pass[y] /\ (Holds(y, n)' <=> Holds(y, n))
      BY <2>6 DEF Holds
    <3>3. ~Holds(w, n) /\ (Holds(w, n)' => n = d.of)
      BY <1>1, <2>2, <2>5, <2>6 DEF Holds
    <3>4. CASE n = d.of
      <4>1. \A y \in Deliverer : Holds(y, n)' => y = w
        BY <2>9, <3>1, <3>2, <3>4
      <4>2. row'[n].due = Claim - pass'[w].age
        BY <2>4, <2>5, <2>6, <3>4
      <4>. QED  BY <3>1, <4>1, <4>2
    <3>5. CASE n # d.of
      <4>1. x # w /\ Holds(x, n) /\ row'[n] = row[n] /\ pass'[x] = pass[x]
        BY <2>6, <3>2, <3>3, <3>5
      <4>2. /\ row[n].status = "PENDING" => row[n].due = Claim - pass[x].age
            /\ \A y \in Deliverer : Holds(y, n) => y = x
        BY <3>1, <4>1 DEF DeliveryInv, ClaimsHold
      <4>3. \A y \in Deliverer : Holds(y, n)' => Holds(y, n)
        BY <3>2, <3>3, <3>5
      <4>. QED  BY <3>1, <4>1, <4>2, <4>3
    <3>. QED  BY <3>4, <3>5
  <2>11. /\ \A n \in Notice : writes'[n] # None => row'[n].status = "NONE"
         /\ \A x \in Deliverer : /\ \A e \in pass'[x].list : row'[e.of].status # "NONE"
                                 /\ pass'[x].hand # None => row'[pass'[x].hand.was.of].status # "NONE"
    BY <1>1, <2>1, <2>2, <2>5, <2>6, <2>8, DeliveryTyped DEF DeliveryInv
  <2>. QED  BY <2>6, <2>7, <2>10, <2>11 DEF DeliveryInv
<1>. QED  BY <1>3, <1>4

(* A row leaves the hand that has it.                                       *)
LEMMA HandEnds ==
  ASSUME DeliveryInv, D!Watch, NEW w \in Deliverer, pass[w].hand # None,
         NEW r \in D!Row, r.status # "NONE",
         NEW rows \in [Notice -> D!Row], rows = [row EXCEPT ![pass[w].hand.was.of] = r],
         row' = rows \/ row' = D!Skipped(rows),
         pass' = [pass EXCEPT ![w] = D!Onward(pass[w])],
         rule' \in {"ON", "OFF", "DELETED"},
         failing' = None \/ failing' \in 0 .. DisableAfter + PassTime,
         UNCHANGED <<writes, again, crashes>>
  PROVE  DeliveryInv'
<1>. DEFINE n == pass[w].hand.was.of
<1>1. n \in Notice /\ row[n].status # "NONE" /\ pass[w] \in Passes
  BY DeliveryTyped DEF DeliveryInv
<1>2. \A m \in Notice : rows[m] = IF m = n THEN r ELSE row[m]
  BY <1>1, DeliveryTyped
<1>3. /\ row' \in [Notice -> D!Row]
      /\ \A m \in Notice : /\ rows[m].status # "NONE" => row'[m].status # "NONE"
                           /\ rows[m].status = "NONE" => row'[m].status = "NONE"
                           /\ row'[m].status = "PENDING" => row'[m] = rows[m]
  BY SkippedIs
<1>4. /\ D!Onward(pass[w]) \in Passes /\ D!Onward(pass[w]).hand = None
      /\ D!Onward(pass[w]).list \subseteq pass[w].list
  BY <1>1, OnwardIs
<1>5. /\ pass' \in [Deliverer -> Passes]
      /\ \A x \in Deliverer : pass'[x] = IF x = w THEN D!Onward(pass[w]) ELSE pass[x]
  BY <1>4, DeliveryTyped
<1>. HIDE DEF n
<1>6. \A m \in Notice : /\ row[m].status # "NONE" => row'[m].status # "NONE"
                        /\ writes'[m] # None => row'[m].status = "NONE"
  BY <1>1, <1>2, <1>3 DEF DeliveryInv
<1>7. \A x \in Deliverer : /\ \A d \in pass'[x].list : row[d.of].status # "NONE"
                           /\ pass'[x].hand # None => /\ x # w /\ pass'[x] = pass[x]
                                                      /\ pass[x].hand.was.of \in Notice
  BY <1>4, <1>5, DeliveryTyped DEF DeliveryInv
<1>8. ASSUME NEW x \in Deliverer, NEW m \in Notice, Holds(x, m)', m \notin lapsed' PROVE m # n
  <2>1. m \notin lapsed
    BY <1>5, <1>8, Watched
  <2>2. x # w /\ Holds(x, m)
    BY <1>7, <1>8 DEF Holds
  <2>3. ~Holds(w, m)
    BY <2>1, <2>2 DEF DeliveryInv, ClaimsHold
  <2>. QED  BY <2>3 DEF Holds, n
<1>9. \A x \in Deliverer, m \in Notice :
        Holds(x, m)' /\ m \notin lapsed' /\ row'[m].status = "PENDING" =>
          row[m].status = "PENDING" /\ row'[m].due = row[m].due
  BY <1>2, <1>3, <1>8
<1>. QED  BY <1>3, <1>5, <1>6, <1>7, <1>9, DeliveryTyped, DeliveryMoves

LEMMA HandSends ==
  ASSUME DeliveryInv, D!Watch, NEW w \in Deliverer, D!Send(w)
  PROVE  DeliveryInv'
<1>. DEFINE n == pass[w].hand.was.of
            p == [pass[w] EXCEPT !.hand.sent = TRUE]
<1>1. /\ pass[w].hand # None /\ n \in Notice /\ row[n] \in D!Row /\ row[n].tries \in 0 .. Len(Delay)
      /\ UNCHANGED <<rule, failing, writes, again, crashes>>
  BY DeliveryTyped DEF D!Send
<1>2. CASE rule = "ON"
  <2>1. pass' = [pass EXCEPT ![w] = p] /\ UNCHANGED row
    BY <1>2 DEF D!Send
  <2>2. pass[w] \in Passes /\ pass[w].hand \in [was : Listed, since : Nat, sent : BOOLEAN]
    BY <1>1, DeliveryTyped DEF Passes
  <2>3. /\ p \in Passes /\ p.age = pass[w].age /\ p.list = pass[w].list
        /\ p.hand.was.of = pass[w].hand.was.of
    BY <2>2 DEF Passes
  <2>. HIDE DEF p
  <2>4. /\ pass' \in [Deliverer -> Passes]
        /\ \A x \in Deliverer : pass'[x] = IF x = w THEN p ELSE pass[x]
    BY <2>1, <2>3, DeliveryTyped
  <2>. QED  BY <1>1, <2>1, <2>3, <2>4, DeliveryTyped, DeliveryMoves DEF DeliveryInv
<1>3. CASE rule # "ON"
  <2>. DEFINE r == D!Closed(row[n], "SKIPPED", row[n].tries)
              rows == [row EXCEPT ![n] = r]
  <2>1. row' = rows /\ pass' = [pass EXCEPT ![w] = D!Onward(pass[w])]
    BY <1>3, DeliveryTyped DEF D!Send
  <2>2. r \in D!Row /\ r.status # "NONE"
    BY <1>1, RowsWritten
  <2>. HIDE DEF r
  <2>3. rows \in [Notice -> D!Row]
    BY <1>1, <2>2, DeliveryTyped
  <2>. QED  BY <1>1, <2>1, <2>2, <2>3, DeliveryTyped, HandEnds
<1>. QED  BY <1>2, <1>3

LEMMA SendsEnd ==
  ASSUME DeliveryInv, D!Watch, NEW w \in Deliverer, D!Succeed(w) \/ D!Fail(w)
  PROVE  DeliveryInv'
<1>. DEFINE n == pass[w].hand.was.of
            age0 == pass[w].age
<1>1. /\ pass[w].hand # None /\ n \in Notice /\ pass[w].hand.was \in Listed /\ age0 \in 0 .. PassTime
      /\ row[n] \in D!Row
      /\ pass' = [pass EXCEPT ![w] = D!Onward(pass[w])] /\ UNCHANGED <<writes, again, crashes>>
  BY DeliveryTyped DEF D!Succeed, D!Fail
<1>2. CASE D!Succeed(w)
  <2>. DEFINE t == D!AtMost(pass[w].hand.was.tries + 1, Len(Delay))
              r == D!Closed(row[n], "DELIVERED", t)
              rows == [row EXCEPT ![n] = r]
  <2>1. row' = rows /\ failing' = None /\ rule' = rule
    BY <1>1, <1>2, DeliveryTyped DEF D!Succeed
  <2>2. pass[w].hand.was.tries \in 0 .. Len(Delay)
    BY <1>1 DEF Listed
  <2>3. t \in 0 .. Len(Delay)
    <3>1. t \in 1 .. Len(Delay)
      BY <2>2, TriesCounted
    <3>. QED  BY <3>1
  <2>. HIDE DEF t
  <2>4. r \in D!Row /\ r.status # "NONE"
    BY <1>1, <2>3, RowsWritten
  <2>. HIDE DEF r
  <2>5. rows \in [Notice -> D!Row]
    BY <1>1, <2>4, DeliveryTyped
  <2>. QED  BY <1>1, <2>1, <2>4, <2>5, DeliveryTyped, HandEnds
<1>3. CASE D!Fail(w)
  <2>. DEFINE r == D!Retry(pass[w].hand.was, row[n], age0)
              rows == [row EXCEPT ![n] = r]
  <2>1. /\ row' = rows \/ row' = D!Skipped(rows)
        /\ failing' = IF failing = None THEN age0 ELSE failing
        /\ rule' = "OFF" \/ rule' = rule
    BY <1>1, <1>3, DeliveryTyped DEF D!Fail
  <2>2. r \in D!Row /\ r.status # "NONE"
    BY <1>1, RetryIs
  <2>. HIDE DEF r
  <2>3. rows \in [Notice -> D!Row]
    BY <1>1, <2>2, DeliveryTyped
  <2>4. failing' \in 0 .. DisableAfter + PassTime
    BY <1>1, <2>1, DeliveryTyped, DeliveryNumbers
  <2>. QED  BY <1>1, <2>1, <2>2, <2>3, <2>4, DeliveryTyped, HandEnds
<1>. QED  BY <1>2, <1>3

LEMMA SellerKeeps ==
  ASSUME DeliveryInv, D!Watch, D!Enable \/ D!Update \/ D!Remove
  PROVE  DeliveryInv'
<1>1. /\ rule' \in {"ON", "OFF", "DELETED"} /\ (failing' = None \/ failing' = failing)
      /\ UNCHANGED <<writes, pass, again, crashes>>
  BY DeliveryTyped DEF D!Enable, D!Update, D!Remove
<1>2. row' = row \/ row' = D!Skipped(row)
  BY DEF D!Enable, D!Update, D!Remove
<1>3. /\ row' \in [Notice -> D!Row]
      /\ \A n \in Notice : /\ row[n].status # "NONE" => row'[n].status # "NONE"
                           /\ row[n].status = "NONE" => row'[n].status = "NONE"
                           /\ row'[n].status = "PENDING" => row'[n] = row[n]
  BY <1>2, DeliveryTyped, SkippedIs
<1>4. /\ \A n \in Notice : writes'[n] # None => row'[n].status = "NONE"
      /\ \A w \in Deliverer : \A d \in pass'[w].list : row[d.of].status # "NONE"
  BY <1>1, <1>3, DeliveryTyped DEF DeliveryInv
<1>. QED  BY <1>1, <1>3, <1>4, DeliveryTyped, DeliveryMoves

LEMMA TimeKeeps ==
  ASSUME DeliveryInv, D!Watch, D!Tick
  PROVE  DeliveryInv'
<1>1. /\ \A w \in Deliverer : pass[w] # D!Idle => pass[w].age < PassTime
      /\ \A n \in Notice : writes[n] = None
      /\ pass' = [w \in Deliverer |-> IF pass[w] = D!Idle THEN D!Idle
                                      ELSE [pass[w] EXCEPT !.age = pass[w].age + 1]]
      /\ failing' = IF failing = None THEN None ELSE D!AtMost(failing + 1, DisableAfter + PassTime)
      /\ UNCHANGED <<rule, writes, again, crashes>>
  BY DEF D!Tick
<1>2. row' = [n \in Notice |->
        IF row[n].status = "NONE" THEN row[n]
        ELSE [row[n] EXCEPT
                !.due = IF row[n].status = "PENDING" /\ row[n].due > -PassTime
                        THEN row[n].due - 1 ELSE row[n].due,
                !.retry = IF row[n].retry > 0 THEN row[n].retry - 1 ELSE 0]]
  BY DEF D!Tick, D!Pending
<1>3. \A n \in Notice :
        /\ row'[n] \in D!Row /\ row'[n].status = row[n].status
        /\ row[n].status = "PENDING" /\ row[n].due > -PassTime => row'[n].due = row[n].due - 1
  <2>. SUFFICES ASSUME NEW n \in Notice
                PROVE  /\ row'[n] \in D!Row /\ row'[n].status = row[n].status
                       /\ row[n].status = "PENDING" /\ row[n].due > -PassTime =>
                            row'[n].due = row[n].due - 1
    OBVIOUS
  <2>1. row[n] \in D!Row /\ row[n].due \in Int /\ row[n].retry \in Int
    BY DeliveryTyped DEF D!Row
  <2>2. CASE row[n].status = "NONE"
    BY <1>2, <2>1, <2>2
  <2>3. CASE row[n].status # "NONE"
    <3>. DEFINE due == IF row[n].status = "PENDING" /\ row[n].due > -PassTime
                       THEN row[n].due - 1 ELSE row[n].due
                until == IF row[n].retry > 0 THEN row[n].retry - 1 ELSE 0
                r == [row[n] EXCEPT !.due = due, !.retry = until]
    <3>1. row'[n] = r
      BY <1>2, <2>3
    <3>2. /\ due \in Int /\ until \in Int
          /\ row[n].status = "PENDING" /\ row[n].due > -PassTime => due = row[n].due - 1
      BY <2>1
    <3>. HIDE DEF due, until
    <3>3. r \in D!Row /\ r.status = row[n].status /\ r.due = due
      BY <2>1, <3>2 DEF D!Row
    <3>. HIDE DEF r
    <3>. QED  BY <3>1, <3>2, <3>3
  <2>. QED  BY <2>2, <2>3
<1>4. \A w \in Deliverer :
        /\ pass'[w] \in Passes /\ pass'[w].list = pass[w].list /\ pass'[w].hand = pass[w].hand
        /\ pass[w].hand # None => pass'[w].age = pass[w].age + 1 /\ pass[w].age < PassTime
  <2>. SUFFICES ASSUME NEW w \in Deliverer
                PROVE  /\ pass'[w] \in Passes /\ pass'[w].list = pass[w].list
                       /\ pass'[w].hand = pass[w].hand
                       /\ pass[w].hand # None => pass'[w].age = pass[w].age + 1 /\ pass[w].age < PassTime
    OBVIOUS
  <2>1. pass[w] \in Passes /\ pass[w].age \in 0 .. PassTime
    BY DeliveryTyped
  <2>2. CASE pass[w] = D!Idle
    BY <1>1, <2>1, <2>2 DEF D!Idle
  <2>3. CASE pass[w] # D!Idle
    <3>1. pass'[w] = [pass[w] EXCEPT !.age = pass[w].age + 1] /\ pass[w].age + 1 \in 0 .. PassTime
      BY <1>1, <2>1, <2>3, DeliveryNumbers
    <3>. QED  BY <1>1, <2>1, <2>3, <3>1 DEF Passes
  <2>. QED  BY <2>2, <2>3
<1>5. row' \in [Notice -> D!Row] /\ pass' \in [Deliverer -> Passes]
  BY <1>1, <1>2, <1>3, <1>4
<1>6. failing' = None \/ failing' \in 0 .. DisableAfter + PassTime
  BY <1>1, DeliveryTyped, DeliveryNumbers DEF D!AtMost
<1>7. D!TypeOK'
  <2>1. \A w \in Deliverer : /\ pass'[w].age \in 0 .. PassTime
                             /\ pass'[w].hand # None => pass'[w].hand.was.of \in Notice
    BY <1>4 DEF Passes, Listed
  <2>. QED  BY <1>1, <1>3, <1>5, <1>6, <2>1, DeliveryTyped, Watched DEF D!TypeOK
<1>8. /\ \A n \in Notice : writes'[n] # None => row'[n].status = "NONE"
      /\ \A w \in Deliverer :
           /\ \A d \in pass'[w].list : row'[d.of].status # "NONE"
           /\ pass'[w].hand # None => row'[pass'[w].hand.was.of].status # "NONE"
  BY <1>1, <1>3, <1>4, DeliveryTyped DEF DeliveryInv
<1>9. ClaimsHold'
  <2>. SUFFICES ASSUME NEW w \in Deliverer, NEW n \in Notice, Holds(w, n)', n \notin lapsed'
                PROVE  /\ pass'[w].age < Claim
                       /\ row'[n].status = "PENDING" => row'[n].due = Claim - pass'[w].age
                       /\ \A x \in Deliverer : Holds(x, n)' => x = w
    BY DEF ClaimsHold
  <2>1. n \notin lapsed /\ pass'[w].age < Claim
    BY <1>5, Watched
  <2>2. \A x \in Deliverer : Holds(x, n)' => Holds(x, n)
    BY <1>4 DEF Holds
  <2>3. /\ pass[w].age < Claim
        /\ row[n].status = "PENDING" => row[n].due = Claim - pass[w].age
        /\ \A x \in Deliverer : Holds(x, n) => x = w
    BY <2>1, <2>2 DEF DeliveryInv, ClaimsHold
  <2>4. ASSUME row'[n].status = "PENDING" PROVE row'[n].due = Claim - pass'[w].age
    <3>1. pass[w].age \in 0 .. PassTime /\ pass'[w].age = pass[w].age + 1
      BY <1>4, <2>2, DeliveryTyped DEF Holds
    <3>2. row[n].status = "PENDING" /\ row[n].due = Claim - pass[w].age
      BY <1>3, <2>3, <2>4
    <3>3. row[n].due > -PassTime
      BY <2>3, <3>1, <3>2, DeliveryNumbers
    <3>4. row'[n].due = row[n].due - 1
      BY <1>3, <3>2, <3>3
    <3>. QED  BY <3>1, <3>2, <3>4, DeliveryNumbers
  <2>. QED  BY <2>1, <2>2, <2>3, <2>4
<1>. QED  BY <1>5, <1>7, <1>8, <1>9 DEF DeliveryInv

LEMMA DeliveryBegins == D!Init => DeliveryInv
<1>. SUFFICES ASSUME D!Init PROVE DeliveryInv
  OBVIOUS
<1>1. /\ D!Unwritten \in D!Row /\ D!Unwritten.status = "NONE"
      /\ D!Idle \in Passes /\ D!Idle.hand = None /\ D!Idle.list = {} /\ D!Idle.age = 0
  BY DeliveryNumbers, RowsWritten DEF D!Idle, Passes, D!Unwritten
<1>2. row \in [Notice -> D!Row] /\ pass \in [Deliverer -> Passes]
  BY <1>1 DEF D!Init
<1>3. D!TypeOK
  BY <1>1, DeliveryNumbers DEF D!Init, D!TypeOK
<1>. QED  BY <1>1, <1>2, <1>3 DEF D!Init, DeliveryInv, ClaimsHold, Holds

LEMMA DeliveryKeeps == DeliveryInv /\ D!Next => DeliveryInv'
<1>. SUFFICES ASSUME DeliveryInv, D!Step, D!Watch PROVE DeliveryInv'
  BY DEF D!Next
<1>1. CASE \E n \in Notice : D!Emit(n) \/ D!Written(n) \/ D!Resend(n)
  BY <1>1, WritesKeep
<1>2. CASE \E w \in Deliverer : D!Start(w) \/ D!Stop(w)
  BY <1>2, PassesBegin
<1>3. CASE \E w \in Deliverer : D!Send(w)
  BY <1>3, HandSends
<1>4. CASE \E w \in Deliverer : D!Succeed(w) \/ D!Fail(w)
  BY <1>4, SendsEnd
<1>5. CASE \E w \in Deliverer : \E d \in pass[w].list : D!ClaimRow(w, d)
  BY <1>5, ClaimRowKeeps
<1>6. CASE D!Enable \/ D!Update \/ D!Remove
  BY <1>6, SellerKeeps
<1>7. CASE D!Tick
  BY <1>7, TimeKeeps
<1>. QED  BY <1>1, <1>2, <1>3, <1>4, <1>5, <1>6, <1>7 DEF D!Step

LEMMA DeliveryRests == DeliveryInv /\ UNCHANGED deliveryVars => DeliveryInv'
<1>1. ASSUME DeliveryInv, UNCHANGED deliveryVars PROVE ClaimsHold'
  BY <1>1 DEF DeliveryInv, ClaimsHold, Holds, deliveryVars
<1>2. ASSUME DeliveryInv, UNCHANGED deliveryVars PROVE D!TypeOK'
  BY <1>2 DEF DeliveryInv, D!TypeOK, deliveryVars
<1>. QED  BY <1>1, <1>2 DEF DeliveryInv, deliveryVars

-----------------------------------------------------------------------------
(***************************************************************************)
(* The offers after a purchase. A click names the offer it answers.        *)
(***************************************************************************)
Orders == [method : {"PIX", "CARD"}, state : O!State]
Clicks == {O!Idle} \cup [does : {"accept"}, of : Offer, by : {"PIX", "CARD"}]
                   \cup [does : {"decline"}, of : Offer]

OfferInv ==
  /\ O!TypeOK
  /\ orders \in [Offer -> Seq(Orders)] /\ click \in [Click -> Clicks]

AnswersStand ==
  \A o \in Offer :
    /\ answer[o] = "DECLINED" => answer'[o] = "DECLINED"
    /\ answer[o] = "DECLINED" \/ O!OrderState(o) \in {"OPEN", "BOUGHT"} =>
         Len(orders'[o]) = Len(orders[o])

LEMMA OrdersListed ==
  ASSUME NEW s \in Seq(Orders)
  PROVE  O!Range(s) \subseteq Orders
BY DEF O!Range

LEMMA ClicksTyped ==
  ASSUME OfferInv, NEW c \in Click
  PROVE  /\ click[c] \in Clicks /\ O!Idle \in Clicks /\ O!Idle.does = "nothing"
         /\ click[c].does = "accept" => click[c].of \in Offer /\ click[c].by \in {"PIX", "CARD"}
         /\ click[c].does = "decline" => click[c].of \in Offer
         /\ click[c].does \in {"nothing", "accept", "decline"}
BY DEF OfferInv, Clicks, O!Idle

LEMMA OfferFrom ==
  ASSUME window' \in {"open", "closed"}, answer' \in [Offer -> {"NONE", "ACCEPTED", "DECLINED"}],
         orders' \in [Offer -> Seq(Orders)], click' \in [Click -> Clicks]
  PROVE  OfferInv'
<1>1. \A o \in Offer : O!Range(orders'[o]) \subseteq Orders
  BY OrdersListed
<1>2. \A c \in Click : click'[c].does \in {"nothing", "accept", "decline"}
  BY DEF Clicks, O!Idle
<1>. QED  BY <1>1, <1>2 DEF OfferInv, O!TypeOK, Orders

LEMMA OfferSteps ==
  ASSUME OfferInv, O!Next
  PROVE  OfferInv' /\ AnswersStand
<1>. USE DEF OfferInv, O!TypeOK
<1>1. CASE \E c \in Click : O!Accept(c)
  <2>1. PICK c \in Click : O!Accept(c)
    BY <1>1
  <2>. DEFINE o == click[c].of
              new == [method |-> click[c].by, state |-> "OPEN"]
  <2>2. o \in Offer /\ new \in Orders /\ O!Idle \in Clicks
    BY <2>1, ClicksTyped DEF O!Accept, Orders, O!State
  <2>3. /\ O!OrderState(o) \notin {"BOUGHT", "OPEN"} /\ answer[o] # "DECLINED"
        /\ answer' = [answer EXCEPT ![o] = "ACCEPTED"]
        /\ orders' = [orders EXCEPT ![o] = Append(orders[o], new)]
        /\ click' = [click EXCEPT ![c] = O!Idle] /\ window' = window
    BY <2>1, <2>2 DEF O!Accept, O!MayRecord
  <2>. HIDE DEF o, new
  <2>4. Append(orders[o], new) \in Seq(Orders)
    BY <2>2
  <2>5. /\ answer' \in [Offer -> {"NONE", "ACCEPTED", "DECLINED"}]
        /\ orders' \in [Offer -> Seq(Orders)] /\ click' \in [Click -> Clicks]
    BY <2>2, <2>3, <2>4
  <2>6. AnswersStand
    BY <2>2, <2>3 DEF AnswersStand
  <2>. QED  BY <2>3, <2>5, <2>6, OfferFrom
<1>2. CASE \E c \in Click : O!Decline(c)
  <2>1. PICK c \in Click : O!Decline(c)
    BY <1>2
  <2>2. click[c].of \in Offer /\ O!Idle \in Clicks
    BY <2>1, ClicksTyped DEF O!Decline
  <2>3. /\ answer' = [answer EXCEPT ![click[c].of] = "DECLINED"]
        /\ click' = [click EXCEPT ![c] = O!Idle] /\ window' = window /\ orders' = orders
    BY <2>1 DEF O!Decline
  <2>4. /\ answer' \in [Offer -> {"NONE", "ACCEPTED", "DECLINED"}] /\ click' \in [Click -> Clicks]
    BY <2>2, <2>3
  <2>5. AnswersStand
    BY <2>2, <2>3 DEF AnswersStand
  <2>. QED  BY <2>3, <2>4, <2>5, OfferFrom
<1>3. CASE \E c \in Click :
             \/ O!GiveUp(c)
             \/ \E o \in Offer :
                  O!ClickDecline(c, o) \/ \E by \in {"PIX", "CARD"} : O!ClickAccept(c, o, by)
  <2>1. PICK c \in Click, k \in Clicks : /\ click' = [click EXCEPT ![c] = k]
                                         /\ UNCHANGED <<window, answer, orders>>
    BY <1>3 DEF O!GiveUp, O!ClickDecline, O!ClickAccept, Clicks
  <2>2. click' \in [Click -> Clicks]
    BY <2>1
  <2>. QED  BY <2>1, <2>2, OfferFrom DEF AnswersStand
<1>4. CASE \E o \in Offer, i \in 1 .. MaxOrders : O!OrderMoves(o, i)
  <2>1. PICK o \in Offer, i \in 1 .. MaxOrders : O!OrderMoves(o, i)
    BY <1>4
  <2>2. PICK to \in O!State : orders' = [orders EXCEPT ![o] = [orders[o] EXCEPT ![i] =
                                           [orders[o][i] EXCEPT !.state = to]]]
    BY <2>1 DEF O!OrderMoves, O!Moves, O!State
  <2>. DEFINE s == [orders[o] EXCEPT ![i] = [orders[o][i] EXCEPT !.state = to]]
  <2>3. i \in DOMAIN orders[o] /\ orders[o] \in Seq(Orders) /\ UNCHANGED <<window, answer, click>>
    BY <2>1 DEF O!OrderMoves
  <2>4. orders[o][i] \in Orders
    BY <2>3
  <2>5. [orders[o][i] EXCEPT !.state = to] \in Orders
    BY <2>4 DEF Orders
  <2>6. s \in Seq(Orders) /\ Len(s) = Len(orders[o])
    BY <2>3, <2>5
  <2>. HIDE DEF s
  <2>7. orders' \in [Offer -> Seq(Orders)] /\ \A p \in Offer : Len(orders'[p]) = Len(orders[p])
    BY <2>2, <2>6 DEF s
  <2>. QED  BY <2>3, <2>7, OfferFrom DEF AnswersStand
<1>5. CASE O!WindowCloses
  BY <1>5, OfferFrom DEF O!WindowCloses, AnswersStand
<1>. QED  BY <1>1, <1>2, <1>3, <1>4, <1>5 DEF O!Next

LEMMA OffersBegin == O!Init => OfferInv
<1>. SUFFICES ASSUME O!Init PROVE OfferInv
  OBVIOUS
<1>1. <<>> \in Seq(Orders) /\ O!Idle \in Clicks /\ O!Idle.does = "nothing"
  BY DEF Clicks, O!Idle
<1>2. orders \in [Offer -> Seq(Orders)] /\ click \in [Click -> Clicks]
  BY <1>1 DEF O!Init
<1>3. \A o \in Offer : O!Range(orders[o]) \subseteq Orders
  BY <1>2, OrdersListed
<1>. QED  BY <1>1, <1>2, <1>3 DEF O!Init, OfferInv, O!TypeOK, Orders

LEMMA OffersRest == OfferInv /\ UNCHANGED offerVars => OfferInv'
BY DEF OfferInv, O!TypeOK, offerVars

-----------------------------------------------------------------------------
(* The parts together: each stands in every behaviour of the union.         *)
LEMMA PaymentRests == PaymentAtRest => IInv
<1>. SUFFICES ASSUME PaymentAtRest PROVE IInv
  OBVIOUS
<1>1. total \in Total /\ None \notin Total
  BY TotalAssumption DEF PaymentAtRest
<1>2. TypeOK
  <2>1. MaxTries \in Nat /\ 0 \in 0 .. MaxTries /\ 0 \in 0 .. MaxStops
    BY BoundsAssumption
  <2>2. /\ try \in [Try -> TryStatus] /\ price \in [Try -> Total] /\ born \in [Try -> Age]
        /\ sender \in [Try -> {"ready", "done"}] /\ charge \in [Try -> Charge]
    BY <1>1 DEF PaymentAtRest, TryStatus, Charge
  <2>3. /\ method \in Method /\ age \in Age /\ order \in OrderStatus /\ pix \in PixStatus
        /\ caller \in {"calling", "created", "rejected", "lost", "done"}
        /\ efiPix \in {"none", "coming", "active", "paid"}
    BY DEF PaymentAtRest, OrderStatus, PixStatus
  <2>4. /\ total \in Total /\ sale \in Total \cup {None} /\ settled \in Nat
        /\ made \in 0 .. MaxTries /\ stops \in 0 .. MaxStops
    BY <1>1, <2>1 DEF PaymentAtRest
  <2>5. found = {} /\ sees = {} /\ asked = {}
    BY DEF PaymentAtRest
  <2>. QED  BY <2>2, <2>3, <2>4, <2>5, Zenon DEF TypeOK
<1>. QED  BY <1>1, <1>2, Numbers
          DEF PaymentAtRest, IInv, OneWay, PixIsKnown, PixReadingsHold, SentInTime, EndsAsItsCharge,
              ReadingsHold, OnePays, SoldAsPaid, ClosedForGood, OneTryAtATime, PaidAtEfi

LEMMA PaymentStands == MCSpec => []IInv
<1>1. MCInit => IInv
  BY InitKeeps, PaymentRests DEF MCInit
<1>2. IInv /\ [MCNext]_parts => IInv'
  BY StepKeeps DEF MCNext, parts
<1>. QED  BY <1>1, <1>2, PTL DEF MCSpec

LEMMA RefundsStand == MCSpec => []RefundInv
<1>1. MCInit => RefundInv
  BY RefundBegins DEF MCInit
<1>2. RefundInv /\ [MCNext]_parts => RefundInv'
  BY RefundKeeps, RefundRests DEF MCNext, parts
<1>. QED  BY <1>1, <1>2, PTL DEF MCSpec

LEMMA DeliveryStands == MCSpec => []DeliveryInv
<1>1. MCInit => DeliveryInv
  BY DeliveryBegins DEF MCInit
<1>2. DeliveryInv /\ [MCNext]_parts => DeliveryInv'
  BY DeliveryKeeps, DeliveryRests DEF MCNext, parts
<1>. QED  BY <1>1, <1>2, PTL DEF MCSpec

LEMMA OffersStand == MCSpec => []OfferInv
<1>1. MCInit => OfferInv
  BY OffersBegin DEF MCInit
<1>2. OfferInv /\ [MCNext]_parts => OfferInv'
  BY OfferSteps, OffersRest DEF MCNext, parts
<1>. QED  BY <1>1, <1>2, PTL DEF MCSpec

(* The variables of the four parts keep their types.                        *)
THEOREM PartsAreTyped == MCSpec => []PartsTypeOK
<1>1. IInv /\ RefundInv /\ DeliveryInv /\ OfferInv => PartsTypeOK
  BY DEF IInv, RefundInv, DeliveryInv, OfferInv, PartsTypeOK
<1>. QED  BY <1>1, PaymentStands, RefundsStand, DeliveryStands, OffersStand, PTL

(* However refunds, chargebacks and those made outside arrive, what was     *)
(* given back of the seller's share adds up to its part of what the buyer   *)
(* was given back.                                                          *)
THEOREM RefundsAreSummed == MCSpec => []RefundsAddUp
<1>1. RefundInv => RefundsAddUp
  BY DEF RefundInv
<1>. QED  BY <1>1, RefundsStand, PTL

(* However long the claims and the passes, no notice is in the hands of two *)
(* processes before one of them outlasted the claim it had made, or the     *)
(* notice was sent again while held.                                        *)
THEOREM OneHandSends == MCSpec => []OneSender
<1>1. DeliveryInv => OneSender
  BY DEF DeliveryInv, ClaimsHold, Holds, OneSender, D!OneSender, D!InHand
<1>. QED  BY <1>1, DeliveryStands, PTL

(* A declined offer stays declined, and no click makes an order of it, nor  *)
(* of one whose last order may still be bought.                             *)
THEOREM OffersAnsweredOnce == MCSpec => OneAnswerEach
<1>1. OfferInv /\ [MCNext]_parts => [AnswersStand]_(O!vars)
  BY OfferSteps DEF MCNext, parts, offerVars, O!vars
<1>2. [AnswersStand]_(O!vars) <=>
        [\A o \in Offer :
           /\ answer[o] = "DECLINED" => answer'[o] = "DECLINED"
           /\ answer[o] = "DECLINED" \/ O!OrderState(o) \in {"OPEN", "BOUGHT"} =>
                Len(orders'[o]) = Len(orders[o])]_(O!vars)
  BY DEF AnswersStand
<1>. QED  BY <1>1, <1>2, OffersStand, PTL DEF MCSpec, OneAnswerEach, O!OneAnswerEach
=============================================================================
