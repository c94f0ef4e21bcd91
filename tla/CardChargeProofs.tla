-------------------------- MODULE CardChargeProofs --------------------------
(***************************************************************************)
(* Proofs about CardCharge, for any number of tries, readings and losses:  *)
(* a card is debited by one try at most, and the books say what Efi did.   *)
(***************************************************************************)
EXTENDS CardCharge, TLAPS

(* A try is made once, in order.                                            *)
InOrder ==
  \A n \in Try :
    /\ try[n] = "NONE" <=> n > made
    /\ n > made => efi[n] = "none" /\ sender[n] = "done"

(* A try that its request has still to submit is not at Efi, and one that   *)
(* waits for a refused one follows it.                                      *)
Unsent ==
  \A n \in Try :
    /\ sender[n] \in {"cancel", "send"} => try[n] = "SUBMITTING" /\ efi[n] = "none"
    /\ sender[n] = "cancel" => n > 1 /\ try[n - 1] = "DECLINED"

(* What is refused, canceled or paid here is so at Efi.                     *)
Ended ==
  \A n \in Try :
    /\ try[n] \in {"DECLINED", "CANCELED"} => efi[n] \in {"unpaid", "canceled"}
    /\ try[n] = "DECLINED" => n \in named
    /\ try[n] = "PAID" => efi[n] \in {"paid", "odd"}

(* What was read of a charge that ended stays true.                         *)
Readings ==
  \A n \in Try :
    /\ (\E told \in Told : <<n, told>> \in sees) => efi[n] # "none"
    /\ <<n, "unpaid">> \in sees => efi[n] \in {"unpaid", "canceled"}
    /\ <<n, "canceled">> \in sees => efi[n] = "canceled"
    /\ <<n, "paid">> \in sees => efi[n] \in {"paid", "odd"}

(* Of the tries before the last one, only the one before it may be refused  *)
(* and not canceled yet, and then the last one was not submitted.           *)
Earlier ==
  \A n \in Try : n < made =>
    \/ try[n] = "CANCELED"
    \/ n = made - 1 /\ try[n] = "DECLINED" /\ efi[made] = "none" /\ sender[made] # "send"

(* The books: what is booked, or about to be, is a paid try; a canceled     *)
(* charge has no try at Efi, and none to be submitted.                      *)
Books ==
  /\ charge = "PAID" <=> invoice = "PAID"
  /\ invoice = "PAID" => \E n \in Try : try[n] = "PAID"
  /\ \A n \in booking : try[n] = "PAID"
  /\ charge = "CANCELED" => \A n \in Try : try[n] # "SUBMITTING" /\ efi[n] \notin Debit

IInv ==
  /\ TypeOK
  /\ InOrder
  /\ Unsent
  /\ Ended
  /\ Readings
  /\ Earlier
  /\ Books

-----------------------------------------------------------------------------
(* The bounds, and the range of the tries.                                  *)
LEMMA Bounds == /\ MaxTries \in Nat /\ MaxReads \in Nat /\ MaxStops \in Nat
                /\ Try \subseteq Nat \ {0}
BY BoundsAssumption DEF Try

(* A request that still works on its try works on the last one.             *)
LEMMA SendingIsLast ==
  ASSUME IInv, NEW n \in Try, sender[n] \in {"cancel", "send"}
  PROVE  n = made
<1>1. n <= made
  BY Bounds DEF IInv, TypeOK, InOrder
<1>2. ~(n < made)
  BY DEF IInv, Unsent, Earlier
<1>. QED  BY <1>1, <1>2, Bounds DEF IInv, TypeOK

(* What a request has to cancel first is the try before its own.            *)
LEMMA LastRefused ==
  ASSUME IInv, NEW n \in Try, sender[n] = "cancel"
  PROVE  Last(Refused \ {n}) = n - 1
<1>1. n = made /\ n > 1 /\ try[n - 1] = "DECLINED" /\ n - 1 \in Try
  BY SendingIsLast, Bounds DEF IInv, Unsent, Try
<1>2. n - 1 \in Refused \ {n}
  BY <1>1, Bounds DEF IInv, Ended, Refused
<1>3. \A m \in Refused \ {n} : m = n - 1
  BY <1>1, Bounds DEF IInv, TypeOK, InOrder, Earlier, Refused
<1>4. Refused \ {n} = {n - 1}
  BY <1>2, <1>3
<1>5. n - 1 <= n - 1
  BY Bounds
<1>. QED  BY <1>4, <1>5 DEF Last

(* When no try is open, every try made ended here and at Efi, and all but   *)
(* the last one are canceled.                                               *)
LEMMA Rested ==
  ASSUME IInv, NoneBusy
  PROVE  \A m \in Try : m <= made =>
           /\ try[m] \in {"DECLINED", "CANCELED"} /\ efi[m] # "none"
           /\ m < made => try[m] = "CANCELED"
<1>1. \A m \in Try : m <= made => try[m] \in {"DECLINED", "CANCELED"} /\ efi[m] # "none"
  BY Bounds DEF IInv, TypeOK, TryStatus, NoneBusy, Busy, InOrder, Ended
<1>2. \A m \in Try : m < made => made \in Try /\ made <= made
  BY Bounds DEF IInv, TypeOK, Try
<1>. QED  BY <1>1, <1>2 DEF IInv, Earlier

LEMMA RestedAtEfi ==
  ASSUME IInv, NoneBusy
  PROVE  \A m \in Try : try[m] # "SUBMITTING" /\ efi[m] \notin Debit
<1>. SUFFICES ASSUME NEW m \in Try PROVE try[m] # "SUBMITTING" /\ efi[m] \notin Debit
  OBVIOUS
<1>1. try[m] \in {"NONE", "DECLINED", "CANCELED"}
  BY DEF IInv, TypeOK, TryStatus, NoneBusy, Busy
<1>. QED  BY <1>1 DEF IInv, InOrder, Ended, Debit

-----------------------------------------------------------------------------
(* No try is made at first.                                                 *)
LEMMA InitKeeps == Init => IInv
<1>. SUFFICES ASSUME Init PROVE IInv
  OBVIOUS
<1>1. TypeOK
  BY Bounds DEF Init, TypeOK, TryStatus, Efi
<1>2. InOrder /\ Unsent /\ Ended /\ Readings /\ Earlier
  BY Bounds DEF Init, InOrder, Unsent, Ended, Readings, Earlier, Told
<1>3. Books
  BY DEF Init, Books
<1>. QED  BY <1>1, <1>2, <1>3 DEF IInv

(* A charge is prepared only when none is.                                  *)
LEMMA PrepareKeeps ==
  ASSUME IInv, Prepare
  PROVE  IInv'
<1>1. TypeOK'
  BY DEF IInv, TypeOK, Prepare, tryVars
<1>2. Books'
  BY DEF IInv, TypeOK, Books, Prepare, tryVars
<1>3. InOrder' /\ Unsent' /\ Ended' /\ Readings' /\ Earlier'
  BY DEF IInv, InOrder, Unsent, Ended, Readings, Earlier, Prepare, tryVars
<1>4. QED  BY <1>1, <1>2, <1>3 DEF IInv

(* What a request cancels is the try before its own.                        *)
LEMMA CancelRefusedKeeps ==
  ASSUME IInv, NEW n \in Try, CancelRefused(n)
  PROVE  IInv'
<1>a. /\ n = made /\ try[n] = "SUBMITTING" /\ efi[n] = "none"
      /\ n > 1 /\ n - 1 \in Try /\ n - 1 < made /\ try[n - 1] = "DECLINED"
  <2>1. n = made
    BY SendingIsLast DEF CancelRefused
  <2>. QED  BY <2>1, Bounds DEF IInv, Unsent, CancelRefused, Try
<1>b. Last(Refused \ {n}) = n - 1
  BY <1>a, LastRefused DEF CancelRefused
<1>c. efi[n - 1] \in {"unpaid", "canceled"}
  BY <1>a DEF IInv, Ended
<1>d. /\ efi' \in {efi, [efi EXCEPT ![n - 1] = "canceled"]}
      /\ \/ try' = try /\ sender' = [sender EXCEPT ![n] = "failed"]
         \/ /\ try' = [try EXCEPT ![n - 1] = "CANCELED"]
            /\ efi' = [efi EXCEPT ![n - 1] = "canceled"]
            /\ sender' = [sender EXCEPT ![n] = "send"]
      /\ UNCHANGED <<invoice, billing, charge, made, named, old, sees, booking, cancel, stops>>
  BY <1>b DEF CancelRefused
<1>e. \A m \in Try : m # n => sender[m] \notin {"cancel", "send"}
  BY <1>a, SendingIsLast
<1>f. \A m \in Try :
        \/ efi'[m] = efi[m]
        \/ efi[m] \in {"unpaid", "canceled"} /\ efi'[m] = "canceled"
  <2>1. CASE efi' = efi
    BY <2>1
  <2>2. CASE efi' = [efi EXCEPT ![n - 1] = "canceled"]
    BY <1>a, <1>c, <2>2 DEF IInv, TypeOK
  <2>. QED  BY <1>d, <2>1, <2>2
<1>g. \A m \in Try : sender'[m] \in {"cancel", "send"} =>
        m = n /\ sender'[m] = "send" /\ try'[m] = "SUBMITTING" /\ efi'[m] = "none"
  BY <1>a, <1>d, <1>e, Bounds DEF IInv, TypeOK
<1>1. TypeOK'
  BY <1>a, <1>c, <1>d, Bounds DEF IInv, TypeOK, tryVars, TryStatus, Efi, Told, Try
<1>2. InOrder'
  BY <1>a, <1>c, <1>d, Bounds DEF IInv, TypeOK, InOrder, tryVars
<1>3. Unsent'
  BY <1>g DEF Unsent
<1>4. Ended'
  BY <1>a, <1>c, <1>d, Bounds DEF IInv, TypeOK, Ended, tryVars
<1>5. Readings'
  BY <1>d, <1>f DEF IInv, Readings
<1>6. Earlier'
  BY <1>a, <1>c, <1>d, Bounds DEF IInv, TypeOK, Earlier, tryVars
<1>7. Books'
  BY <1>a, <1>c, <1>d, Bounds DEF IInv, TypeOK, Books, tryVars
<1>8. QED  BY <1>1, <1>2, <1>3, <1>4, <1>5, <1>6, <1>7 DEF IInv

(* The try submitted is the last one, and all before it are canceled.       *)
LEMMA SubmitKeeps ==
  ASSUME IInv, NEW n \in Try, Submit(n)
  PROVE  IInv'
<1>a. n = made /\ try[n] = "SUBMITTING" /\ efi[n] = "none" /\ sender[n] = "send"
  BY SendingIsLast DEF IInv, Unsent, Submit
<1>b. \A m \in Try : m < n => try[m] = "CANCELED"
  BY <1>a DEF IInv, Earlier
<1>d. /\ efi' = efi \/ \E to \in Told \cup {"coming"} : efi' = [efi EXCEPT ![n] = to]
      /\ \/ sees' = sees
         \/ \E told \in Told : sees' = sees \cup {<<n, told>>} /\ efi' = [efi EXCEPT ![n] = told]
      /\ sender' = [sender EXCEPT ![n] = "done"] \/ sender' = [sender EXCEPT ![n] = "failed"]
      /\ UNCHANGED <<invoice, billing, charge, tryVars, booking, cancel, stops>>
  BY DEF Submit, Told
<1>e. sees' \subseteq Try \X Told
  BY <1>d DEF IInv, TypeOK
<1>f. \A m \in Try : m # n => efi'[m] = efi[m]
  <2>1. CASE efi' = efi
    BY <2>1
  <2>2. CASE \E to \in Told \cup {"coming"} : efi' = [efi EXCEPT ![n] = to]
    BY <2>2 DEF IInv, TypeOK
  <2>. QED  BY <1>d, <2>1, <2>2
<1>h. \A told \in Told : <<n, told>> \notin sees
  BY <1>a DEF IInv, Readings
<1>g. ASSUME NEW m \in Try, NEW told \in Told, <<m, told>> \in sees'
      PROVE  \/ m # n /\ <<m, told>> \in sees
             \/ m = n /\ efi'[m] = told
  <2>1. CASE sees' = sees
    BY <1>g, <1>h, <2>1
  <2>2. CASE \E t \in Told : sees' = sees \cup {<<n, t>>} /\ efi' = [efi EXCEPT ![n] = t]
    <3>1. PICK t \in Told : sees' = sees \cup {<<n, t>>} /\ efi' = [efi EXCEPT ![n] = t]
      BY <2>2
    <3>2. CASE <<m, told>> \in sees
      BY <1>h, <3>2
    <3>3. CASE <<m, told>> = <<n, t>>
      BY <3>1, <3>3 DEF IInv, TypeOK
    <3>. QED  BY <1>g, <3>1, <3>2, <3>3
  <2>. QED  BY <1>d, <2>1, <2>2
<1>1. TypeOK'
  <2>1. efi' \in [Try -> Efi]
    BY <1>d DEF IInv, TypeOK, Efi
  <2>2. sender' \in [Try -> {"cancel", "send", "failed", "done"}]
    BY <1>d DEF IInv, TypeOK
  <2>. QED  BY <1>d, <1>e, <2>1, <2>2 DEF IInv, TypeOK, tryVars
<1>2. InOrder'
  BY <1>a, <1>b, <1>d, Bounds DEF IInv, TypeOK, InOrder, tryVars
<1>3. Unsent'
  BY <1>a, <1>b, <1>d, Bounds DEF IInv, TypeOK, Unsent, tryVars
<1>4. Ended'
  BY <1>a, <1>b, <1>d, Bounds DEF IInv, TypeOK, Ended, tryVars
<1>5. Readings'
  <2>. SUFFICES ASSUME NEW m \in Try
       PROVE  /\ (\E told \in Told : <<m, told>> \in sees') => efi'[m] # "none"
              /\ <<m, "unpaid">> \in sees' => efi'[m] \in {"unpaid", "canceled"}
              /\ <<m, "canceled">> \in sees' => efi'[m] = "canceled"
              /\ <<m, "paid">> \in sees' => efi'[m] \in {"paid", "odd"}
    BY DEF Readings
  <2>1. \A told \in Told : <<m, told>> \in sees' =>
          \/ <<m, told>> \in sees /\ efi'[m] = efi[m]
          \/ efi'[m] = told
    BY <1>f, <1>g
  <2>2. \A told \in Told : told # "none"
    BY DEF Told
  <2>3. {"unpaid", "canceled", "paid"} \subseteq Told
    BY DEF Told
  <2>. QED  BY <2>1, <2>2, <2>3 DEF IInv, Readings
<1>6. Earlier'
  BY <1>a, <1>b, <1>d, Bounds DEF IInv, TypeOK, Earlier, tryVars
<1>7. Books'
  BY <1>a, <1>b, <1>d, Bounds DEF IInv, TypeOK, Books, tryVars
<1>8. QED  BY <1>1, <1>2, <1>3, <1>4, <1>5, <1>6, <1>7 DEF IInv

(* A try is reserved after every earlier one ended.                         *)
LEMMA ReserveKeeps ==
  ASSUME IInv, Reserve
  PROVE  IInv'
<1>a. /\ made + 1 \in Try /\ Open
      /\ try' = [try EXCEPT ![made + 1] = "SUBMITTING"]
      /\ made' = made + 1
      /\ UNCHANGED <<invoice, billing, charge, named, old, efi, sees, booking, cancel, stops>>
  BY Bounds DEF Reserve, IInv, TypeOK, Try
<1>b. \A m \in Try : m <= made =>
        /\ try[m] \in {"DECLINED", "CANCELED"} /\ efi[m] # "none" /\ (m < made => try[m] = "CANCELED")
  BY Rested DEF Reserve
<1>c. \/ /\ sender' = [sender EXCEPT ![made + 1] = "cancel"]
         /\ made \in Try /\ try[made] = "DECLINED"
      \/ /\ sender' = [sender EXCEPT ![made + 1] = "send"]
         /\ \A m \in Try : m <= made => try[m] = "CANCELED"
  <2>1. \A m \in Refused : m = made
    BY <1>b, Bounds DEF Refused, IInv, TypeOK, InOrder, Try
  <2>. QED  BY <1>b, <2>1 DEF Reserve, Refused, IInv, TypeOK, Ended
<1>d. \A m \in Try : sender[m] \notin {"cancel", "send"}
  BY DEF Reserve, NoneBusy, Busy, IInv, Unsent
<1>1. TypeOK'
  BY <1>a, <1>b, <1>c, Bounds DEF IInv, TypeOK, tryVars, TryStatus, Try
<1>2. InOrder'
  BY <1>a, <1>b, <1>c, Bounds DEF IInv, TypeOK, InOrder, tryVars
<1>3. Unsent'
  <2>1. \A m \in Try : m # made + 1 => sender'[m] \notin {"cancel", "send"}
    BY <1>a, <1>c, <1>d DEF IInv, TypeOK
  <2>2. efi[made + 1] = "none"
    BY <1>a, Bounds DEF IInv, TypeOK, InOrder
  <2>3. sender'[made + 1] = "cancel" => made + 1 > 1 /\ try'[made + 1 - 1] = "DECLINED"
    BY <1>a, <1>c, Bounds DEF IInv, TypeOK
  <2>4. try'[made + 1] = "SUBMITTING" /\ efi' = efi
    BY <1>a DEF IInv, TypeOK
  <2>. SUFFICES ASSUME NEW m \in Try, sender'[m] \in {"cancel", "send"}
       PROVE  /\ try'[m] = "SUBMITTING" /\ efi'[m] = "none"
              /\ sender'[m] = "cancel" => m > 1 /\ try'[m - 1] = "DECLINED"
    BY DEF Unsent
  <2>5. m = made + 1
    BY <2>1
  <2>. QED  BY <2>2, <2>3, <2>4, <2>5 DEF IInv, TypeOK
<1>4. Ended'
  BY <1>a, <1>b, <1>c, Bounds DEF IInv, TypeOK, Ended, tryVars
<1>5. Earlier'
  <2>. SUFFICES ASSUME NEW m \in Try, m < made + 1
       PROVE  \/ try'[m] = "CANCELED"
              \/ /\ m = made /\ try'[m] = "DECLINED" /\ efi[made + 1] = "none"
                 /\ sender'[made + 1] # "send"
    BY <1>a, Bounds DEF Earlier, IInv, TypeOK
  <2>1. try'[m] = try[m] /\ m <= made
    BY <1>a, Bounds DEF IInv, TypeOK
  <2>2. efi[made + 1] = "none"
    BY <1>a, Bounds DEF IInv, TypeOK, InOrder
  <2>3. m # made => try[m] = "CANCELED"
    BY <1>b, <2>1, Bounds DEF IInv, TypeOK
  <2>4. \/ try[m] = "CANCELED"
        \/ try[m] = "DECLINED" /\ sender'[made + 1] = "cancel"
    <3>1. CASE sender' = [sender EXCEPT ![made + 1] = "cancel"]
      <4>1. sender'[made + 1] = "cancel"
        BY <1>a, <3>1 DEF IInv, TypeOK
      <4>. QED  BY <1>b, <2>1, <4>1
    <3>2. CASE \A k \in Try : k <= made => try[k] = "CANCELED"
      BY <2>1, <3>2
    <3>. QED  BY <1>c, <3>1, <3>2
  <2>. QED  BY <2>1, <2>2, <2>3, <2>4
<1>6. Books'
  <2>1. try[made + 1] = "NONE"
    BY <1>a, Bounds DEF IInv, TypeOK, InOrder
  <2>2. \A m \in Try : try[m] = "PAID" => try'[m] = "PAID"
    BY <1>a, <2>1 DEF IInv, TypeOK
  <2>. QED  BY <1>a, <2>2 DEF IInv, TypeOK, Books, Open
<1>7. Readings'
  BY <1>a, <1>b, <1>c, Bounds DEF IInv, Readings, tryVars
<1>8. QED  BY <1>1, <1>2, <1>3, <1>4, <1>5, <1>6, <1>7 DEF IInv

(* A request that failed leaves its reservation standing.                   *)
LEMMA UncertainKeeps ==
  ASSUME IInv, NEW n \in Try, Uncertain(n)
  PROVE  IInv'
<1>1. TypeOK'
  BY DEF IInv, TypeOK, Uncertain, tryVars, TryStatus
<1>2. InOrder'
  BY DEF IInv, TypeOK, InOrder, Uncertain, tryVars
<1>3. Unsent'
  BY DEF IInv, TypeOK, Unsent, Uncertain, tryVars
<1>4. Ended'
  BY DEF IInv, TypeOK, Ended, Uncertain, tryVars
<1>5. Earlier'
  BY DEF IInv, TypeOK, Earlier, Uncertain, tryVars
<1>6. Books'
  BY DEF IInv, TypeOK, Books, Uncertain, tryVars
<1>7. Readings'
  BY DEF IInv, Readings, Uncertain, tryVars
<1>8. QED  BY <1>1, <1>2, <1>3, <1>4, <1>5, <1>6, <1>7 DEF IInv

(* Efi takes back nothing that was told unpaid or canceled.                 *)
LEMMA EfiGoesOnKeeps ==
  ASSUME IInv, NEW n \in Try, EfiGoesOn(n)
  PROVE  IInv'
<1>1. TypeOK'
  BY DEF IInv, TypeOK, EfiGoesOn, tryVars, Efi, Told
<1>2. InOrder'
  BY DEF IInv, TypeOK, InOrder, EfiGoesOn, tryVars
<1>3. Unsent'
  BY DEF IInv, TypeOK, Unsent, EfiGoesOn, tryVars
<1>4. Ended'
  BY DEF IInv, TypeOK, Ended, EfiGoesOn, tryVars
<1>5. Readings'
  BY DEF IInv, TypeOK, Readings, EfiGoesOn, tryVars
<1>6. Earlier'
  <2>1. \A m \in Try : efi[m] = "none" => efi'[m] = "none"
    BY DEF EfiGoesOn, IInv, TypeOK
  <2>2. \A m \in Try : m < made => made \in Try
    BY Bounds DEF IInv, TypeOK, Try
  <2>. QED  BY <2>1, <2>2 DEF EfiGoesOn, tryVars, IInv, Earlier
<1>7. Books'
  BY DEF IInv, TypeOK, Books, EfiGoesOn, tryVars, Debit
<1>8. QED  BY <1>1, <1>2, <1>3, <1>4, <1>5, <1>6, <1>7 DEF IInv

(* Time passes beside a try.                                                *)
LEMMA TwoMinutesPassKeeps ==
  ASSUME IInv, NEW n \in Try, TwoMinutesPass(n)
  PROVE  IInv'
<1>1. TypeOK'
  BY DEF IInv, TypeOK, TwoMinutesPass, tryVars
<1>2. InOrder' /\ Unsent' /\ Ended' /\ Readings' /\ Earlier' /\ Books'
  BY DEF IInv, InOrder, Unsent, Ended, Readings, Earlier, Books, TwoMinutesPass, tryVars
<1>3. QED  BY <1>1, <1>2 DEF IInv

(* What is read is true when it is read.                                    *)
LEMMA ReadKeeps ==
  ASSUME IInv, NEW n \in Try, Read(n)
  PROVE  IInv'
<1>1. TypeOK'
  BY DEF IInv, TypeOK, Read, tryVars
<1>2. Readings'
  BY DEF IInv, TypeOK, Readings, Read, tryVars, Told
<1>3. InOrder' /\ Unsent' /\ Ended' /\ Earlier' /\ Books'
  BY DEF IInv, InOrder, Unsent, Ended, Earlier, Books, Read, tryVars
<1>4. QED  BY <1>1, <1>2, <1>3 DEF IInv

(* What a reading applies is true of the charge, however late.              *)
LEMMA ObserveKeeps ==
  ASSUME IInv, NEW n \in Try, NEW told \in Told, Observe(n, told)
  PROVE  IInv'
<1>a. <<n, told>> \in sees /\ efi[n] # "none"
  BY DEF Observe, IInv, Readings
<1>b. /\ told = "paid" => efi[n] \in {"paid", "odd"}
      /\ told = "unpaid" => efi[n] \in {"unpaid", "canceled"}
      /\ told = "canceled" => efi[n] = "canceled"
  BY <1>a DEF IInv, Readings
<1>c. /\ sees' = sees \ {<<n, told>>}
      /\ UNCHANGED <<invoice, billing, charge, made, old, sender, efi, cancel, stops>>
  BY DEF Observe
<1>d. \/ UNCHANGED <<try, named, booking>>
      \/ /\ try[n] = "SUBMITTING" /\ try' = [try EXCEPT ![n] = "UNCERTAIN"]
         /\ named' = named \cup {n} /\ UNCHANGED booking
      \/ /\ n = made /\ named' = named \cup {n}
         /\ \/ /\ told = "paid" /\ try' = [try EXCEPT ![n] = "PAID"]
               /\ booking' = booking \cup {n}
            \/ /\ try[n] # "PAID" /\ UNCHANGED booking
               /\ \/ told = "unpaid" /\ try' = [try EXCEPT ![n] = "DECLINED"]
                  \/ told = "canceled" /\ try' = [try EXCEPT ![n] = "CANCELED"]
                  \/ told \notin {"paid", "unpaid", "canceled"} /\ try' = [try EXCEPT ![n] = "APPROVED"]
  BY DEF Observe, Anomalous, TakesBack, Mapped, Told, IInv, TypeOK
<1>1. TypeOK'
  BY <1>a, <1>b, <1>c, <1>d, Bounds DEF IInv, TypeOK, tryVars, TryStatus, Told, Try
<1>2. InOrder'
  BY <1>a, <1>b, <1>c, <1>d, Bounds DEF IInv, TypeOK, InOrder, tryVars
<1>3. Unsent'
  <2>. SUFFICES ASSUME NEW m \in Try, sender[m] \in {"cancel", "send"}
       PROVE  /\ try'[m] = "SUBMITTING" /\ efi[m] = "none"
              /\ sender[m] = "cancel" => m > 1 /\ try'[m - 1] = "DECLINED"
    BY <1>c DEF Unsent
  <2>1. m = made /\ efi[m] = "none" /\ m # n
    BY <1>a, SendingIsLast DEF IInv, Unsent
  <2>2. \/ UNCHANGED try
        \/ try' = [try EXCEPT ![n] = "UNCERTAIN"] /\ try[n] = "SUBMITTING"
    BY <1>d, <2>1
  <2>3. \A k \in Try : try'[k] = try[k] \/ (k = n /\ try[k] = "SUBMITTING")
    BY <2>2 DEF IInv, TypeOK
  <2>4. sender[m] = "cancel" => m - 1 \in Try
    BY Bounds DEF IInv, Unsent, Try
  <2>. QED  BY <2>1, <2>2, <2>3, <2>4 DEF IInv, TypeOK, Unsent
<1>4. Ended'
  BY <1>a, <1>b, <1>c, <1>d, Bounds DEF IInv, TypeOK, Ended, tryVars
<1>5. Readings'
  BY <1>a, <1>b, <1>c, <1>d, Bounds DEF IInv, TypeOK, Readings, tryVars
<1>6. Earlier'
  <2>. SUFFICES ASSUME NEW m \in Try, m < made
       PROVE  \/ try'[m] = "CANCELED"
              \/ m = made - 1 /\ try'[m] = "DECLINED" /\ efi[made] = "none" /\ sender[made] # "send"
    BY <1>c DEF Earlier
  <2>1. try[m] # "SUBMITTING" /\ m # made
    BY Bounds DEF IInv, TypeOK, Earlier
  <2>2. try'[m] = try[m]
    BY <1>d, <2>1 DEF IInv, TypeOK
  <2>. QED  BY <2>2 DEF IInv, Earlier
<1>7. Books'
  BY <1>a, <1>b, <1>c, <1>d, Bounds DEF IInv, TypeOK, Books, tryVars
<1>8. QED  BY <1>1, <1>2, <1>3, <1>4, <1>5, <1>6, <1>7 DEF IInv

(* What is booked is a paid try.                                            *)
LEMMA BookKeeps ==
  ASSUME IInv, NEW n \in Try, Book(n)
  PROVE  IInv'
<1>1. TypeOK'
  BY DEF IInv, TypeOK, Book, tryVars
<1>2. Books'
  BY DEF IInv, TypeOK, Books, Book, tryVars
<1>3. InOrder' /\ Unsent' /\ Ended' /\ Readings' /\ Earlier'
  BY DEF IInv, InOrder, Unsent, Ended, Readings, Earlier, Book, tryVars
<1>4. QED  BY <1>1, <1>2, <1>3 DEF IInv

(* What a process loses was only on its way.                                *)
LEMMA StopKeeps ==
  ASSUME IInv, Stop
  PROVE  IInv'
<1>a. /\ sees' \subseteq sees /\ booking' \subseteq booking /\ stops' \in 0 .. MaxStops
      /\ \A m \in Try : sender'[m] = sender[m] \/ sender'[m] = "done"
      /\ sender' \in [Try -> {"cancel", "send", "failed", "done"}]
      /\ UNCHANGED <<invoice, billing, charge, tryVars, efi, cancel>>
  <2>1. stops' \in 0 .. MaxStops
    BY Bounds DEF Stop, IInv, TypeOK
  <2>2. CASE UNCHANGED sender
    BY <2>1, <2>2 DEF Stop, IInv, TypeOK
  <2>3. CASE ~UNCHANGED sender
    BY <2>1, <2>3 DEF Stop, IInv, TypeOK
  <2>. QED  BY <2>2, <2>3
<1>1. TypeOK'
  BY <1>a DEF IInv, TypeOK, tryVars
<1>2. InOrder'
  BY <1>a DEF IInv, TypeOK, InOrder, tryVars
<1>3. Unsent'
  BY <1>a DEF IInv, TypeOK, Unsent, tryVars
<1>4. Readings'
  BY <1>a DEF IInv, TypeOK, Readings, tryVars
<1>5. Earlier'
  <2>1. \A m \in Try : m < made => made \in Try
    BY Bounds DEF IInv, TypeOK, Try
  <2>. QED  BY <1>a, <2>1 DEF IInv, Earlier, tryVars
<1>6. Books'
  BY <1>a DEF IInv, TypeOK, Books, tryVars
<1>7. Ended'
  BY <1>a DEF IInv, Ended, tryVars
<1>8. QED  BY <1>1, <1>2, <1>3, <1>4, <1>5, <1>6, <1>7 DEF IInv

(* A cancellation reads, and changes nothing.                               *)
LEMMA AskCancelKeeps ==
  ASSUME IInv, AskCancel
  PROVE  IInv'
<1>1. TypeOK'
  BY DEF IInv, TypeOK, AskCancel, tryVars
<1>2. InOrder' /\ Unsent' /\ Ended' /\ Readings' /\ Earlier' /\ Books'
  BY DEF IInv, InOrder, Unsent, Ended, Readings, Earlier, Books, AskCancel, tryVars
<1>3. QED  BY <1>1, <1>2 DEF IInv

(* A charge is canceled when no try of it is open.                          *)
LEMMA CancelKeeps ==
  ASSUME IInv, Cancel
  PROVE  IInv'
<1>a. NoneBusy => \A m \in Try : try[m] # "SUBMITTING" /\ efi[m] \notin Debit
  BY RestedAtEfi
<1>1. TypeOK'
  BY <1>a DEF IInv, TypeOK, Cancel, tryVars
<1>2. Books'
  BY <1>a DEF IInv, TypeOK, Books, Cancel, tryVars
<1>3. InOrder' /\ Unsent' /\ Ended' /\ Readings' /\ Earlier'
  BY DEF IInv, InOrder, Unsent, Ended, Readings, Earlier, Cancel, tryVars
<1>4. QED  BY <1>1, <1>2, <1>3 DEF IInv

(* Every step preserves the inductive invariant.                            *)
LEMMA StepKeeps == IInv /\ [Next]_vars => IInv'
<1>. SUFFICES ASSUME IInv, [Next]_vars PROVE IInv'
  OBVIOUS
<1>1. CASE Next
  <2>1. CASE Prepare \/ Reserve \/ Stop \/ AskCancel \/ Cancel
    BY <2>1, PrepareKeeps, ReserveKeeps, StopKeeps, AskCancelKeeps, CancelKeeps
  <2>2. ASSUME NEW n \in Try,
               \/ CancelRefused(n) \/ Submit(n) \/ Uncertain(n)
               \/ EfiGoesOn(n) \/ TwoMinutesPass(n) \/ Book(n)
        PROVE  IInv'
    BY <2>2, CancelRefusedKeeps, SubmitKeeps, UncertainKeeps, EfiGoesOnKeeps,
       TwoMinutesPassKeeps, BookKeeps
  <2>3. ASSUME NEW n \in Try, Work(n) \/ Notice(n) PROVE IInv'
    BY <2>3, ReadKeeps DEF Work, Notice
  <2>4. ASSUME NEW n \in Try, NEW told \in Told, Observe(n, told) PROVE IInv'
    BY <2>4, ObserveKeeps
  <2>. QED  BY <1>1, <2>1, <2>2, <2>3, <2>4 DEF Next
<1>2. CASE UNCHANGED vars
  BY <1>2 DEF vars, tryVars, IInv, TypeOK, InOrder, Unsent, Ended, Readings, Earlier, Books
<1>. QED  BY <1>1, <1>2

(* The inductive invariant holds of every behaviour.                        *)
THEOREM Invariant == Spec => []IInv
BY InitKeeps, StepKeeps, PTL DEF Spec

-----------------------------------------------------------------------------
(* Every state is one the schema has, and a try is one that was made.       *)
THEOREM TypeCorrect == Spec => []TypeOK
<1>1. IInv => TypeOK
  BY DEF IInv
<1>. QED  BY <1>1, Invariant, PTL

(* With the tries in order, only the last may debit the card.               *)
LEMMA DebitsOnce == IInv => CardIsDebitedOnce
<1>1. IInv => OneDebit
  <2>. SUFFICES ASSUME IInv, NEW n \in Try, n # made,
                       try[n] \in Busy \/ efi[n] \in Debit
       PROVE  FALSE
    BY DEF OneDebit
  <2>1. CASE n > made
    BY <2>1 DEF IInv, InOrder, Busy, Debit
  <2>2. CASE n < made
    <3>1. try[n] \in {"CANCELED", "DECLINED"}
      BY <2>2 DEF IInv, Earlier
    <3>. QED  BY <3>1 DEF IInv, Ended, Busy, Debit
  <2>. QED  BY <2>1, <2>2, Bounds DEF IInv, TypeOK
<1>2. IInv => CardBooksAreTrue
  BY DEF IInv, Books, Ended, CardBooksAreTrue
<1>. QED  BY <1>1, <1>2 DEF CardIsDebitedOnce

(* However many tries the payer confirms, and whatever is lost, read late   *)
(* or canceled at the same time, one of them at most may debit the card;    *)
(* what is booked was paid at Efi, and a canceled charge debits nobody.     *)
THEOREM OnlyOneDebits == Spec => []CardIsDebitedOnce
BY DebitsOnce, Invariant, PTL

(* A try found paid stays so, and a canceled one is never tried again: no   *)
(* late reading takes back what a payer was told.                           *)
PaidStays ==
  \A n \in Try :
    /\ try[n] = "PAID" => try'[n] = "PAID"
    /\ n < made /\ try[n] = "CANCELED" => try'[n] = "CANCELED"

THEOREM PaidIsKept == Spec => [][PaidStays]_vars
<1>1. IInv /\ [Next]_vars => [PaidStays]_vars
  <2>. SUFFICES ASSUME IInv, Next PROVE PaidStays
    OBVIOUS
  <2>. SUFFICES ASSUME NEW m \in Try
       PROVE  /\ try[m] = "PAID" => try'[m] = "PAID"
              /\ m < made /\ try[m] = "CANCELED" => try'[m] = "CANCELED"
    BY DEF PaidStays
  <2>1. CASE UNCHANGED try
    BY <2>1
  <2>2. CASE Reserve
    BY <2>2, Bounds DEF Reserve, NoneBusy, Busy, IInv, TypeOK
  <2>3. ASSUME NEW n \in Try, CancelRefused(n) 
        PROVE  \/ try' = try
               \/ /\ try' = [try EXCEPT ![n - 1] = "CANCELED"]
                  /\ n - 1 \in Try /\ try[n - 1] = "DECLINED"
    <3>1. Last(Refused \ {n}) = n - 1 /\ n - 1 \in Try /\ try[n - 1] = "DECLINED"
      BY <2>3, LastRefused, Bounds DEF CancelRefused, IInv, Unsent, Try
    <3>. QED  BY <2>3, <3>1 DEF CancelRefused
  <2>4. ASSUME NEW n \in Try, Uncertain(n) PROVE PaidStays
    BY <2>4 DEF Uncertain, PaidStays, IInv, TypeOK
  <2>5. ASSUME NEW n \in Try, NEW told \in Told, Observe(n, told) PROVE PaidStays
    BY <2>5 DEF Observe, TakesBack, Anomalous, PaidStays, IInv, TypeOK
  <2>6. CASE \E n \in Try : CancelRefused(n)
    BY <2>3, <2>6 DEF IInv, TypeOK
  <2>. QED
    BY <2>1, <2>2, <2>4, <2>5, <2>6
    DEF Next, Prepare, Stop, AskCancel, Cancel, Submit, EfiGoesOn, TwoMinutesPass,
        Work, Notice, Read, Book, PaidStays, tryVars
<1>. QED  BY <1>1, Invariant, PTL DEF Spec

=============================================================================
