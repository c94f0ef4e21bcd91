------------------------ MODULE ChargeIssuanceProofs ------------------------
(***************************************************************************)
(* Proofs about ChargeIssuance, for every number of charges and requests:  *)
(* what is closed here takes no payment at the provider, no two charges    *)
(* are open, and one request submits a charge.  The rest holds while       *)
(* replacements are resumed before the age that proves a charge absent.    *)
(***************************************************************************)
EXTENDS MCCollections, TLAPS

(* The provider took a payment for the charge, or takes none any more.      *)
Receipt == {"paid", "partly", "refunded"}
Paid(c) == provider[c] \in Receipt
Gone(c) == provider[c] \notin {"none", "live"}

Closed == {"PAID", "CANCELED", "EXPIRED", "REFUNDED", "REPLACED"}
Unsent == {"created", "submit", "refused", "cancelPrevious", "markReplaced",
           "resetInvoice", "markFailed", "markSubmitting"}
Sent == {"accepted", "confirm", "recover"}

(* Nothing refers to a charge before it is created.                         *)
Made == 1 .. created
Born ==
  /\ \A c \in Charge : c \notin Made =>
       /\ marker[c] = "NONE" /\ replaces[c] = None /\ ~old[c]
       /\ provider[c] = "none" /\ notices[c] = {}
  /\ \A c \in Charge : status[c] = "ABSENT" <=> c \notin Made
  /\ \A w \in Worker : job[w] # None => job[w] \in Made
  /\ invoice.txid # None => invoice.txid \in Made
  /\ invoice.billet # None => invoice.billet \in Made

(* A request under way works on a charge; a replacement replaces one.       *)
Working ==
  /\ \A w \in Worker : step[w] \notin {"idle", "cancelLocal"} => job[w] # None
  /\ \A w \in Worker : step[w] = "idle" => job[w] = None
  /\ \A w \in Worker :
       step[w] \in {"claim", "cancelPrevious", "markReplaced"} => replaces[job[w]] # None

(* The unique index on the open charges.                                    *)
OneOpen ==
  \A c, d \in Charge : status[c] \in OpenStatus /\ status[d] \in OpenStatus => c = d

(* A charge is submitted by one request, which claimed it if it replaces    *)
(* another.                                                                 *)
Claimed ==
  /\ OneSubmitter
  /\ \A w \in Worker : Submitting(w) => marker[job[w]] # "REPLACEMENT_CANCEL_PENDING"

(* What is still to be submitted is not at the provider.                    *)
Unmade ==
  /\ \A w \in Worker : step[w] \in Unsent => provider[job[w]] = "none"
  /\ \A c \in Charge : marker[c] = "REPLACEMENT_CANCEL_PENDING" => provider[c] = "none"

(* What a request knows of the provider stays true.                         *)
Knowledge ==
  \A w \in Worker :
    /\ step[w] \in Sent => provider[job[w]] # "none"
    /\ step[w] = "reconcile" /\ seen[w] # "none" => provider[job[w]] # "none"
    /\ step[w] = "reconcile" /\ seen[w] \notin {"none", "live"} => Gone(job[w])
    /\ step[w] = "reconcile" /\ seen[w] \in Receipt => Paid(job[w])
    /\ step[w] = "cancelLocal" /\ job[w] # None => Gone(job[w])

(* A charge closed, or past its deadline, or replaced, takes no payment;    *)
(* one that is booked as paid was paid.                                     *)
ClosedIsGone ==
  \A c \in Charge :
    /\ notices[c] # {} => Gone(c)
    /\ notices[c] \cap Receipt # {} => Paid(c)
    /\ status[c] \in Closed => Gone(c)
    /\ status[c] \in {"PAID", "REFUNDED"} => Paid(c)
    /\ status[c] = "ACTIVE" => provider[c] # "none"
    /\ expiry[c] = "past" => Gone(c)
    /\ replaces[c] # None => Gone(replaces[c])

(* What holds however late replacements are resumed.                        *)
IInv ==
  /\ TypeOK
  /\ Born
  /\ Working
  /\ OneOpen
  /\ Claimed
  /\ Unmade
  /\ Knowledge
  /\ ClosedIsGone

(* Only a recent charge is submitted, so the age of a charge believed       *)
(* absent proves that nobody submits it.                                    *)
Recent ==
  \A w \in Worker :
    /\ Submitting(w) \/ step[w] = "claim" => ~old[job[w]]
    /\ step[w] = "reconcile" /\ seen[w] = "none" /\ old[job[w]] => provider[job[w]] = "none"

(* A charge is not released while it is, or may soon be, submitted.         *)
Unreleased ==
  /\ \A w \in Worker : Submitting(w) => status[job[w]] # "FAILED"
  /\ \A c \in Charge : status[c] = "FAILED" /\ ~old[c] =>
       marker[c] # "REPLACEMENT_CANCEL_PENDING"

(* A paid invoice rests on a paid charge that it names, or, while it names  *)
(* none, on one beside which no charge is open.                             *)
Bare == invoice.gateway = None /\ invoice.txid = None /\ invoice.billet = None
Rests(c) == status[c] = "PAID" /\ (Names(c) \/ (Bare /\ NoOpenCharge))
Told ==
  /\ invoice.status = "PAID" => \E c \in Charge : Rests(c)
  /\ \A c \in Charge :
       status[c] = "ACTIVE" /\ invoice.status \in {"DRAFT", "PENDING"} => Names(c)

(* What holds as well while replacements are resumed in time.               *)
InTime ==
  /\ Recent
  /\ Unreleased
  /\ ReleasedMeansAbsent
  /\ Told

USE DEF Charge, OptCharge, Receipt, Paid, Gone, OpenStatus, Closed, Unsent, Sent

-----------------------------------------------------------------------------
(* Helpers: what each changes, charge by charge and request by request      *)

(* What the constants are assumed to be.                                    *)
LEMMA Bounds ==
  /\ MaxCharges \in Nat /\ None \notin Nat /\ None \notin Charge
  /\ EnabledMethods \subseteq Method
BY MaxChargesAssumption, NoneAssumption, EnabledMethodsAssumption DEF Method

\* Of the requests only w moves, and the requests stay typed.
Alone(w) ==
  /\ step' \in [Worker -> Step] /\ job' \in [Worker -> OptCharge]
  /\ seen' \in [Worker -> ProviderStatus]
  /\ \A v \in Worker : v # w => step'[v] = step[v] /\ job'[v] = job[v] /\ seen'[v] = seen[v]

\* The request w goes on to s, with the charge and the reading it had.
GoesTo(w, s) == Alone(w) /\ step'[w] = s /\ job'[w] = job[w] /\ seen'[w] = seen[w]

\* The request w ends.
Ends(w) == Alone(w) /\ step'[w] = "idle" /\ job'[w] = None

\* Of the charges only c changes its status, to s.
Becomes(c, s) ==
  /\ status' \in [Charge -> ChargeStatus] /\ status'[c] = s
  /\ \A d \in Charge : d # c => status'[d] = status[d]

\* The provider closes c, or takes or gives back its payment.
Closes(c) ==
  /\ provider' \in [Charge -> ProviderStatus] /\ notices' \in [Charge -> SUBSET Notice]
  /\ \A d \in Charge : d # c => provider'[d] = provider[d] /\ notices'[d] = notices[d]
  /\ provider[c] # "none" /\ provider'[c] \notin {"none", "live"}
  /\ Paid(c) => provider'[c] \in Receipt
  /\ notices'[c] \cap Receipt # {} => notices[c] \cap Receipt # {} \/ provider'[c] \in Receipt

InvoiceTyped ==
  invoice' \in [status : InvoiceStatus, gateway : OptCharge,
                txid : OptCharge, billet : OptCharge]

\* The invoice keeps what it names and, unless it becomes s, its status.
InvoiceMay(s) ==
  /\ InvoiceTyped
  /\ invoice'.gateway = invoice.gateway /\ invoice'.txid = invoice.txid
  /\ invoice'.billet = invoice.billet
  /\ invoice'.status \in {invoice.status, s}

(* A request that goes on leaves the others alone.                          *)
LEMMA GotoMoves ==
  ASSUME TypeOK, NEW w \in Worker, NEW s \in Step, Goto(w, s), UNCHANGED <<job, seen>>
  PROVE  GoesTo(w, s)
BY DEF TypeOK, Goto, GoesTo, Alone

(* A request that ends.                                                     *)
LEMMA FinishEnds ==
  ASSUME TypeOK, NEW w \in Worker, Finish(w)
  PROVE  Ends(w)
BY DEF TypeOK, Finish, Ends, Alone, Step, ProviderStatus

(* The index on open charges, and what a settled charge may become.         *)
LEMMA TargetIs ==
  ASSUME TypeOK, NEW c \in Charge, NEW s \in ChargeStatus
  PROVE  /\ Target(c, s) \in ChargeStatus
         /\ \/ Target(c, s) = s
            \/ Target(c, s) = status[c] /\ status[c] \in {"REFUNDED", "PAID", "REPLACED"}
         /\ status[c] = "REFUNDED" => Target(c, s) = "REFUNDED"
         /\ status[c] = "PAID" /\ s # "REFUNDED" => Target(c, s) = "PAID"
BY DEF TypeOK, Target, ChargeStatus

(* A status written is the status of that charge alone.                     *)
LEMMA SetStatusBecomes ==
  ASSUME TypeOK, NEW c \in Charge, NEW s \in ChargeStatus, SetStatus(c, s)
  PROVE  Becomes(c, s)
BY DEF TypeOK, SetStatus, Becomes

(* A status of the invoice written leaves what it names.                    *)
LEMMA SetInvoiceMay ==
  ASSUME TypeOK, NEW s \in InvoiceStatus, SetInvoice(s) \/ UNCHANGED invoice
  PROVE  InvoiceMay(s)
BY DEF TypeOK, SetInvoice, InvoiceMay, InvoiceTyped

(* A transition writes the status it may, and may cancel the invoice.       *)
LEMMA TransitionBecomes ==
  ASSUME TypeOK, NEW c \in Charge, NEW s \in ChargeStatus, NEW reported \in BOOLEAN,
         Transition(c, s, reported)
  PROVE  /\ Becomes(c, Target(c, s)) /\ InvoiceMay("CANCELED")
         /\ ~reported => UNCHANGED invoice
         /\ Target(c, s) \in OpenStatus => \A d \in Charge : d # c => status[d] \notin OpenStatus
<1>1. /\ SetStatus(c, Target(c, s)) /\ (SetInvoice("CANCELED") \/ UNCHANGED invoice)
      /\ ~reported => UNCHANGED invoice
      /\ Target(c, s) \in OpenStatus => \A d \in Charge : d # c => status[d] \notin OpenStatus
  BY DEF Transition, Writable, NoOtherOpen
<1>2. "CANCELED" \in InvoiceStatus
  BY DEF InvoiceStatus
<1>. QED  BY <1>1, <1>2, TargetIs, SetStatusBecomes, SetInvoiceMay

(* A failure recorded releases only a pending charge.                       *)
LEMMA FailureBecomes ==
  ASSUME TypeOK, NEW c \in Charge, RecordFailure(c)
  PROVE  UNCHANGED status \/ (status[c] = "PENDING" /\ Becomes(c, "FAILED"))
<1>1. "FAILED" \in ChargeStatus
  BY DEF ChargeStatus
<1>. QED  BY <1>1, SetStatusBecomes DEF RecordFailure

(* A cancellation at the provider closes what is there and not paid.        *)
LEMMA CancelsCloses ==
  ASSUME TypeOK, NEW c \in Charge, ProviderCancels(c)
  PROVE  Closes(c)
<1>1. /\ provider' \in [Charge -> ProviderStatus] /\ provider'[c] = "canceled"
      /\ provider[c] \in {"live", "expired", "canceled"}
      /\ \A d \in Charge : d # c => provider'[d] = provider[d]
  BY DEF ProviderCancels, TypeOK, ProviderStatus
<1>2. notices[c] \in SUBSET Notice /\ notices[c] \cup {"canceled"} \in SUBSET Notice
  BY DEF TypeOK, Notice
<1>3. \E n \in SUBSET Notice : /\ notices' = [notices EXCEPT ![c] = n]
                               /\ n \in {notices[c], notices[c] \cup {"canceled"}}
  BY <1>2 DEF ProviderCancels, TypeOK
<1>4. /\ notices' \in [Charge -> SUBSET Notice]
      /\ \A d \in Charge : d # c => notices'[d] = notices[d]
      /\ notices'[c] \in {notices[c], notices[c] \cup {"canceled"}}
  BY <1>3 DEF TypeOK
<1>. QED  BY <1>1, <1>4 DEF Closes

(* What the provider announces it did.                                      *)
LEMMA AnnounceCloses ==
  ASSUME TypeOK, NEW c \in Charge, NEW p \in ProviderStatus, NEW n \in SUBSET Notice,
         provider[c] # "none", p \notin {"none", "live"}, Paid(c) => p \in Receipt,
         n \cap Receipt # {} => p \in Receipt, Announce(c, p, n)
  PROVE  Closes(c)
<1>1. /\ provider' \in [Charge -> ProviderStatus] /\ provider'[c] = p
      /\ \A d \in Charge : d # c => provider'[d] = provider[d]
  BY DEF Announce, TypeOK
<1>2. notices[c] \cup n \in SUBSET Notice
  BY DEF TypeOK
<1>3. /\ notices' \in [Charge -> SUBSET Notice] /\ notices'[c] = notices[c] \cup n
      /\ \A d \in Charge : d # c => notices'[d] = notices[d]
  BY <1>2 DEF Announce, TypeOK
<1>. QED  BY <1>1, <1>3 DEF Closes

\* What a payment, a refund or a closure at the provider writes here.
Booked(c) ==
  \/ Paid(c) /\ RecordSettlement(c)
  \/ Paid(c) /\ \E all \in BOOLEAN : RecordPixRefunds(c, all)
  \/ Paid(c) /\ Transition(c, "REFUNDED", TRUE)
  \/ Gone(c) /\ \E s \in {"EXPIRED", "CANCELED"} : Transition(c, s, TRUE)

\* No settlement is taken back.
Kept(c) ==
  /\ status[c] = "PAID" => status'[c] \in {"PAID", "REFUNDED"}
  /\ status[c] = "REFUNDED" => status'[c] = "REFUNDED"

Settled == \A c \in Charge : Kept(c)

(* What is booked of a charge closes it, as the provider did.               *)
LEMMA BookedCloses ==
  ASSUME TypeOK, NEW c \in Charge, Booked(c)
  PROVE  /\ Becomes(c, status'[c]) /\ status'[c] \in Closed /\ Gone(c)
         /\ status'[c] \in {"PAID", "REFUNDED"} => Paid(c) \/ status[c] \in {"PAID", "REFUNDED"}
         /\ Kept(c)
         /\ InvoiceMay("PAID") \/ InvoiceMay("CANCELED")
<1>1. CASE Paid(c) /\ RecordSettlement(c)
  <2>1. /\ \/ status[c] = "REFUNDED" /\ UNCHANGED status
           \/ status[c] # "REFUNDED" /\ SetStatus(c, "PAID")
        /\ SetInvoice("PAID") \/ UNCHANGED invoice
    BY <1>1 DEF RecordSettlement
  <2>2. "PAID" \in InvoiceStatus /\ "PAID" \in ChargeStatus
    BY DEF InvoiceStatus, ChargeStatus
  <2>3. InvoiceMay("PAID")
    BY <2>1, <2>2, SetInvoiceMay
  <2>4. \/ status[c] = "REFUNDED" /\ UNCHANGED status
        \/ status[c] # "REFUNDED" /\ Becomes(c, "PAID")
    BY <2>1, <2>2, SetStatusBecomes
  <2>. QED  BY <1>1, <2>3, <2>4 DEF Becomes, Kept, TypeOK
<1>2. CASE Paid(c) /\ \E all \in BOOLEAN : RecordPixRefunds(c, all)
  <2>1. /\ \/ status[c] = "REFUNDED" /\ UNCHANGED status
           \/ SetStatus(c, "PAID") /\ status[c] # "REFUNDED"
           \/ SetStatus(c, "REFUNDED")
        /\ SetInvoice("PAID") \/ SetInvoice("CANCELED") \/ UNCHANGED invoice
    BY <1>2 DEF RecordPixRefunds
  <2>2. /\ {"PAID", "CANCELED"} \subseteq InvoiceStatus
        /\ {"PAID", "REFUNDED"} \subseteq ChargeStatus
    BY DEF InvoiceStatus, ChargeStatus
  <2>3. InvoiceMay("PAID") \/ InvoiceMay("CANCELED")
    BY <2>1, <2>2, SetInvoiceMay
  <2>4. \/ status[c] = "REFUNDED" /\ UNCHANGED status
        \/ status[c] # "REFUNDED" /\ Becomes(c, "PAID")
        \/ Becomes(c, "REFUNDED")
    BY <2>1, <2>2, SetStatusBecomes
  <2>. QED  BY <1>2, <2>3, <2>4 DEF Becomes, Kept, TypeOK
<1>3. ASSUME NEW s \in {"REFUNDED", "EXPIRED", "CANCELED"}, Transition(c, s, TRUE),
             Gone(c), s = "REFUNDED" => Paid(c)
      PROVE  /\ Becomes(c, status'[c]) /\ status'[c] \in Closed /\ Gone(c)
             /\ status'[c] \in {"PAID", "REFUNDED"} =>
                  Paid(c) \/ status[c] \in {"PAID", "REFUNDED"}
             /\ Kept(c) /\ InvoiceMay("CANCELED")
  <2>1. s \in ChargeStatus
    BY DEF ChargeStatus
  <2>2. Becomes(c, Target(c, s)) /\ InvoiceMay("CANCELED")
    BY <1>3, <2>1, TransitionBecomes
  <2>3. status'[c] = Target(c, s)
    BY <2>2 DEF Becomes
  <2>. QED  BY <1>3, <2>1, <2>2, <2>3, TargetIs DEF Kept
<1>. QED  BY <1>1, <1>2, <1>3 DEF Booked

(* A confirmation makes a pending charge active and gives the invoice its   *)
(* instruments while that is a draft or pending.                            *)
LEMMA ConfirmationIs ==
  ASSUME TypeOK, NEW c \in Charge, ConfirmIssuance(c)
  PROVE  \/ UNCHANGED <<invoice, status, linked, expiry>>
         \/ /\ status[c] = "PENDING" /\ Becomes(c, "ACTIVE")
            /\ linked' \in [Charge -> BOOLEAN]
            /\ expiry' \in [Charge -> {"unset", "ahead", "past"}] /\ expiry'[c] = "ahead"
            /\ \A d \in Charge : d # c => expiry'[d] = expiry[d]
            /\ InvoiceTyped
            /\ invoice'.txid \in {invoice.txid, c}
            /\ invoice'.billet \in {invoice.billet, c}
            /\ \/ UNCHANGED invoice /\ invoice.status \notin {"DRAFT", "PENDING"}
               \/ invoice'.status = "PENDING" /\ invoice'.gateway = c
<1>1. CASE status[c] # "PENDING"
  BY <1>1 DEF ConfirmIssuance
<1>2. CASE status[c] = "PENDING"
  <2>1. Becomes(c, "ACTIVE")
    BY <1>2, SetStatusBecomes DEF ConfirmIssuance, ChargeStatus
  <2>2. /\ linked' \in [Charge -> BOOLEAN]
        /\ expiry' \in [Charge -> {"unset", "ahead", "past"}] /\ expiry'[c] = "ahead"
        /\ \A d \in Charge : d # c => expiry'[d] = expiry[d]
    BY <1>2 DEF ConfirmIssuance, TypeOK
  <2>3. \/ UNCHANGED invoice /\ invoice.status \notin {"DRAFT", "PENDING"}
        \/ /\ invoice.status \in {"DRAFT", "PENDING"}
           /\ \/ invoice' = [invoice EXCEPT !.status = "PENDING", !.gateway = c, !.txid = c]
              \/ invoice' = [invoice EXCEPT !.status = "PENDING", !.gateway = c, !.billet = c]
    BY <1>2 DEF ConfirmIssuance
  <2>4. "PENDING" \in InvoiceStatus
    BY DEF InvoiceStatus
  <2>. QED  BY <1>2, <2>1, <2>2, <2>3, <2>4 DEF TypeOK, InvoiceTyped
<1>. QED  BY <1>1, <1>2

(* A request past its start works on a charge that was created.             *)
LEMMA WorksOn ==
  ASSUME IInv
  PROVE  \A w \in Worker :
           /\ step[w] \notin {"idle", "cancelLocal"} => job[w] \in Charge /\ job[w] \in Made
           /\ job[w] # None => job[w] \in Charge
BY Bounds DEF IInv, TypeOK, Working, Born

(* A charge that replaces one replaces a charge.                            *)
LEMMA ReplacesOne ==
  ASSUME IInv
  PROVE  \A c \in Charge : replaces[c] # None => replaces[c] \in Charge
BY DEF IInv, TypeOK

(* The next charge is one that nothing refers to yet.                       *)
LEMMA NextCharge ==
  ASSUME IInv, created < MaxCharges
  PROVE  /\ created + 1 \in Charge /\ created + 1 \in 0 .. MaxCharges
         /\ created + 1 \notin Made /\ 1 .. created + 1 = Made \cup {created + 1}
         /\ status[created + 1] = "ABSENT" /\ marker[created + 1] = "NONE"
         /\ provider[created + 1] = "none" /\ ~old[created + 1]
         /\ \A v \in Worker : job[v] # created + 1
<1>1. /\ created + 1 \in Charge /\ created + 1 \in 0 .. MaxCharges
      /\ created + 1 \notin Made /\ 1 .. created + 1 = Made \cup {created + 1}
  BY Bounds DEF IInv, TypeOK, Made
<1>. QED  BY <1>1, Bounds DEF IInv, Born

(* While replacements are resumed in time, what is still to be submitted is *)
(* pending.                                                                 *)
LEMMA UnsentIsPending ==
  ASSUME IInv, InTime
  PROVE  \A w \in Worker : step[w] \in Unsent => status[job[w]] = "PENDING"
<1>. SUFFICES ASSUME NEW w \in Worker, step[w] \in Unsent
              PROVE  status[job[w]] = "PENDING"
  OBVIOUS
<1>1. job[w] \in Charge /\ job[w] \in Made
  BY WorksOn
<1>2. provider[job[w]] = "none" /\ status[job[w]] # "FAILED"
  BY DEF IInv, Unmade, InTime, Unreleased, Submitting
<1>3. /\ status[job[w]] \notin Closed \cup {"ABSENT", "ACTIVE", "FAILED"}
      /\ status[job[w]] \in ChargeStatus
  BY <1>1, <1>2 DEF IInv, Born, ClosedIsGone, TypeOK
<1>. QED  BY <1>3 DEF ChargeStatus

\* No charge that was paid changes its status, and none is opened or confirmed.
Quiet ==
  \A c \in Charge :
    /\ status[c] = "PAID" => status'[c] = "PAID"
    /\ status'[c] = "ACTIVE" => status[c] = "ACTIVE"
    /\ status'[c] \in OpenStatus => status[c] \in OpenStatus

(* What an invoice tells stays true while its references do.                *)
LEMMA QuietTells ==
  ASSUME Told, Quiet, InvoiceMay("CANCELED")
  PROVE  Told'
BY DEF Told, Rests, Names, Bare, NoOpenCharge, Quiet, InvoiceMay

(* An invoice left alone keeps what it names.                               *)
LEMMA UnchangedMay == TypeOK /\ UNCHANGED invoice => InvoiceMay("CANCELED")
BY DEF TypeOK, InvoiceMay, InvoiceTyped

(* An unpaid invoice tells nothing of a charge that opens.                  *)
LEMMA UnpaidTells ==
  ASSUME Told, UNCHANGED invoice, invoice.status # "PAID",
         \A c \in Charge : status'[c] = "ACTIVE" => status[c] = "ACTIVE"
  PROVE  Told'
BY DEF Told, Names

(* A settlement of the charge the invoice rests on, or may rest on.         *)
LEMMA SettlementTells ==
  ASSUME TypeOK, Told, NEW c \in Charge, Becomes(c, "PAID"),
         IF Current(c) THEN SetInvoice("PAID") ELSE UNCHANGED invoice
  PROVE  Told'
<1>1. CASE ~Current(c)
  <2>1. Quiet
    BY DEF Quiet, Becomes
  <2>. QED  BY <1>1, <2>1, QuietTells, UnchangedMay
<1>2. CASE Current(c)
  <2>1. /\ invoice'.status = "PAID" /\ invoice'.gateway = invoice.gateway
        /\ invoice'.txid = invoice.txid /\ invoice'.billet = invoice.billet
    BY <1>2 DEF SetInvoice, TypeOK
  <2>2. Rests(c)'
    <3>1. CASE Names(c)
      BY <2>1, <3>1 DEF Rests, Names, Becomes
    <3>2. CASE ~Names(c)
      <4>1. Bare /\ \A d \in Charge : d # c => status[d] \notin OpenStatus
        BY <1>2, <3>2 DEF Current, Bare
      <4>. QED  BY <2>1, <4>1 DEF Rests, Bare, NoOpenCharge, Becomes
    <3>. QED  BY <3>1, <3>2
  <2>3. \E d \in Charge : Rests(d)'
    BY <2>2
  <2>4. invoice'.status \notin {"DRAFT", "PENDING"}
    BY <2>1
  <2>. QED  BY <2>3, <2>4 DEF Told
<1>. QED  BY <1>1, <1>2

(* A refund of the charge the invoice rests on cancels it; beside another   *)
(* paid charge the invoice goes on resting on that one.                     *)
LEMMA RefundTells ==
  ASSUME TypeOK, Told, NEW c \in Charge, Becomes(c, "REFUNDED"),
         IF Current(c) THEN SetInvoice("CANCELED") ELSE UNCHANGED invoice
  PROVE  Told'
<1>1. CASE Current(c)
  <2>1. invoice'.status = "CANCELED"
    BY <1>1 DEF SetInvoice, TypeOK
  <2>. QED  BY <2>1 DEF Told
<1>2. CASE ~Current(c)
  <2>1. UNCHANGED invoice
    BY <1>2
  <2>2. ASSUME NEW d \in Charge, Rests(d), d # c
        PROVE  Rests(d)'
    BY <2>1, <2>2 DEF Rests, Names, Bare, NoOpenCharge, Becomes
  <2>3. ASSUME Rests(c)
        PROVE  \E d \in Charge : Rests(d) /\ d # c
    <3>1. Bare /\ NoOpenCharge
      BY <1>2, <2>3 DEF Rests, Current
    <3>2. PICK d \in Charge : d # c /\ status[d] \in {"PENDING", "ACTIVE", "PAID"}
      BY <1>2, <3>1 DEF Current, Bare
    <3>3. status[d] = "PAID"
      BY <3>1, <3>2 DEF NoOpenCharge
    <3>. QED  BY <3>1, <3>2, <3>3 DEF Rests
  <2>4. invoice'.status = "PAID" => \E d \in Charge : Rests(d)'
    BY <2>1, <2>2, <2>3 DEF Told
  <2>5. \A d \in Charge :
          status'[d] = "ACTIVE" /\ invoice'.status \in {"DRAFT", "PENDING"} => Names(d)'
    BY <2>1 DEF Told, Names, Becomes
  <2>. QED  BY <2>4, <2>5 DEF Told
<1>. QED  BY <1>1, <1>2

(* What is booked of a charge leaves the invoice true to it.                *)
LEMMA BookedTells ==
  ASSUME TypeOK, Told, NEW c \in Charge, Booked(c)
  PROVE  Told'
<1>0. {"PAID", "REFUNDED", "EXPIRED", "CANCELED"} \subseteq ChargeStatus
  BY DEF ChargeStatus
<1>1. ASSUME UNCHANGED <<status, invoice>>
      PROVE  Told'
  BY <1>1, QuietTells, UnchangedMay DEF Quiet
<1>2. CASE RecordSettlement(c)
  BY <1>0, <1>1, <1>2, SetStatusBecomes, SettlementTells DEF RecordSettlement
<1>3. CASE RecordPixRefunds(c, TRUE)
  BY <1>0, <1>1, <1>3, SetStatusBecomes, RefundTells DEF RecordPixRefunds
<1>4. CASE RecordPixRefunds(c, FALSE)
  BY <1>0, <1>1, <1>4, SetStatusBecomes, SettlementTells DEF RecordPixRefunds
<1>5. CASE Transition(c, "REFUNDED", TRUE)
  <2>1. Target(c, "REFUNDED") = "REFUNDED"
    BY DEF Target
  <2>. QED  BY <1>0, <1>5, <2>1, SetStatusBecomes, RefundTells DEF Transition
<1>6. ASSUME NEW s \in {"EXPIRED", "CANCELED"}, Transition(c, s, TRUE)
      PROVE  Told'
  <2>1. Becomes(c, Target(c, s)) /\ InvoiceMay("CANCELED")
    BY <1>0, <1>6, TransitionBecomes
  <2>2. Quiet
    BY <1>0, <2>1, TargetIs DEF Quiet, Becomes
  <2>. QED  BY <2>1, <2>2, QuietTells
<1>. QED  BY <1>2, <1>3, <1>4, <1>5, <1>6 DEF Booked

-----------------------------------------------------------------------------
(* What holds however late replacements are resumed, action by action       *)

(* A charge is created beside no open one.                                  *)
LEMMA CreatePaymentKeeps ==
  ASSUME IInv, NEW w \in Worker, CreatePayment(w), UNCHANGED late
  PROVE  IInv' /\ Settled /\ (~late /\ InTime => InTime')
<1>n. /\ created + 1 \in Charge /\ created + 1 \in 0 .. MaxCharges
      /\ created + 1 \notin Made /\ 1 .. created + 1 = Made \cup {created + 1}
      /\ status[created + 1] = "ABSENT" /\ marker[created + 1] = "NONE"
      /\ provider[created + 1] = "none" /\ ~old[created + 1]
      /\ \A v \in Worker : job[v] # created + 1
  BY NextCharge DEF CreatePayment, Reserve
<1>a. /\ Becomes(created + 1, "PENDING") /\ NoOpenCharge
      /\ created' = created + 1 /\ method' \in [Charge -> Method]
      /\ Alone(w) /\ step'[w] = "created" /\ job'[w] = created + 1
      /\ UNCHANGED <<invoice, marker, replaces, linked, expiry, old, provider,
                    notices>>
  BY <1>n, Bounds DEF IInv, TypeOK, CreatePayment, chargeVars, providerVars, workerVars,
       Reserve, Becomes, Alone, Step, ChargeStatus
<1>m. Made' = Made \cup {created + 1}
  BY <1>a, <1>n DEF Made
<1>1. TypeOK'
  BY <1>a, <1>n DEF IInv, TypeOK, Alone, Becomes
<1>2. Born'
  BY <1>a, <1>n, <1>m DEF IInv, Born, Alone, Becomes
<1>3. Working'
  BY <1>a, <1>n, WorksOn, Bounds DEF IInv, Working, Alone
<1>4. OneOpen'
  BY <1>a, <1>n DEF IInv, OneOpen, Becomes, NoOpenCharge
<1>5. Claimed'
  BY <1>a, <1>n, WorksOn DEF IInv, Claimed, OneSubmitter, Submitting, Unmade, Alone
<1>6. Unmade'
  BY <1>a, <1>n, WorksOn DEF IInv, Unmade, Claimed, OneSubmitter, Submitting, Alone
<1>7. Knowledge'
  BY <1>a, <1>n, WorksOn DEF IInv, Knowledge, Alone
<1>8. ClosedIsGone'
  BY <1>a, <1>n DEF IInv, ClosedIsGone, Knowledge, Becomes
<1>9. Settled
  BY <1>a, <1>n DEF Settled, Kept, Becomes
<1>10. (~late /\ InTime => InTime')
  <2>. SUFFICES ASSUME ~late, InTime PROVE InTime'
    OBVIOUS
  <2>1. Recent'
    BY <1>a, <1>n, WorksOn DEF IInv, InTime, Recent, Submitting, Alone
  <2>2. Unreleased'
    BY <1>a, <1>n, WorksOn DEF IInv, InTime, Unreleased, Submitting, Alone, Becomes
  <2>3. ReleasedMeansAbsent'
    BY <1>a, <1>n DEF IInv, InTime, ReleasedMeansAbsent, Becomes
  <2>4. Told'
    <3>1. invoice.status # "PAID" /\ \A d \in Charge : status'[d] = "ACTIVE" => status[d] = "ACTIVE"
      BY <1>a DEF CreatePayment, Becomes
    <3>. QED  BY <1>a, <3>1, UnpaidTells DEF InTime
  <2>. QED  BY <2>1, <2>2, <2>3, <2>4 DEF InTime
<1>11. QED  BY <1>1, <1>2, <1>3, <1>4, <1>5, <1>6, <1>7, <1>8, <1>9, <1>10 DEF IInv

(* The first marking of a charge to submit leaves it as it is.              *)
LEMMA MarkPendingKeeps ==
  ASSUME IInv, NEW w \in Worker, MarkPending(w), UNCHANGED late
  PROVE  IInv' /\ Settled /\ (~late /\ InTime => InTime')
<1>j. job[w] \in Charge /\ job[w] \in Made
  BY WorksOn DEF MarkPending
<1>a. /\ Becomes(job[w], Target(job[w], "PENDING"))
      /\ Target(job[w], "PENDING") \in OpenStatus =>
           \A d \in Charge : d # job[w] => status[d] \notin OpenStatus
      /\ GoesTo(w, "submit") /\ step[w] = "created"
      /\ UNCHANGED <<invoice, created, method, marker, replaces, linked, expiry, old,
                    provider, notices>>
  BY <1>j, TransitionBecomes, GotoMoves DEF IInv, TypeOK, MarkPending, chargeVars,
       providerVars, workerVars, Step, ChargeStatus
<1>b. /\ \/ Target(job[w], "PENDING") = "PENDING"
         \/ /\ Target(job[w], "PENDING") = status[job[w]]
            /\ status[job[w]] \in {"REFUNDED", "PAID", "REPLACED"}
      /\ status[job[w]] \in {"REFUNDED", "PAID"} => Target(job[w], "PENDING") = status[job[w]]
  BY <1>j, TargetIs DEF IInv, ChargeStatus
<1>1. TypeOK'
  BY <1>a, <1>j, <1>b DEF IInv, TypeOK, Alone, GoesTo, Becomes
<1>2. Born'
  BY <1>a, <1>j, <1>b DEF IInv, Born, Made, Alone, GoesTo, Becomes
<1>3. Working'
  BY <1>a, <1>j, <1>b DEF IInv, Working, Alone, GoesTo
<1>4. OneOpen'
  BY <1>a, <1>j, <1>b DEF IInv, OneOpen, Becomes
<1>5. Claimed'
  BY <1>a, <1>j, <1>b, WorksOn DEF IInv, Claimed, OneSubmitter, Submitting, Unmade,
       Alone, GoesTo
<1>6. Unmade'
  BY <1>a, <1>j, <1>b, WorksOn DEF IInv, Unmade, Claimed, OneSubmitter, Submitting,
       Alone, GoesTo
<1>7. Knowledge'
  BY <1>a, <1>j, <1>b, WorksOn DEF IInv, Knowledge, Alone, GoesTo
<1>8. ClosedIsGone'
  BY <1>a, <1>j, <1>b DEF IInv, ClosedIsGone, Knowledge, Becomes
<1>9. Settled
  BY <1>a, <1>j, <1>b DEF Settled, Kept, Becomes
<1>10. (~late /\ InTime => InTime')
  <2>. SUFFICES ASSUME ~late, InTime PROVE InTime'
    OBVIOUS
  <2>1. Recent'
    BY <1>a, <1>j, <1>b, WorksOn DEF IInv, InTime, Recent, Submitting, Alone, GoesTo
  <2>2. Unreleased'
    BY <1>a, <1>j, <1>b, WorksOn DEF IInv, InTime, Unreleased, Submitting, Alone,
         GoesTo, Becomes
  <2>3. ReleasedMeansAbsent'
    BY <1>a, <1>j, <1>b DEF IInv, InTime, ReleasedMeansAbsent, Becomes
  <2>4. Told'
    <3>1. status[job[w]] = "PENDING"
      BY <1>a, UnsentIsPending
    <3>2. Quiet
      BY <1>a, <1>j, <1>b, <3>1 DEF Quiet, Becomes
    <3>3. InvoiceMay("CANCELED")
      BY <1>a, UnchangedMay DEF IInv
    <3>. QED  BY <3>2, <3>3, QuietTells DEF InTime
  <2>. QED  BY <2>1, <2>2, <2>3, <2>4 DEF InTime
<1>11. QED  BY <1>1, <1>2, <1>3, <1>4, <1>5, <1>6, <1>7, <1>8, <1>9, <1>10 DEF IInv

(* A refusal changes nothing at the provider.                               *)
LEMMA SubmissionRefusedKeeps ==
  ASSUME IInv, NEW w \in Worker, SubmissionRefused(w), UNCHANGED late
  PROVE  IInv' /\ Settled /\ (~late /\ InTime => InTime')
<1>a. /\ GoesTo(w, "refused") /\ step[w] = "submit"
      /\ UNCHANGED <<invoice, created, status, method, marker, replaces, linked,
                    expiry, old, provider, notices>>
  BY GotoMoves DEF IInv, TypeOK, SubmissionRefused, chargeVars, providerVars,
       workerVars, Step
<1>1. TypeOK'
  BY <1>a, Bounds DEF IInv, TypeOK, Alone, GoesTo
<1>2. Born'
  BY <1>a, Bounds DEF IInv, Born, Made, Alone, GoesTo
<1>3. Working'
  BY <1>a, Bounds DEF IInv, Working, Alone, GoesTo
<1>4. Claimed'
  BY <1>a, Bounds, WorksOn DEF IInv, Claimed, OneSubmitter, Submitting, Unmade, Alone,
       GoesTo
<1>5. Unmade'
  BY <1>a, Bounds, WorksOn DEF IInv, Unmade, Claimed, OneSubmitter, Submitting, Alone,
       GoesTo
<1>6. Knowledge'
  BY <1>a, Bounds, WorksOn DEF IInv, Knowledge, Alone, GoesTo
<1>7. OneOpen' /\ ClosedIsGone'
  BY <1>a, Bounds DEF IInv, OneOpen, ClosedIsGone, Made, OneSubmitter, Submitting
<1>8. Settled
  BY <1>a DEF Settled, Kept
<1>9. (~late /\ InTime => InTime')
  <2>. SUFFICES ASSUME ~late, InTime PROVE InTime'
    OBVIOUS
  <2>1. Recent'
    BY <1>a, Bounds, WorksOn DEF IInv, InTime, Recent, Submitting, Alone, GoesTo
  <2>2. Unreleased'
    BY <1>a, Bounds, WorksOn DEF IInv, InTime, Unreleased, Submitting, Alone, GoesTo
  <2>3. ReleasedMeansAbsent' /\ Told'
    BY <1>a DEF InTime, ReleasedMeansAbsent, Told, Names, Rests, Bare, NoOpenCharge
  <2>. QED  BY <2>1, <2>2, <2>3 DEF InTime
<1>10. QED  BY <1>1, <1>2, <1>3, <1>4, <1>5, <1>6, <1>7, <1>8, <1>9 DEF IInv

(* Only the request that submits a charge brings it to the provider.        *)
LEMMA SubmissionAcceptedKeeps ==
  ASSUME IInv, NEW w \in Worker, SubmissionAccepted(w), UNCHANGED late
  PROVE  IInv' /\ Settled /\ (~late /\ InTime => InTime')
<1>j. job[w] \in Charge /\ job[w] \in Made
  BY WorksOn DEF SubmissionAccepted
<1>a. /\ provider' \in [Charge -> ProviderStatus] /\ provider[job[w]] = "none"
      /\ provider'[job[w]] = "live"
      /\ \A d \in Charge : d # job[w] => provider'[d] = provider[d]
      /\ GoesTo(w, "accepted") /\ step[w] = "submit"
      /\ UNCHANGED <<invoice, created, status, method, marker, replaces, linked,
                    expiry, old, notices>>
  BY <1>j, GotoMoves DEF IInv, TypeOK, SubmissionAccepted, chargeVars, providerVars,
       workerVars, Step, ProviderStatus
<1>1. TypeOK'
  BY <1>a, <1>j DEF IInv, TypeOK, Alone, GoesTo
<1>2. Born'
  BY <1>a, <1>j, Bounds DEF IInv, Born, Made, Alone, GoesTo
<1>3. Working'
  BY <1>a, <1>j DEF IInv, Working, Alone, GoesTo
<1>4. Claimed'
  BY <1>a, <1>j, WorksOn DEF IInv, Claimed, OneSubmitter, Submitting, Unmade, Alone,
       GoesTo
<1>5. Unmade'
  BY <1>a, <1>j, WorksOn DEF IInv, Unmade, Claimed, OneSubmitter, Submitting, Alone,
       GoesTo
<1>6. Knowledge'
  BY <1>a, <1>j, WorksOn DEF IInv, Knowledge, Alone, GoesTo
<1>7. ClosedIsGone'
  BY <1>a, <1>j, ReplacesOne DEF IInv, ClosedIsGone, Knowledge
<1>8. OneOpen'
  BY <1>a DEF IInv, OneOpen, Made, OneSubmitter, Submitting
<1>9. Settled
  BY <1>a DEF Settled, Kept
<1>10. (~late /\ InTime => InTime')
  <2>. SUFFICES ASSUME ~late, InTime PROVE InTime'
    OBVIOUS
  <2>1. Recent'
    BY <1>a, <1>j, WorksOn DEF IInv, InTime, Recent, Submitting, Alone, GoesTo, Unmade
  <2>2. Unreleased'
    BY <1>a, <1>j, WorksOn DEF IInv, InTime, Unreleased, Submitting, Alone, GoesTo
  <2>3. ReleasedMeansAbsent'
    BY <1>a, <1>j DEF IInv, InTime, ReleasedMeansAbsent, Unreleased, Submitting
  <2>4. Told'
    BY <1>a DEF InTime, Told, Names, Rests, Bare, NoOpenCharge
  <2>. QED  BY <2>1, <2>2, <2>3, <2>4 DEF InTime
<1>11. QED  BY <1>1, <1>2, <1>3, <1>4, <1>5, <1>6, <1>7, <1>8, <1>9, <1>10 DEF IInv

(* A submission whose answer is lost ends its request.                      *)
LEMMA SubmissionUncertainKeeps ==
  ASSUME IInv, NEW w \in Worker, SubmissionUncertain(w), UNCHANGED late
  PROVE  IInv' /\ Settled /\ (~late /\ InTime => InTime')
<1>j. job[w] \in Charge /\ job[w] \in Made
  BY WorksOn DEF SubmissionUncertain
<1>c. \/ UNCHANGED provider
      \/ /\ provider' \in [Charge -> ProviderStatus] /\ provider[job[w]] = "none"
         /\ provider'[job[w]] = "live"
         /\ \A d \in Charge : d # job[w] => provider'[d] = provider[d]
  <2>1. \/ UNCHANGED provider
        \/ provider[job[w]] = "none" /\ provider' = [provider EXCEPT ![job[w]] = "live"]
    BY DEF SubmissionUncertain
  <2>2. CASE provider[job[w]] = "none" /\ provider' = [provider EXCEPT ![job[w]] = "live"]
    BY <1>j, <2>2 DEF IInv, TypeOK, ProviderStatus
  <2>. QED  BY <2>1, <2>2
<1>a. /\ \/ UNCHANGED provider
         \/ /\ provider' \in [Charge -> ProviderStatus] /\ provider[job[w]] = "none"
            /\ provider'[job[w]] = "live"
            /\ \A d \in Charge : d # job[w] => provider'[d] = provider[d]
      /\ Ends(w) /\ step[w] = "submit"
      /\ UNCHANGED <<invoice, created, status, method, marker, replaces, linked,
                    expiry, old, notices>>
  BY <1>c, FinishEnds DEF IInv, TypeOK, SubmissionUncertain, chargeVars, providerVars,
       workerVars
<1>1. TypeOK'
  BY <1>a, <1>j, Bounds DEF IInv, TypeOK, Alone, Ends
<1>2. Born'
  BY <1>a, <1>j, Bounds DEF IInv, Born, Made, Alone, Ends
<1>3. Working'
  BY <1>a, <1>j, Bounds DEF IInv, Working, Alone, Ends
<1>4. Claimed'
  BY <1>a, <1>j, Bounds, WorksOn DEF IInv, Claimed, OneSubmitter, Submitting, Unmade,
       Alone, Ends
<1>5. Unmade'
  BY <1>a, <1>j, Bounds, WorksOn DEF IInv, Unmade, Claimed, OneSubmitter, Submitting,
       Alone, Ends
<1>6. Knowledge'
  BY <1>a, <1>j, Bounds, WorksOn DEF IInv, Knowledge, Alone, Ends
<1>7. ClosedIsGone'
  BY <1>a, <1>j, Bounds, ReplacesOne DEF IInv, ClosedIsGone, Knowledge
<1>8. OneOpen'
  BY <1>a DEF IInv, OneOpen, Made, OneSubmitter, Submitting
<1>9. Settled
  BY <1>a DEF Settled, Kept
<1>10. (~late /\ InTime => InTime')
  <2>. SUFFICES ASSUME ~late, InTime PROVE InTime'
    OBVIOUS
  <2>1. Recent'
    BY <1>a, <1>j, Bounds, WorksOn DEF IInv, InTime, Recent, Submitting, Alone, Ends
  <2>2. Unreleased'
    BY <1>a, <1>j, Bounds, WorksOn DEF IInv, InTime, Unreleased, Submitting, Alone, Ends
  <2>3. ReleasedMeansAbsent'
    BY <1>a, <1>j, Bounds DEF IInv, InTime, ReleasedMeansAbsent, Unreleased, Submitting
  <2>4. Told'
    BY <1>a DEF InTime, Told, Names, Rests, Bare, NoOpenCharge
  <2>. QED  BY <2>1, <2>2, <2>3, <2>4 DEF InTime
<1>11. QED  BY <1>1, <1>2, <1>3, <1>4, <1>5, <1>6, <1>7, <1>8, <1>9, <1>10 DEF IInv

(* A refusal releases the charge that its request submitted.                *)
LEMMA RecordRefusalKeeps ==
  ASSUME IInv, NEW w \in Worker, RecordRefusal(w), UNCHANGED late
  PROVE  IInv' /\ Settled /\ (~late /\ InTime => InTime')
<1>j. job[w] \in Charge /\ job[w] \in Made
  BY WorksOn DEF RecordRefusal
<1>a. /\ UNCHANGED status \/ (status[job[w]] = "PENDING" /\ Becomes(job[w], "FAILED"))
      /\ Ends(w) /\ step[w] = "refused"
      /\ UNCHANGED <<invoice, created, method, marker, replaces, linked, expiry, old,
                    provider, notices>>
  BY <1>j, FinishEnds, FailureBecomes DEF IInv, TypeOK, RecordRefusal, chargeVars,
       providerVars, workerVars
<1>1. TypeOK'
  BY <1>a, <1>j, Bounds DEF IInv, TypeOK, Alone, Ends, Becomes
<1>2. Born'
  BY <1>a, <1>j, Bounds DEF IInv, Born, Made, Alone, Ends, Becomes
<1>3. Working'
  BY <1>a, <1>j, Bounds DEF IInv, Working, Alone, Ends
<1>4. OneOpen'
  BY <1>a, <1>j, Bounds DEF IInv, OneOpen, Becomes
<1>5. Claimed'
  BY <1>a, <1>j, Bounds, WorksOn DEF IInv, Claimed, OneSubmitter, Submitting, Unmade,
       Alone, Ends
<1>6. Unmade'
  BY <1>a, <1>j, Bounds, WorksOn DEF IInv, Unmade, Claimed, OneSubmitter, Submitting,
       Alone, Ends
<1>7. Knowledge'
  BY <1>a, <1>j, Bounds, WorksOn DEF IInv, Knowledge, Alone, Ends
<1>8. ClosedIsGone'
  BY <1>a, <1>j, Bounds DEF IInv, ClosedIsGone, Knowledge, Becomes
<1>9. Settled
  BY <1>a, <1>j, Bounds DEF Settled, Kept, Becomes
<1>10. (~late /\ InTime => InTime')
  <2>. SUFFICES ASSUME ~late, InTime PROVE InTime'
    OBVIOUS
  <2>1. Recent'
    BY <1>a, <1>j, Bounds, WorksOn DEF IInv, InTime, Recent, Submitting, Alone, Ends
  <2>2. Unreleased'
    BY <1>a, <1>j, Bounds, WorksOn DEF IInv, InTime, Unreleased, Submitting, Alone,
         Ends, Becomes, Claimed, OneSubmitter
  <2>3. ReleasedMeansAbsent'
    BY <1>a, <1>j, Bounds DEF IInv, InTime, ReleasedMeansAbsent, Becomes, Unmade
  <2>4. Told'
    <3>2. Quiet
      BY <1>a, <1>j DEF Quiet, Becomes
    <3>3. InvoiceMay("CANCELED")
      BY <1>a, UnchangedMay DEF IInv
    <3>. QED  BY <3>2, <3>3, QuietTells DEF InTime
  <2>. QED  BY <2>1, <2>2, <2>3, <2>4 DEF InTime
<1>11. QED  BY <1>1, <1>2, <1>3, <1>4, <1>5, <1>6, <1>7, <1>8, <1>9, <1>10 DEF IInv

(* The reference kept is of a charge that the provider has.                 *)
LEMMA KeepReferenceKeeps ==
  ASSUME IInv, NEW w \in Worker, KeepReference(w), UNCHANGED late
  PROVE  IInv' /\ Settled /\ (~late /\ InTime => InTime')
<1>a. /\ linked' \in [Charge -> BOOLEAN]
      /\ GoesTo(w, "confirm") \/ Ends(w)
      /\ step[w] = "accepted"
      /\ UNCHANGED <<invoice, created, status, method, marker, replaces, expiry, old,
                    provider, notices>>
  BY GotoMoves, FinishEnds DEF IInv, TypeOK, KeepReference, chargeVars, providerVars,
       workerVars, Step
<1>1. TypeOK'
  BY <1>a, Bounds DEF IInv, TypeOK, Alone, GoesTo, Ends
<1>2. Born'
  BY <1>a, Bounds DEF IInv, Born, Made, Alone, GoesTo, Ends
<1>3. Working'
  BY <1>a, Bounds DEF IInv, Working, Alone, GoesTo, Ends
<1>4. Claimed'
  BY <1>a, Bounds, WorksOn DEF IInv, Claimed, OneSubmitter, Submitting, Unmade, Alone,
       GoesTo, Ends
<1>5. Unmade'
  BY <1>a, Bounds, WorksOn DEF IInv, Unmade, Claimed, OneSubmitter, Submitting, Alone,
       GoesTo, Ends
<1>6. Knowledge'
  BY <1>a, Bounds, WorksOn DEF IInv, Knowledge, Alone, GoesTo, Ends
<1>7. OneOpen' /\ ClosedIsGone'
  BY <1>a, Bounds DEF IInv, OneOpen, ClosedIsGone, Made, OneSubmitter, Submitting
<1>8. Settled
  BY <1>a DEF Settled, Kept
<1>9. (~late /\ InTime => InTime')
  <2>. SUFFICES ASSUME ~late, InTime PROVE InTime'
    OBVIOUS
  <2>1. Recent'
    BY <1>a, Bounds, WorksOn DEF IInv, InTime, Recent, Submitting, Alone, GoesTo, Ends
  <2>2. Unreleased'
    BY <1>a, Bounds, WorksOn DEF IInv, InTime, Unreleased, Submitting, Alone, GoesTo,
         Ends
  <2>3. ReleasedMeansAbsent' /\ Told'
    BY <1>a DEF InTime, ReleasedMeansAbsent, Told, Names, Rests, Bare, NoOpenCharge
  <2>. QED  BY <2>1, <2>2, <2>3 DEF InTime
<1>10. QED  BY <1>1, <1>2, <1>3, <1>4, <1>5, <1>6, <1>7, <1>8, <1>9 DEF IInv

(* The charge confirmed is one that the provider has.                       *)
LEMMA ConfirmKeeps ==
  ASSUME IInv, NEW w \in Worker, Confirm(w), UNCHANGED late
  PROVE  IInv' /\ Settled /\ (~late /\ InTime => InTime')
<1>j. job[w] \in Charge /\ job[w] \in Made
  BY WorksOn DEF Confirm
<1>c. \/ UNCHANGED <<invoice, status, linked, expiry>>
      \/ /\ status[job[w]] = "PENDING" /\ Becomes(job[w], "ACTIVE")
         /\ linked' \in [Charge -> BOOLEAN]
         /\ expiry' \in [Charge -> {"unset", "ahead", "past"}] /\ expiry'[job[w]] = "ahead"
         /\ \A d \in Charge : d # job[w] => expiry'[d] = expiry[d]
         /\ InvoiceTyped
         /\ invoice'.txid \in {invoice.txid, job[w]}
         /\ invoice'.billet \in {invoice.billet, job[w]}
         /\ \/ UNCHANGED invoice /\ invoice.status \notin {"DRAFT", "PENDING"}
            \/ invoice'.status = "PENDING" /\ invoice'.gateway = job[w]
  BY <1>j, ConfirmationIs DEF Confirm, IInv
<1>a. /\ \/ UNCHANGED <<invoice, status, linked, expiry>>
         \/ /\ status[job[w]] = "PENDING" /\ Becomes(job[w], "ACTIVE")
            /\ linked' \in [Charge -> BOOLEAN]
            /\ expiry' \in [Charge -> {"unset", "ahead", "past"}] /\ expiry'[job[w]] = "ahead"
            /\ \A d \in Charge : d # job[w] => expiry'[d] = expiry[d]
            /\ InvoiceTyped
            /\ invoice'.txid \in {invoice.txid, job[w]}
            /\ invoice'.billet \in {invoice.billet, job[w]}
            /\ \/ UNCHANGED invoice /\ invoice.status \notin {"DRAFT", "PENDING"}
               \/ invoice'.status = "PENDING" /\ invoice'.gateway = job[w]
      /\ Ends(w) /\ step[w] \in {"confirm", "recover"}
      /\ UNCHANGED <<created, method, marker, replaces, old, provider, notices>>
  BY <1>j, <1>c, FinishEnds DEF IInv, TypeOK, Confirm, chargeVars, providerVars,
       workerVars, Confirm
<1>f. /\ \A d \in Charge : /\ status'[d] = "FAILED" => status[d] = "FAILED"
                           /\ status'[d] = "ABSENT" <=> status[d] = "ABSENT"
      /\ invoice'.txid \in {invoice.txid, job[w]} /\ invoice'.billet \in {invoice.billet, job[w]}
      /\ Ends(w) /\ UNCHANGED <<created, marker, replaces, old, provider, notices>>
  BY <1>a, <1>j DEF Becomes
<1>1. TypeOK'
  BY <1>a, <1>j, Bounds DEF IInv, TypeOK, Alone, Ends, Becomes, InvoiceTyped
<1>2. Born'
  BY <1>f, <1>j, Bounds DEF IInv, Born, Made, Alone, Ends
<1>3. Working'
  BY <1>a, <1>j, Bounds DEF IInv, Working, Alone, Ends
<1>4. OneOpen'
  BY <1>a, <1>j, Bounds DEF IInv, OneOpen, Becomes
<1>5. Claimed'
  BY <1>a, <1>j, Bounds, WorksOn DEF IInv, Claimed, OneSubmitter, Submitting, Unmade,
       Alone, Ends
<1>6. Unmade'
  BY <1>a, <1>j, Bounds, WorksOn DEF IInv, Unmade, Claimed, OneSubmitter, Submitting,
       Alone, Ends
<1>7. Knowledge'
  BY <1>a, <1>j, Bounds, WorksOn DEF IInv, Knowledge, Alone, Ends
<1>8. ClosedIsGone'
  BY <1>a, <1>j, Bounds DEF IInv, ClosedIsGone, Knowledge, Becomes
<1>9. Settled
  BY <1>a, <1>j, Bounds DEF Settled, Kept, Becomes
<1>10. (~late /\ InTime => InTime')
  <2>. SUFFICES ASSUME ~late, InTime PROVE InTime'
    OBVIOUS
  <2>1. Recent'
    BY <1>a, <1>j, Bounds, WorksOn DEF IInv, InTime, Recent, Submitting, Alone, Ends
  <2>2. Unreleased'
    BY <1>f, <1>j, WorksOn DEF InTime, Unreleased, Submitting, Alone, Ends
  <2>3. ReleasedMeansAbsent'
    BY <1>a, <1>j, Bounds DEF IInv, InTime, ReleasedMeansAbsent, Becomes
  <2>4. Told'
    <3>1. CASE UNCHANGED <<invoice, status>>
      BY <3>1 DEF InTime, Told, Rests, Names, Bare, NoOpenCharge
    <3>2. CASE /\ status[job[w]] = "PENDING" /\ Becomes(job[w], "ACTIVE")
               /\ UNCHANGED invoice /\ invoice.status \notin {"DRAFT", "PENDING"}
      BY <1>j, <3>2 DEF InTime, Told, Rests, Names, Bare, NoOpenCharge, Becomes
    <3>3. CASE /\ status[job[w]] = "PENDING" /\ Becomes(job[w], "ACTIVE")
               /\ invoice'.status = "PENDING" /\ invoice'.gateway = job[w]
      <4>1. \A d \in Charge : status'[d] = "ACTIVE" => d = job[w]
        BY <1>j, <3>3 DEF IInv, OneOpen, Becomes
      <4>. QED  BY <3>3, <4>1 DEF Told, Names
    <3>. QED  BY <1>a, <3>1, <3>2, <3>3
  <2>. QED  BY <2>1, <2>2, <2>3, <2>4 DEF InTime
<1>11. QED  BY <1>1, <1>2, <1>3, <1>4, <1>5, <1>6, <1>7, <1>8, <1>9, <1>10 DEF IInv

(* A replacement resumed is still to be claimed.                            *)
LEMMA ResumeReplacementKeeps ==
  ASSUME IInv, NEW w \in Worker, ResumeReplacement(w), UNCHANGED late
  PROVE  IInv' /\ Settled /\ (~late /\ InTime => InTime')
<1>a. /\ Alone(w) /\ step[w] = "idle" /\ step'[w] = "claim"
      /\ job'[w] \in Charge /\ status[job'[w]] = "PENDING" /\ replaces[job'[w]] # None
      /\ old[job'[w]] => late
      /\ UNCHANGED <<invoice, created, status, method, marker, replaces, linked,
                    expiry, old, provider, notices>>
  BY DEF IInv, TypeOK, ResumeReplacement, chargeVars, providerVars, workerVars, Alone,
       Goto, Step
<1>1. TypeOK'
  BY <1>a, Bounds DEF IInv, TypeOK, Alone
<1>2. Born'
  BY <1>a, Bounds DEF IInv, Born, Made, Alone
<1>3. Working'
  BY <1>a, Bounds DEF IInv, Working, Alone
<1>4. Claimed'
  BY <1>a, Bounds, WorksOn DEF IInv, Claimed, OneSubmitter, Submitting, Unmade, Alone
<1>5. Unmade'
  BY <1>a, Bounds, WorksOn DEF IInv, Unmade, Claimed, OneSubmitter, Submitting, Alone
<1>6. Knowledge'
  BY <1>a, Bounds, WorksOn DEF IInv, Knowledge, Alone
<1>7. OneOpen' /\ ClosedIsGone'
  BY <1>a, Bounds DEF IInv, OneOpen, ClosedIsGone, Made, OneSubmitter, Submitting
<1>8. Settled
  BY <1>a DEF Settled, Kept
<1>9. (~late /\ InTime => InTime')
  <2>. SUFFICES ASSUME ~late, InTime PROVE InTime'
    OBVIOUS
  <2>1. Recent'
    BY <1>a, Bounds, WorksOn DEF IInv, InTime, Recent, Submitting, Alone
  <2>2. Unreleased'
    BY <1>a, Bounds, WorksOn DEF IInv, InTime, Unreleased, Submitting, Alone
  <2>3. ReleasedMeansAbsent' /\ Told'
    BY <1>a DEF InTime, ReleasedMeansAbsent, Told, Names, Rests, Bare, NoOpenCharge
  <2>. QED  BY <2>1, <2>2, <2>3 DEF InTime
<1>10. QED  BY <1>1, <1>2, <1>3, <1>4, <1>5, <1>6, <1>7, <1>8, <1>9 DEF IInv

(* A charge past its deadline makes room for its replacement.               *)
LEMMA ReserveReplacementKeeps ==
  ASSUME IInv, NEW w \in Worker, ReserveReplacement(w), UNCHANGED late
  PROVE  IInv' /\ Settled /\ (~late /\ InTime => InTime')
<1>n. /\ created + 1 \in Charge /\ created + 1 \in 0 .. MaxCharges
      /\ created + 1 \notin Made /\ 1 .. created + 1 = Made \cup {created + 1}
      /\ status[created + 1] = "ABSENT" /\ marker[created + 1] = "NONE"
      /\ provider[created + 1] = "none" /\ ~old[created + 1]
      /\ \A v \in Worker : job[v] # created + 1
  BY NextCharge DEF ReserveReplacement, Reserve
<1>p. PICK p \in Charge :
        /\ status[p] \in {"EXPIRED", "ACTIVE"} /\ expiry[p] = "past"
        /\ \A d \in Charge : d # p => status[d] \notin OpenStatus
        /\ method[p] \in EnabledMethods /\ Reserve(w, method[p], "claim")
        /\ status' = [status EXCEPT ![p] = "EXPIRED", ![created + 1] = "PENDING"]
        /\ replaces' = [replaces EXCEPT ![created + 1] = p]
        /\ marker' = [marker EXCEPT ![created + 1] = "REPLACEMENT_CANCEL_PENDING"]
        /\ expiry' = [expiry EXCEPT ![created + 1] = "ahead"]
  BY DEF ReserveReplacement, Replaceable, NoOtherOpen
<1>q. /\ status' \in [Charge -> ChargeStatus] /\ status'[created + 1] = "PENDING"
      /\ marker' \in [Charge -> Marker]
      /\ marker'[created + 1] = "REPLACEMENT_CANCEL_PENDING"
      /\ replaces' \in [Charge -> OptCharge]
      /\ expiry' \in [Charge -> {"unset", "ahead", "past"}] /\ expiry'[created + 1] = "ahead"
      /\ \A d \in Charge : d # created + 1 =>
           marker'[d] = marker[d] /\ replaces'[d] = replaces[d] /\ expiry'[d] = expiry[d]
  BY <1>p, <1>n DEF IInv, TypeOK, ChargeStatus, Marker
<1>a. /\ status' \in [Charge -> ChargeStatus] /\ status'[created + 1] = "PENDING"
      /\ marker' \in [Charge -> Marker]
      /\ marker'[created + 1] = "REPLACEMENT_CANCEL_PENDING"
      /\ replaces' \in [Charge -> OptCharge]
      /\ expiry' \in [Charge -> {"unset", "ahead", "past"}]
      /\ expiry'[created + 1] = "ahead"
      /\ \A d \in Charge : d # created + 1 =>
           marker'[d] = marker[d] /\ replaces'[d] = replaces[d] /\ expiry'[d] = expiry[d]
      /\ created' = created + 1 /\ method' \in [Charge -> Method]
      /\ Alone(w) /\ step'[w] = "claim" /\ job'[w] = created + 1 /\ step[w] = "idle"
      /\ invoice.status # "PAID"
      /\ UNCHANGED <<invoice, linked, old, provider, notices>>
  BY <1>n, <1>p, <1>q DEF IInv, TypeOK, ReserveReplacement, chargeVars, providerVars,
       workerVars, Reserve, Alone, Step
<1>b. /\ status[p] \in {"EXPIRED", "ACTIVE"} /\ expiry[p] = "past" /\ p \in Charge /\ p \in Made
      /\ \A d \in Charge : d # p => status[d] \notin OpenStatus
      /\ status'[p] = "EXPIRED" /\ replaces'[created + 1] = p
      /\ \A d \in Charge : d # p /\ d # created + 1 => status'[d] = status[d]
  BY <1>p, <1>n DEF IInv, TypeOK, Born
<1>m. Made' = Made \cup {created + 1}
  BY <1>a, <1>n DEF Made
<1>1. TypeOK'
  BY <1>a, <1>b, <1>n DEF IInv, TypeOK, Alone
<1>2. Born'
  BY <1>a, <1>b, <1>n, <1>m DEF IInv, Born, Alone
<1>3. Working'
  <2>1. job'[w] # None /\ replaces'[job'[w]] # None
    BY <1>a, <1>b, <1>n, Bounds
  <2>2. ASSUME NEW v \in Worker, v # w
        PROVE  /\ step'[v] = step[v] /\ job'[v] = job[v]
               /\ step[v] \notin {"idle", "cancelLocal"} => replaces'[job[v]] = replaces[job[v]]
    BY <1>a, <1>n, <2>2, WorksOn DEF Alone
  <2>. QED  BY <1>a, <2>1, <2>2 DEF IInv, Working
<1>4. OneOpen'
  BY <1>a, <1>b, <1>n DEF IInv, OneOpen
<1>5. Claimed'
  BY <1>a, <1>b, <1>n, WorksOn DEF IInv, Claimed, OneSubmitter, Submitting, Alone
<1>6. Unmade'
  BY <1>a, <1>b, <1>n, WorksOn DEF IInv, Unmade, Alone
<1>7. Knowledge'
  BY <1>a, <1>b, <1>n, WorksOn DEF IInv, Knowledge, Alone
<1>8. ClosedIsGone'
  BY <1>a, <1>b, <1>n, ReplacesOne DEF IInv, ClosedIsGone, Knowledge
<1>9. Settled
  BY <1>a, <1>b, <1>n DEF Settled, Kept
<1>10. (~late /\ InTime => InTime')
  <2>. SUFFICES ASSUME ~late, InTime PROVE InTime'
    OBVIOUS
  <2>1. Recent'
    BY <1>a, <1>b, <1>n, WorksOn DEF IInv, InTime, Recent, Submitting, Alone
  <2>2. Unreleased'
    BY <1>a, <1>b, <1>n, WorksOn DEF IInv, InTime, Unreleased, Submitting, Alone
  <2>3. ReleasedMeansAbsent'
    BY <1>a, <1>b, <1>n DEF IInv, InTime, ReleasedMeansAbsent
  <2>4. Told'
    <3>1. invoice.status # "PAID" /\ \A d \in Charge : status'[d] = "ACTIVE" => status[d] = "ACTIVE"
      BY <1>a, <1>b DEF Becomes
    <3>. QED  BY <1>a, <3>1, UnpaidTells DEF InTime
  <2>. QED  BY <2>1, <2>2, <2>3, <2>4 DEF InTime
<1>11. QED  BY <1>1, <1>2, <1>3, <1>4, <1>5, <1>6, <1>7, <1>8, <1>9, <1>10 DEF IInv

(* One request claims a replacement.                                        *)
LEMMA ClaimKeeps ==
  ASSUME IInv, NEW w \in Worker, Claim(w), UNCHANGED late
  PROVE  IInv' /\ Settled /\ (~late /\ InTime => InTime')
<1>j. job[w] \in Charge /\ job[w] \in Made
  BY WorksOn DEF Claim
<1>c. ASSUME marker[job[w]] = "REPLACEMENT_CANCEL_PENDING"
      PROVE  /\ GoesTo(w, "cancelPrevious")
             /\ marker' \in [Charge -> Marker] /\ marker'[job[w]] = "REPLACEMENT_CANCELING"
             /\ \A d \in Charge : d # job[w] => marker'[d] = marker[d]
  <2>1. /\ Goto(w, "cancelPrevious") /\ UNCHANGED <<job, seen>>
        /\ marker' = [marker EXCEPT ![job[w]] = "REPLACEMENT_CANCELING"]
    BY <1>c DEF Claim
  <2>2. "cancelPrevious" \in Step /\ "REPLACEMENT_CANCELING" \in Marker
    BY DEF Step, Marker
  <2>. QED  BY <1>j, <2>1, <2>2, GotoMoves DEF IInv, TypeOK
<1>d. ASSUME marker[job[w]] # "REPLACEMENT_CANCEL_PENDING"
      PROVE  Ends(w) /\ UNCHANGED marker
  BY <1>d, FinishEnds DEF Claim, IInv
<1>a. /\ step[w] = "claim"
      /\ \/ /\ marker[job[w]] = "REPLACEMENT_CANCEL_PENDING" /\ GoesTo(w, "cancelPrevious")
            /\ marker' \in [Charge -> Marker] /\ marker'[job[w]] = "REPLACEMENT_CANCELING"
            /\ \A d \in Charge : d # job[w] => marker'[d] = marker[d]
         \/ Ends(w) /\ UNCHANGED marker
      /\ UNCHANGED <<invoice, created, status, method, replaces, linked, expiry, old,
                    provider, notices>>
  BY <1>j, <1>c, <1>d DEF IInv, TypeOK, Claim, chargeVars, providerVars, workerVars
<1>1. TypeOK'
  BY <1>a, <1>j, Bounds DEF IInv, TypeOK, Alone, GoesTo, Ends
<1>2. Born'
  BY <1>a, <1>j, Bounds DEF IInv, Born, Made, Alone, GoesTo, Ends
<1>3. Working'
  BY <1>a, <1>j, Bounds DEF IInv, Working, Alone, GoesTo, Ends
<1>4. Claimed'
  BY <1>a, <1>j, Bounds, WorksOn DEF IInv, Claimed, OneSubmitter, Submitting, Unmade,
       Alone, GoesTo, Ends
<1>5. Unmade'
  BY <1>a, <1>j, Bounds, WorksOn DEF IInv, Unmade, Claimed, OneSubmitter, Submitting,
       Alone, GoesTo, Ends
<1>6. Knowledge'
  BY <1>a, <1>j, Bounds, WorksOn DEF IInv, Knowledge, Alone, GoesTo, Ends
<1>7. OneOpen' /\ ClosedIsGone'
  BY <1>a DEF IInv, OneOpen, ClosedIsGone, Made, OneSubmitter, Submitting
<1>8. Settled
  BY <1>a DEF Settled, Kept
<1>9. (~late /\ InTime => InTime')
  <2>. SUFFICES ASSUME ~late, InTime PROVE InTime'
    OBVIOUS
  <2>1. Recent'
    BY <1>a, <1>j, Bounds, WorksOn DEF IInv, InTime, Recent, Submitting, Alone, GoesTo,
         Ends
  <2>2. Unreleased'
    BY <1>a, <1>j, Bounds, WorksOn DEF IInv, InTime, Unreleased, Submitting, Alone,
         GoesTo, Ends, Recent
  <2>3. ReleasedMeansAbsent' /\ Told'
    BY <1>a DEF InTime, ReleasedMeansAbsent, Told, Names, Rests, Bare, NoOpenCharge
  <2>. QED  BY <2>1, <2>2, <2>3 DEF InTime
<1>10. QED  BY <1>1, <1>2, <1>3, <1>4, <1>5, <1>6, <1>7, <1>8, <1>9 DEF IInv

(* The charge replaced is canceled at the provider.                         *)
LEMMA CancelPreviousKeeps ==
  ASSUME IInv, NEW w \in Worker, CancelPrevious(w), UNCHANGED late
  PROVE  IInv' /\ Settled /\ (~late /\ InTime => InTime')
<1>j. job[w] \in Charge /\ job[w] \in Made /\ replaces[job[w]] \in Charge
  BY WorksOn, ReplacesOne DEF IInv, Working, CancelPrevious
<1>c. Closes(replaces[job[w]]) \/ UNCHANGED <<provider, notices>>
  <2>1. ProviderCancels(replaces[job[w]]) \/ UNCHANGED <<provider, notices>>
    BY DEF CancelPrevious, providerVars
  <2>. QED  BY <1>j, <2>1, CancelsCloses DEF IInv
<1>d. GoesTo(w, "markReplaced") \/ Ends(w)
  BY GotoMoves, FinishEnds DEF CancelPrevious, Step, IInv
<1>a. /\ Closes(replaces[job[w]]) \/ UNCHANGED <<provider, notices>>
      /\ step[w] = "cancelPrevious" /\ (GoesTo(w, "markReplaced") \/ Ends(w))
      /\ UNCHANGED <<invoice, created, status, method, marker, replaces, linked,
                    expiry, old>>
  BY <1>j, <1>c, <1>d DEF IInv, TypeOK, CancelPrevious, chargeVars, providerVars,
       workerVars
<1>e. \A d \in Charge : provider[d] = "none" => provider'[d] = "none"
  BY <1>a DEF Closes
<1>1. TypeOK'
  BY <1>a, <1>j, Bounds DEF IInv, TypeOK, Alone, GoesTo, Ends, Closes
<1>2. Born'
  BY <1>a, <1>j, Bounds DEF IInv, Born, Made, Alone, GoesTo, Ends, Closes
<1>3. Working'
  BY <1>a, <1>j, Bounds DEF IInv, Working, Alone, GoesTo, Ends
<1>4. Claimed'
  BY <1>a, <1>j, Bounds, WorksOn DEF IInv, Claimed, OneSubmitter, Submitting, Unmade,
       Alone, GoesTo, Ends
<1>5. Unmade'
  BY <1>a, <1>j, Bounds, <1>e, WorksOn DEF IInv, Unmade, Claimed, OneSubmitter,
       Submitting, Alone, GoesTo, Ends
<1>6. Knowledge'
  BY <1>a, <1>j, Bounds, WorksOn DEF IInv, Knowledge, Alone, GoesTo, Ends, Closes
<1>7. ClosedIsGone'
  BY <1>a, <1>j, Bounds, ReplacesOne DEF IInv, ClosedIsGone, Knowledge, Closes
<1>8. OneOpen'
  BY <1>a DEF IInv, OneOpen, Made, OneSubmitter, Submitting
<1>9. Settled
  BY <1>a DEF Settled, Kept
<1>10. (~late /\ InTime => InTime')
  <2>. SUFFICES ASSUME ~late, InTime PROVE InTime'
    OBVIOUS
  <2>1. Recent'
    BY <1>a, <1>j, Bounds, WorksOn, <1>e DEF IInv, InTime, Recent, Submitting, Alone,
         GoesTo, Ends
  <2>2. Unreleased'
    BY <1>a, <1>j, Bounds, WorksOn DEF IInv, InTime, Unreleased, Submitting, Alone,
         GoesTo, Ends
  <2>3. ReleasedMeansAbsent'
    BY <1>a, <1>j, Bounds DEF IInv, InTime, ReleasedMeansAbsent, Closes
  <2>4. Told'
    BY <1>a DEF InTime, Told, Names, Rests, Bare, NoOpenCharge
  <2>. QED  BY <2>1, <2>2, <2>3, <2>4 DEF InTime
<1>11. QED  BY <1>1, <1>2, <1>3, <1>4, <1>5, <1>6, <1>7, <1>8, <1>9, <1>10 DEF IInv

(* The charge replaced takes no payment any more.                           *)
LEMMA MarkReplacedKeeps ==
  ASSUME IInv, NEW w \in Worker, MarkReplaced(w), UNCHANGED late
  PROVE  IInv' /\ Settled /\ (~late /\ InTime => InTime')
<1>j. job[w] \in Charge /\ job[w] \in Made /\ replaces[job[w]] \in Charge
  BY WorksOn, ReplacesOne DEF IInv, Working, MarkReplaced
<1>a. /\ Becomes(replaces[job[w]], Target(replaces[job[w]], "REPLACED"))
      /\ GoesTo(w, "resetInvoice") /\ step[w] = "markReplaced"
      /\ UNCHANGED <<invoice, created, method, marker, replaces, linked, expiry, old,
                    provider, notices>>
  BY <1>j, TransitionBecomes, GotoMoves DEF IInv, TypeOK, MarkReplaced, chargeVars,
       providerVars, workerVars, Step, ChargeStatus
<1>g. Gone(replaces[job[w]]) /\ replaces[job[w]] \in Made
  BY <1>j, Bounds DEF IInv, ClosedIsGone, Born
<1>b. /\ \/ Target(replaces[job[w]], "REPLACED") = "REPLACED"
         \/ /\ Target(replaces[job[w]], "REPLACED") = status[replaces[job[w]]]
            /\ status[replaces[job[w]]] \in {"REFUNDED", "PAID", "REPLACED"}
      /\ status[replaces[job[w]]] \in {"REFUNDED", "PAID"} =>
           Target(replaces[job[w]], "REPLACED") = status[replaces[job[w]]]
  <2>1. "REPLACED" \in ChargeStatus
    BY DEF ChargeStatus
  <2>. QED  BY <1>j, <2>1, TargetIs DEF IInv
<1>1. TypeOK'
  BY <1>a, <1>b, <1>g, <1>j DEF IInv, TypeOK, Alone, GoesTo, Becomes
<1>2. Born'
  BY <1>a, <1>b, <1>g, <1>j, Bounds DEF IInv, Born, Made, Alone, GoesTo, Becomes
<1>3. Working'
  BY <1>a, <1>b, <1>g, <1>j DEF IInv, Working, Alone, GoesTo
<1>4. OneOpen'
  BY <1>a, <1>b, <1>g, <1>j DEF IInv, OneOpen, Becomes
<1>5. Claimed'
  BY <1>a, <1>b, <1>g, <1>j, WorksOn DEF IInv, Claimed, OneSubmitter, Submitting,
       Unmade, Alone, GoesTo
<1>6. Unmade'
  BY <1>a, <1>b, <1>g, <1>j, WorksOn DEF IInv, Unmade, Claimed, OneSubmitter,
       Submitting, Alone, GoesTo
<1>7. Knowledge'
  BY <1>a, <1>b, <1>g, <1>j, WorksOn DEF IInv, Knowledge, Alone, GoesTo
<1>8. ClosedIsGone'
  BY <1>a, <1>b, <1>g, <1>j DEF IInv, ClosedIsGone, Knowledge, Becomes
<1>9. Settled
  BY <1>a, <1>b, <1>g, <1>j DEF Settled, Kept, Becomes
<1>10. (~late /\ InTime => InTime')
  <2>. SUFFICES ASSUME ~late, InTime PROVE InTime'
    OBVIOUS
  <2>1. Recent'
    BY <1>a, <1>b, <1>g, <1>j, WorksOn DEF IInv, InTime, Recent, Submitting, Alone,
         GoesTo
  <2>2. Unreleased'
    BY <1>a, <1>b, <1>g, <1>j, WorksOn DEF IInv, InTime, Unreleased, Submitting, Alone,
         GoesTo, Becomes
  <2>3. ReleasedMeansAbsent'
    BY <1>a, <1>b, <1>g, <1>j DEF IInv, InTime, ReleasedMeansAbsent, Becomes
  <2>4. Told'
    <3>2. Quiet
      BY <1>a, <1>b, <1>j DEF Quiet, Becomes
    <3>3. InvoiceMay("CANCELED")
      BY <1>a, UnchangedMay DEF IInv
    <3>. QED  BY <3>2, <3>3, QuietTells DEF InTime
  <2>. QED  BY <2>1, <2>2, <2>3, <2>4 DEF InTime
<1>11. QED  BY <1>1, <1>2, <1>3, <1>4, <1>5, <1>6, <1>7, <1>8, <1>9, <1>10 DEF IInv

(* The invoice forgets the charge replaced, not the charges.                *)
LEMMA ResetInvoiceKeeps ==
  ASSUME IInv, NEW w \in Worker, ResetInvoice(w), UNCHANGED late
  PROVE  IInv' /\ Settled /\ (~late /\ InTime => InTime')
<1>a. /\ \/ /\ invoice.status = "PAID" /\ UNCHANGED invoice /\ GoesTo(w, "markFailed")
         \/ /\ invoice.status # "PAID" /\ GoesTo(w, "markSubmitting")
            /\ InvoiceTyped /\ invoice'.status = "DRAFT"
            /\ invoice'.gateway = None /\ invoice'.txid = None /\ invoice'.billet = None
      /\ step[w] = "resetInvoice"
      /\ UNCHANGED <<created, status, method, marker, replaces, linked, expiry, old,
                    provider, notices>>
  BY GotoMoves DEF IInv, TypeOK, ResetInvoice, chargeVars, providerVars, workerVars,
       Step, InvoiceTyped, InvoiceStatus
<1>1. TypeOK'
  BY <1>a, Bounds DEF IInv, TypeOK, Alone, GoesTo, InvoiceTyped
<1>2. Born'
  BY <1>a, Bounds DEF IInv, Born, Made, Alone, GoesTo
<1>3. Working'
  BY <1>a, Bounds DEF IInv, Working, Alone, GoesTo
<1>4. Claimed'
  BY <1>a, Bounds, WorksOn DEF IInv, Claimed, OneSubmitter, Submitting, Unmade, Alone,
       GoesTo
<1>5. Unmade'
  BY <1>a, Bounds, WorksOn DEF IInv, Unmade, Claimed, OneSubmitter, Submitting, Alone,
       GoesTo
<1>6. Knowledge'
  BY <1>a, Bounds, WorksOn DEF IInv, Knowledge, Alone, GoesTo
<1>7. OneOpen' /\ ClosedIsGone'
  BY <1>a, Bounds DEF IInv, OneOpen, ClosedIsGone, Made, OneSubmitter, Submitting
<1>8. Settled
  BY <1>a DEF Settled, Kept
<1>9. (~late /\ InTime => InTime')
  <2>. SUFFICES ASSUME ~late, InTime PROVE InTime'
    OBVIOUS
  <2>1. Recent'
    BY <1>a, Bounds, WorksOn DEF IInv, InTime, Recent, Submitting, Alone, GoesTo
  <2>2. Unreleased'
    BY <1>a, Bounds, WorksOn DEF IInv, InTime, Unreleased, Submitting, Alone, GoesTo
  <2>3. Told'
    <3>1. status[job[w]] = "PENDING" /\ job[w] \in Charge
      BY <1>a, UnsentIsPending, WorksOn
    <3>. QED  BY <1>a, <3>1 DEF IInv, OneOpen, InTime, Told, Names, Rests, Bare, NoOpenCharge
  <2>4. ReleasedMeansAbsent'
    BY <1>a DEF InTime, ReleasedMeansAbsent
  <2>. QED  BY <2>1, <2>2, <2>3, <2>4 DEF InTime
<1>10. QED  BY <1>1, <1>2, <1>3, <1>4, <1>5, <1>6, <1>7, <1>8, <1>9 DEF IInv

(* A replacement of a paid charge is released unsubmitted.                  *)
LEMMA MarkFailedKeeps ==
  ASSUME IInv, NEW w \in Worker, MarkFailed(w), UNCHANGED late
  PROVE  IInv' /\ Settled /\ (~late /\ InTime => InTime')
<1>j. job[w] \in Charge /\ job[w] \in Made
  BY WorksOn DEF MarkFailed
<1>a. /\ Becomes(job[w], Target(job[w], "FAILED"))
      /\ Ends(w) /\ step[w] = "markFailed"
      /\ UNCHANGED <<invoice, created, method, marker, replaces, linked, expiry, old,
                    provider, notices>>
  BY <1>j, TransitionBecomes, FinishEnds DEF IInv, TypeOK, MarkFailed, chargeVars,
       providerVars, workerVars, ChargeStatus
<1>b. /\ \/ Target(job[w], "FAILED") = "FAILED"
         \/ /\ Target(job[w], "FAILED") = status[job[w]]
            /\ status[job[w]] \in {"REFUNDED", "PAID", "REPLACED"}
      /\ status[job[w]] \in {"REFUNDED", "PAID"} => Target(job[w], "FAILED") = status[job[w]]
  BY <1>j, TargetIs DEF IInv, ChargeStatus
<1>1. TypeOK'
  BY <1>a, <1>j, <1>b, Bounds DEF IInv, TypeOK, Alone, Ends, Becomes
<1>2. Born'
  BY <1>a, <1>j, <1>b, Bounds DEF IInv, Born, Made, Alone, Ends, Becomes
<1>3. Working'
  BY <1>a, <1>j, <1>b, Bounds DEF IInv, Working, Alone, Ends
<1>4. OneOpen'
  BY <1>a, <1>j, <1>b, Bounds DEF IInv, OneOpen, Becomes
<1>5. Claimed'
  BY <1>a, <1>j, <1>b, Bounds, WorksOn DEF IInv, Claimed, OneSubmitter, Submitting,
       Unmade, Alone, Ends
<1>6. Unmade'
  BY <1>a, <1>j, <1>b, Bounds, WorksOn DEF IInv, Unmade, Claimed, OneSubmitter,
       Submitting, Alone, Ends
<1>7. Knowledge'
  BY <1>a, <1>j, <1>b, Bounds, WorksOn DEF IInv, Knowledge, Alone, Ends
<1>8. ClosedIsGone'
  BY <1>a, <1>j, <1>b, Bounds DEF IInv, ClosedIsGone, Knowledge, Becomes
<1>9. Settled
  BY <1>a, <1>j, <1>b, Bounds DEF Settled, Kept, Becomes
<1>10. (~late /\ InTime => InTime')
  <2>. SUFFICES ASSUME ~late, InTime PROVE InTime'
    OBVIOUS
  <2>1. Recent'
    BY <1>a, <1>j, <1>b, Bounds, WorksOn DEF IInv, InTime, Recent, Submitting, Alone,
         Ends
  <2>2. Unreleased'
    BY <1>a, <1>j, <1>b, Bounds, WorksOn DEF IInv, InTime, Unreleased, Submitting,
         Alone, Ends, Becomes, Claimed, OneSubmitter
  <2>3. ReleasedMeansAbsent'
    BY <1>a, <1>j, <1>b, Bounds DEF IInv, InTime, ReleasedMeansAbsent, Becomes, Unmade
  <2>4. Told'
    <3>2. Quiet
      BY <1>a, <1>j, <1>b DEF Quiet, Becomes
    <3>3. InvoiceMay("CANCELED")
      BY <1>a, UnchangedMay DEF IInv
    <3>. QED  BY <3>2, <3>3, QuietTells DEF InTime
  <2>. QED  BY <2>1, <2>2, <2>3, <2>4 DEF InTime
<1>11. QED  BY <1>1, <1>2, <1>3, <1>4, <1>5, <1>6, <1>7, <1>8, <1>9, <1>10 DEF IInv

(* A replacement claimed is marked before it is submitted.                  *)
LEMMA MarkSubmittingKeeps ==
  ASSUME IInv, NEW w \in Worker, MarkSubmitting(w), UNCHANGED late
  PROVE  IInv' /\ Settled /\ (~late /\ InTime => InTime')
<1>j. job[w] \in Charge /\ job[w] \in Made
  BY WorksOn DEF MarkSubmitting
<1>a. /\ Becomes(job[w], Target(job[w], "PENDING"))
      /\ Target(job[w], "PENDING") \in OpenStatus =>
           \A d \in Charge : d # job[w] => status[d] \notin OpenStatus
      /\ marker' \in [Charge -> Marker] /\ marker'[job[w]] \in {"SUBMITTING", marker[job[w]]}
      /\ \A d \in Charge : d # job[w] => marker'[d] = marker[d]
      /\ GoesTo(w, "submit") /\ step[w] = "markSubmitting"
      /\ UNCHANGED <<invoice, created, method, replaces, linked, expiry, old,
                    provider, notices>>
  BY <1>j, TransitionBecomes, GotoMoves DEF IInv, TypeOK, MarkSubmitting, chargeVars,
       providerVars, workerVars, Step, Marker, ChargeStatus
<1>b. /\ \/ Target(job[w], "PENDING") = "PENDING"
         \/ /\ Target(job[w], "PENDING") = status[job[w]]
            /\ status[job[w]] \in {"REFUNDED", "PAID", "REPLACED"}
      /\ status[job[w]] \in {"REFUNDED", "PAID"} => Target(job[w], "PENDING") = status[job[w]]
  BY <1>j, TargetIs DEF IInv, ChargeStatus
<1>1. TypeOK'
  BY <1>a, <1>j, <1>b DEF IInv, TypeOK, Alone, GoesTo, Becomes
<1>2. Born'
  BY <1>a, <1>j, <1>b DEF IInv, Born, Made, Alone, GoesTo, Becomes
<1>3. Working'
  BY <1>a, <1>j, <1>b DEF IInv, Working, Alone, GoesTo
<1>4. OneOpen'
  BY <1>a, <1>j, <1>b DEF IInv, OneOpen, Becomes
<1>5. Claimed'
  BY <1>a, <1>j, <1>b, WorksOn DEF IInv, Claimed, OneSubmitter, Submitting, Unmade,
       Alone, GoesTo
<1>6. Unmade'
  BY <1>a, <1>j, <1>b, WorksOn DEF IInv, Unmade, Claimed, OneSubmitter, Submitting,
       Alone, GoesTo
<1>7. Knowledge'
  BY <1>a, <1>j, <1>b, WorksOn DEF IInv, Knowledge, Alone, GoesTo
<1>8. ClosedIsGone'
  BY <1>a, <1>j, <1>b DEF IInv, ClosedIsGone, Knowledge, Becomes
<1>9. Settled
  BY <1>a, <1>j, <1>b DEF Settled, Kept, Becomes
<1>10. (~late /\ InTime => InTime')
  <2>. SUFFICES ASSUME ~late, InTime PROVE InTime'
    OBVIOUS
  <2>1. Recent'
    BY <1>a, <1>j, <1>b, WorksOn DEF IInv, InTime, Recent, Submitting, Alone, GoesTo
  <2>2. Unreleased'
    BY <1>a, <1>j, <1>b, WorksOn DEF IInv, InTime, Unreleased, Submitting, Alone,
         GoesTo, Becomes
  <2>3. ReleasedMeansAbsent'
    BY <1>a, <1>j, <1>b DEF IInv, InTime, ReleasedMeansAbsent, Becomes
  <2>4. Told'
    <3>1. status[job[w]] = "PENDING"
      BY <1>a, UnsentIsPending
    <3>2. Quiet
      BY <1>a, <1>j, <1>b, <3>1 DEF Quiet, Becomes
    <3>3. InvoiceMay("CANCELED")
      BY <1>a, UnchangedMay DEF IInv
    <3>. QED  BY <3>2, <3>3, QuietTells DEF InTime
  <2>. QED  BY <2>1, <2>2, <2>3, <2>4 DEF InTime
<1>11. QED  BY <1>1, <1>2, <1>3, <1>4, <1>5, <1>6, <1>7, <1>8, <1>9, <1>10 DEF IInv

(* A cancellation reads a charge that the invoice names.                    *)
LEMMA StartCancelKeeps ==
  ASSUME IInv, NEW w \in Worker, StartCancel(w), UNCHANGED late
  PROVE  IInv' /\ Settled /\ (~late /\ InTime => InTime')
<1>a. /\ Alone(w) /\ step[w] = "idle" /\ job'[w] \in {invoice.txid, invoice.billet}
      /\ (step'[w] = "cancelLocal" /\ job'[w] = None) \/ (step'[w] = "cancelProvider" /\ job'[w] # None)
      /\ UNCHANGED <<invoice, created, status, method, marker, replaces, linked,
                    expiry, old, provider, notices>>
  BY DEF IInv, TypeOK, StartCancel, chargeVars, providerVars, workerVars, Alone, Goto,
       Step
<1>1. TypeOK'
  BY <1>a, Bounds DEF IInv, TypeOK, Alone
<1>2. Born'
  BY <1>a, Bounds DEF IInv, Born, Made, Alone
<1>3. Working'
  BY <1>a, Bounds DEF IInv, Working, Alone
<1>4. Claimed'
  BY <1>a, Bounds, WorksOn DEF IInv, Claimed, OneSubmitter, Submitting, Unmade, Alone
<1>5. Unmade'
  BY <1>a, Bounds, WorksOn DEF IInv, Unmade, Claimed, OneSubmitter, Submitting, Alone
<1>6. Knowledge'
  BY <1>a, Bounds, WorksOn DEF IInv, Knowledge, Alone
<1>7. OneOpen' /\ ClosedIsGone'
  BY <1>a, Bounds DEF IInv, OneOpen, ClosedIsGone, Made, OneSubmitter, Submitting
<1>8. Settled
  BY <1>a DEF Settled, Kept
<1>9. (~late /\ InTime => InTime')
  <2>. SUFFICES ASSUME ~late, InTime PROVE InTime'
    OBVIOUS
  <2>1. Recent'
    BY <1>a, Bounds, WorksOn DEF IInv, InTime, Recent, Submitting, Alone
  <2>2. Unreleased'
    BY <1>a, Bounds, WorksOn DEF IInv, InTime, Unreleased, Submitting, Alone
  <2>3. ReleasedMeansAbsent' /\ Told'
    BY <1>a DEF InTime, ReleasedMeansAbsent, Told, Names, Rests, Bare, NoOpenCharge
  <2>. QED  BY <2>1, <2>2, <2>3 DEF InTime
<1>10. QED  BY <1>1, <1>2, <1>3, <1>4, <1>5, <1>6, <1>7, <1>8, <1>9 DEF IInv

(* A cancellation goes on when the provider canceled the charge.            *)
LEMMA CancelAtProviderKeeps ==
  ASSUME IInv, NEW w \in Worker, CancelAtProvider(w), UNCHANGED late
  PROVE  IInv' /\ Settled /\ (~late /\ InTime => InTime')
<1>j. job[w] \in Charge /\ job[w] \in Made
  BY WorksOn DEF CancelAtProvider
<1>c. /\ ProviderCancels(job[w]) \/ UNCHANGED <<provider, notices>>
      /\ \/ ProviderCancels(job[w]) /\ GoesTo(w, "cancelLocal")
         \/ Ends(w)
  BY GotoMoves, FinishEnds DEF CancelAtProvider, providerVars, Step, IInv
<1>d. ASSUME ProviderCancels(job[w])
      PROVE  Closes(job[w])
  BY <1>d, <1>j, CancelsCloses DEF IInv
<1>a. /\ \/ Closes(job[w]) /\ GoesTo(w, "cancelLocal")
         \/ (Closes(job[w]) \/ UNCHANGED <<provider, notices>>) /\ Ends(w)
      /\ step[w] = "cancelProvider"
      /\ UNCHANGED <<invoice, created, status, method, marker, replaces, linked,
                    expiry, old>>
  BY <1>j, <1>c, <1>d DEF IInv, TypeOK, CancelAtProvider, chargeVars, providerVars,
       workerVars
<1>e. \A d \in Charge : provider[d] = "none" => provider'[d] = "none"
  BY <1>a DEF Closes
<1>1. TypeOK'
  BY <1>a, <1>j, Bounds DEF IInv, TypeOK, Alone, GoesTo, Ends, Closes
<1>2. Born'
  BY <1>a, <1>j, Bounds DEF IInv, Born, Made, Alone, GoesTo, Ends, Closes
<1>3. Working'
  BY <1>a, <1>j, Bounds DEF IInv, Working, Alone, GoesTo, Ends
<1>4. Claimed'
  BY <1>a, <1>j, Bounds, WorksOn DEF IInv, Claimed, OneSubmitter, Submitting, Unmade,
       Alone, GoesTo, Ends
<1>5. Unmade'
  BY <1>a, <1>j, Bounds, <1>e, WorksOn DEF IInv, Unmade, Claimed, OneSubmitter,
       Submitting, Alone, GoesTo, Ends
<1>6. Knowledge'
  BY <1>a, <1>j, Bounds, WorksOn DEF IInv, Knowledge, Alone, GoesTo, Ends, Closes
<1>7. ClosedIsGone'
  BY <1>a, <1>j, Bounds, ReplacesOne DEF IInv, ClosedIsGone, Knowledge, Closes
<1>8. OneOpen'
  BY <1>a DEF IInv, OneOpen, Made, OneSubmitter, Submitting
<1>9. Settled
  BY <1>a DEF Settled, Kept
<1>10. (~late /\ InTime => InTime')
  <2>. SUFFICES ASSUME ~late, InTime PROVE InTime'
    OBVIOUS
  <2>1. Recent'
    BY <1>a, <1>j, Bounds, WorksOn, <1>e DEF IInv, InTime, Recent, Submitting, Alone,
         GoesTo, Ends
  <2>2. Unreleased'
    BY <1>a, <1>j, Bounds, WorksOn DEF IInv, InTime, Unreleased, Submitting, Alone,
         GoesTo, Ends
  <2>3. ReleasedMeansAbsent'
    BY <1>a, <1>j, Bounds DEF IInv, InTime, ReleasedMeansAbsent, Closes
  <2>4. Told'
    BY <1>a DEF InTime, Told, Names, Rests, Bare, NoOpenCharge
  <2>. QED  BY <2>1, <2>2, <2>3, <2>4 DEF InTime
<1>11. QED  BY <1>1, <1>2, <1>3, <1>4, <1>5, <1>6, <1>7, <1>8, <1>9, <1>10 DEF IInv

(* The charge canceled here is the one canceled at the provider.            *)
LEMMA CancelLocalKeeps ==
  ASSUME IInv, NEW w \in Worker, CancelLocal(w), UNCHANGED late
  PROVE  IInv' /\ Settled /\ (~late /\ InTime => InTime')
<1>c. InvoiceMay("CANCELED")
  BY SetInvoiceMay DEF CancelLocal, InvoiceStatus, IInv
<1>d. \/ UNCHANGED status
      \/ /\ job[w] \in Charge /\ status[job[w]] \in {"PENDING", "ACTIVE", "EXPIRED"}
         /\ Becomes(job[w], "CANCELED")
  <2>1. \/ UNCHANGED status
        \/ status' = [c \in Charge |->
                        IF c = job[w] /\ status[c] \in {"PENDING", "ACTIVE", "EXPIRED"}
                          THEN "CANCELED" ELSE status[c]]
    BY DEF CancelLocal
  <2>2. CASE job[w] \in Charge /\ status[job[w]] \in {"PENDING", "ACTIVE", "EXPIRED"}
    <3>1. "CANCELED" \in ChargeStatus /\ status \in [Charge -> ChargeStatus]
      BY DEF ChargeStatus, IInv, TypeOK
    <3>. QED  BY <2>1, <2>2, <3>1 DEF Becomes
  <2>3. CASE ~(job[w] \in Charge /\ status[job[w]] \in {"PENDING", "ACTIVE", "EXPIRED"})
    <3>1. status = [c \in Charge |-> status[c]]
      BY DEF IInv, TypeOK
    <3>. QED  BY <2>1, <2>3, <3>1
  <2>. QED  BY <2>2, <2>3
<1>a. /\ InvoiceMay("CANCELED")
      /\ \/ UNCHANGED status
         \/ /\ job[w] \in Charge /\ status[job[w]] \in {"PENDING", "ACTIVE", "EXPIRED"}
            /\ Becomes(job[w], "CANCELED")
      /\ Ends(w) /\ step[w] = "cancelLocal"
      /\ UNCHANGED <<created, method, marker, replaces, linked, expiry, old, provider,
                    notices>>
  BY <1>c, <1>d, FinishEnds DEF IInv, TypeOK, CancelLocal, chargeVars, providerVars,
       workerVars
<1>b. job[w] \in Charge => Gone(job[w])
  BY <1>a, Bounds DEF IInv, Knowledge
<1>1. TypeOK'
  BY <1>a, Bounds DEF IInv, TypeOK, Alone, Ends, Becomes, InvoiceTyped, InvoiceMay
<1>2. Born'
  BY <1>a, Bounds, <1>b DEF IInv, Born, Made, Alone, Ends, Becomes, InvoiceMay
<1>3. Working'
  BY <1>a, Bounds DEF IInv, Working, Alone, Ends
<1>4. OneOpen'
  BY <1>a, Bounds DEF IInv, OneOpen, Becomes
<1>5. Claimed'
  BY <1>a, Bounds, WorksOn DEF IInv, Claimed, OneSubmitter, Submitting, Unmade, Alone,
       Ends
<1>6. Unmade'
  BY <1>a, Bounds, WorksOn DEF IInv, Unmade, Claimed, OneSubmitter, Submitting, Alone,
       Ends
<1>7. Knowledge'
  BY <1>a, Bounds, WorksOn DEF IInv, Knowledge, Alone, Ends
<1>8. ClosedIsGone'
  BY <1>a, Bounds, <1>b DEF IInv, ClosedIsGone, Knowledge, Becomes
<1>9. Settled
  BY <1>a, Bounds DEF Settled, Kept, Becomes
<1>10. (~late /\ InTime => InTime')
  <2>. SUFFICES ASSUME ~late, InTime PROVE InTime'
    OBVIOUS
  <2>1. Recent'
    BY <1>a, Bounds, WorksOn DEF IInv, InTime, Recent, Submitting, Alone, Ends
  <2>2. Unreleased'
    BY <1>a, Bounds, WorksOn DEF IInv, InTime, Unreleased, Submitting, Alone, Ends,
         Becomes
  <2>3. ReleasedMeansAbsent'
    BY <1>a, Bounds DEF IInv, InTime, ReleasedMeansAbsent, Becomes
  <2>4. Told'
    <3>1. Quiet
      BY <1>a DEF Quiet, Becomes
    <3>. QED  BY <1>a, <3>1, QuietTells DEF InTime
  <2>. QED  BY <2>1, <2>2, <2>3, <2>4 DEF InTime
<1>11. QED  BY <1>1, <1>2, <1>3, <1>4, <1>5, <1>6, <1>7, <1>8, <1>9, <1>10 DEF IInv

(* A reconciliation reads what the provider has.                            *)
LEMMA StartReconcileKeeps ==
  ASSUME IInv, NEW w \in Worker, StartReconcile(w), UNCHANGED late
  PROVE  IInv' /\ Settled /\ (~late /\ InTime => InTime')
<1>a. /\ Alone(w) /\ step[w] = "idle" /\ step'[w] = "reconcile"
      /\ job'[w] \in Charge /\ status[job'[w]] # "ABSENT" /\ seen'[w] = provider[job'[w]]
      /\ UNCHANGED <<invoice, created, status, method, marker, replaces, linked,
                    expiry, old, provider, notices>>
  BY DEF IInv, TypeOK, StartReconcile, chargeVars, providerVars, workerVars, Alone,
       Goto, Step
<1>1. TypeOK'
  BY <1>a, Bounds DEF IInv, TypeOK, Alone
<1>2. Born'
  BY <1>a, Bounds DEF IInv, Born, Made, Alone
<1>3. Working'
  BY <1>a, Bounds DEF IInv, Working, Alone
<1>4. Claimed'
  BY <1>a, Bounds, WorksOn DEF IInv, Claimed, OneSubmitter, Submitting, Unmade, Alone
<1>5. Unmade'
  BY <1>a, Bounds, WorksOn DEF IInv, Unmade, Claimed, OneSubmitter, Submitting, Alone
<1>6. Knowledge'
  BY <1>a, Bounds, WorksOn DEF IInv, Knowledge, Alone
<1>7. OneOpen' /\ ClosedIsGone'
  BY <1>a, Bounds DEF IInv, OneOpen, ClosedIsGone, Made, OneSubmitter, Submitting
<1>8. Settled
  BY <1>a DEF Settled, Kept
<1>9. (~late /\ InTime => InTime')
  <2>. SUFFICES ASSUME ~late, InTime PROVE InTime'
    OBVIOUS
  <2>1. Recent'
    BY <1>a, Bounds, WorksOn DEF IInv, InTime, Recent, Submitting, Alone
  <2>2. Unreleased'
    BY <1>a, Bounds, WorksOn DEF IInv, InTime, Unreleased, Submitting, Alone
  <2>3. ReleasedMeansAbsent' /\ Told'
    BY <1>a DEF InTime, ReleasedMeansAbsent, Told, Names, Rests, Bare, NoOpenCharge
  <2>. QED  BY <2>1, <2>2, <2>3 DEF InTime
<1>10. QED  BY <1>1, <1>2, <1>3, <1>4, <1>5, <1>6, <1>7, <1>8, <1>9 DEF IInv

(* A charge not found may be released.                                      *)
LEMMA ReconcileNotFoundKeeps ==
  ASSUME IInv, NEW w \in Worker, ReconcileNotFound(w), UNCHANGED late
  PROVE  IInv' /\ Settled /\ (~late /\ InTime => InTime')
<1>j. job[w] \in Charge /\ job[w] \in Made
  BY WorksOn DEF ReconcileNotFound
<1>a. /\ UNCHANGED status \/ (status[job[w]] = "PENDING" /\ Becomes(job[w], "FAILED"))
      /\ status' # status => old[job[w]]
      /\ Ends(w) /\ step[w] = "reconcile" /\ seen[w] = "none"
      /\ UNCHANGED <<invoice, created, method, marker, replaces, linked, expiry, old,
                    provider, notices>>
  BY <1>j, FinishEnds, FailureBecomes DEF IInv, TypeOK, ReconcileNotFound, chargeVars,
       providerVars, workerVars
<1>1. TypeOK'
  BY <1>a, <1>j, Bounds DEF IInv, TypeOK, Alone, Ends, Becomes
<1>2. Born'
  BY <1>a, <1>j, Bounds DEF IInv, Born, Made, Alone, Ends, Becomes
<1>3. Working'
  BY <1>a, <1>j, Bounds DEF IInv, Working, Alone, Ends
<1>4. OneOpen'
  BY <1>a, <1>j, Bounds DEF IInv, OneOpen, Becomes
<1>5. Claimed'
  BY <1>a, <1>j, Bounds, WorksOn DEF IInv, Claimed, OneSubmitter, Submitting, Unmade,
       Alone, Ends
<1>6. Unmade'
  BY <1>a, <1>j, Bounds, WorksOn DEF IInv, Unmade, Claimed, OneSubmitter, Submitting,
       Alone, Ends
<1>7. Knowledge'
  BY <1>a, <1>j, Bounds, WorksOn DEF IInv, Knowledge, Alone, Ends
<1>8. ClosedIsGone'
  BY <1>a, <1>j, Bounds DEF IInv, ClosedIsGone, Knowledge, Becomes
<1>9. Settled
  BY <1>a, <1>j, Bounds DEF Settled, Kept, Becomes
<1>10. (~late /\ InTime => InTime')
  <2>. SUFFICES ASSUME ~late, InTime PROVE InTime'
    OBVIOUS
  <2>1. Recent'
    BY <1>a, <1>j, Bounds, WorksOn DEF IInv, InTime, Recent, Submitting, Alone, Ends
  <2>2. Unreleased'
    BY <1>a, <1>j, Bounds, WorksOn DEF IInv, InTime, Unreleased, Submitting, Alone,
         Ends, Becomes, Recent
  <2>3. ReleasedMeansAbsent'
    BY <1>a, <1>j, Bounds DEF IInv, InTime, ReleasedMeansAbsent, Becomes, Recent
  <2>4. Told'
    <3>2. Quiet
      BY <1>a, <1>j DEF Quiet, Becomes
    <3>3. InvoiceMay("CANCELED")
      BY <1>a, UnchangedMay DEF IInv
    <3>. QED  BY <3>2, <3>3, QuietTells DEF InTime
  <2>. QED  BY <2>1, <2>2, <2>3, <2>4 DEF InTime
<1>11. QED  BY <1>1, <1>2, <1>3, <1>4, <1>5, <1>6, <1>7, <1>8, <1>9, <1>10 DEF IInv

(* The reference found is kept.                                             *)
LEMMA ReconcileLocateKeeps ==
  ASSUME IInv, NEW w \in Worker, ReconcileLocate(w), UNCHANGED late
  PROVE  IInv' /\ Settled /\ (~late /\ InTime => InTime')
<1>l. linked' \in [Charge -> BOOLEAN]
  <2>1. linked' = [linked EXCEPT ![job[w]] = TRUE] \/ linked' = linked
    BY DEF ReconcileLocate
  <2>. QED  BY <2>1 DEF IInv, TypeOK
<1>a. /\ linked' \in [Charge -> BOOLEAN]
      /\ Ends(w) \/ UNCHANGED <<step, job, seen>>
      /\ step[w] = "reconcile"
      /\ UNCHANGED <<invoice, created, status, method, marker, replaces, expiry, old,
                    provider, notices>>
  BY <1>l, FinishEnds DEF IInv, TypeOK, ReconcileLocate, chargeVars, providerVars,
       workerVars
<1>1. TypeOK'
  BY <1>a, Bounds DEF IInv, TypeOK, Alone, Ends
<1>2. Born'
  BY <1>a, Bounds DEF IInv, Born, Made, Alone, Ends
<1>3. Working'
  BY <1>a, Bounds DEF IInv, Working, Alone, Ends
<1>4. Claimed'
  BY <1>a, Bounds, WorksOn DEF IInv, Claimed, OneSubmitter, Submitting, Unmade, Alone,
       Ends
<1>5. Unmade'
  BY <1>a, Bounds, WorksOn DEF IInv, Unmade, Claimed, OneSubmitter, Submitting, Alone,
       Ends
<1>6. Knowledge'
  BY <1>a, Bounds, WorksOn DEF IInv, Knowledge, Alone, Ends
<1>7. OneOpen' /\ ClosedIsGone'
  BY <1>a, Bounds DEF IInv, OneOpen, ClosedIsGone, Made, OneSubmitter, Submitting
<1>8. Settled
  BY <1>a DEF Settled, Kept
<1>9. (~late /\ InTime => InTime')
  <2>. SUFFICES ASSUME ~late, InTime PROVE InTime'
    OBVIOUS
  <2>1. Recent'
    BY <1>a, Bounds, WorksOn DEF IInv, InTime, Recent, Submitting, Alone, Ends
  <2>2. Unreleased'
    BY <1>a, Bounds, WorksOn DEF IInv, InTime, Unreleased, Submitting, Alone, Ends
  <2>3. ReleasedMeansAbsent' /\ Told'
    BY <1>a DEF InTime, ReleasedMeansAbsent, Told, Names, Rests, Bare, NoOpenCharge
  <2>. QED  BY <2>1, <2>2, <2>3 DEF InTime
<1>10. QED  BY <1>1, <1>2, <1>3, <1>4, <1>5, <1>6, <1>7, <1>8, <1>9 DEF IInv

(* What is payable is recovered only if the provider has it.                *)
LEMMA ReconcilePayableKeeps ==
  ASSUME IInv, NEW w \in Worker, ReconcilePayable(w), UNCHANGED late
  PROVE  IInv' /\ Settled /\ (~late /\ InTime => InTime')
<1>a. /\ step[w] = "reconcile" /\ seen[w] # "none"
      /\ GoesTo(w, "recover") \/ Ends(w)
      /\ UNCHANGED <<invoice, created, status, method, marker, replaces, linked,
                    expiry, old, provider, notices>>
  BY GotoMoves, FinishEnds DEF IInv, TypeOK, ReconcilePayable, chargeVars, providerVars,
       workerVars, Step
<1>1. TypeOK'
  BY <1>a, Bounds DEF IInv, TypeOK, Alone, GoesTo, Ends
<1>2. Born'
  BY <1>a, Bounds DEF IInv, Born, Made, Alone, GoesTo, Ends
<1>3. Working'
  BY <1>a, Bounds DEF IInv, Working, Alone, GoesTo, Ends
<1>4. Claimed'
  BY <1>a, Bounds, WorksOn DEF IInv, Claimed, OneSubmitter, Submitting, Unmade, Alone,
       GoesTo, Ends
<1>5. Unmade'
  BY <1>a, Bounds, WorksOn DEF IInv, Unmade, Claimed, OneSubmitter, Submitting, Alone,
       GoesTo, Ends
<1>6. Knowledge'
  BY <1>a, Bounds, WorksOn DEF IInv, Knowledge, Alone, GoesTo, Ends
<1>7. OneOpen' /\ ClosedIsGone'
  BY <1>a, Bounds DEF IInv, OneOpen, ClosedIsGone, Made, OneSubmitter, Submitting
<1>8. Settled
  BY <1>a DEF Settled, Kept
<1>9. (~late /\ InTime => InTime')
  <2>. SUFFICES ASSUME ~late, InTime PROVE InTime'
    OBVIOUS
  <2>1. Recent'
    BY <1>a, Bounds, WorksOn DEF IInv, InTime, Recent, Submitting, Alone, GoesTo, Ends
  <2>2. Unreleased'
    BY <1>a, Bounds, WorksOn DEF IInv, InTime, Unreleased, Submitting, Alone, GoesTo,
         Ends
  <2>3. ReleasedMeansAbsent' /\ Told'
    BY <1>a DEF InTime, ReleasedMeansAbsent, Told, Names, Rests, Bare, NoOpenCharge
  <2>. QED  BY <2>1, <2>2, <2>3 DEF InTime
<1>10. QED  BY <1>1, <1>2, <1>3, <1>4, <1>5, <1>6, <1>7, <1>8, <1>9 DEF IInv

(* What a reconciliation read, however long ago, stays true.                *)
LEMMA ReconcileOutcomeKeeps ==
  ASSUME IInv, NEW w \in Worker, ReconcileOutcome(w), UNCHANGED late
  PROVE  IInv' /\ Settled /\ (~late /\ InTime => InTime')
<1>j. job[w] \in Charge /\ job[w] \in Made
  BY WorksOn DEF ReconcileOutcome
<1>k. Booked(job[w])
  BY <1>j DEF ReconcileOutcome, Booked, IInv, Knowledge
<1>a. /\ Booked(job[w]) /\ Ends(w) /\ step[w] = "reconcile"
      /\ Kept(job[w])
      /\ Becomes(job[w], status'[job[w]]) /\ status'[job[w]] \in Closed /\ Gone(job[w])
      /\ status'[job[w]] \in {"PAID", "REFUNDED"} => Paid(job[w]) \/ status[job[w]] \in {"PAID", "REFUNDED"}
      /\ InvoiceMay("PAID") \/ InvoiceMay("CANCELED")
      /\ UNCHANGED <<created, method, marker, replaces, linked, expiry, old, provider,
                    notices>>
  BY <1>j, <1>k, BookedCloses, FinishEnds DEF IInv, TypeOK, ReconcileOutcome,
       chargeVars, providerVars, workerVars
<1>1. TypeOK'
  BY <1>a, <1>j, Bounds DEF IInv, TypeOK, Alone, Ends, Becomes, InvoiceTyped, InvoiceMay
<1>2. Born'
  <2>1. \A c \in Charge : status'[c] = "ABSENT" <=> c \notin Made
    BY <1>a, <1>j DEF IInv, Born, Becomes, Closed
  <2>2. \A v \in Worker : job'[v] # None => job'[v] \in Made
    BY <1>a DEF IInv, Born, Alone, Ends
  <2>3. /\ invoice'.txid # None => invoice'.txid \in Made
        /\ invoice'.billet # None => invoice'.billet \in Made
    BY <1>a DEF IInv, Born, InvoiceMay
  <2>. QED  BY <1>a, <2>1, <2>2, <2>3 DEF IInv, Born, Made
<1>3. Working'
  BY <1>a, <1>j, Bounds DEF IInv, Working, Alone, Ends
<1>4. OneOpen'
  BY <1>a, <1>j, Bounds DEF IInv, OneOpen, Becomes
<1>5. Claimed'
  BY <1>a, <1>j, Bounds, WorksOn DEF IInv, Claimed, OneSubmitter, Submitting, Unmade,
       Alone, Ends
<1>6. Unmade'
  BY <1>a, <1>j, Bounds, WorksOn DEF IInv, Unmade, Claimed, OneSubmitter, Submitting,
       Alone, Ends
<1>7. Knowledge'
  BY <1>a, <1>j, Bounds, WorksOn DEF IInv, Knowledge, Alone, Ends
<1>8. ClosedIsGone'
  BY <1>a, <1>j, Bounds DEF IInv, ClosedIsGone, Knowledge, Becomes
<1>9. Settled
  BY <1>a, <1>j, Bounds DEF Settled, Kept, Becomes
<1>10. (~late /\ InTime => InTime')
  <2>. SUFFICES ASSUME ~late, InTime PROVE InTime'
    OBVIOUS
  <2>1. Recent'
    BY <1>a, <1>j, Bounds, WorksOn DEF IInv, InTime, Recent, Submitting, Alone, Ends
  <2>2. Unreleased'
    BY <1>a, <1>j, Bounds, WorksOn DEF IInv, InTime, Unreleased, Submitting, Alone,
         Ends, Becomes
  <2>3. ReleasedMeansAbsent'
    BY <1>a, <1>j, Bounds DEF IInv, InTime, ReleasedMeansAbsent, Becomes
  <2>4. Told'
    BY <1>a, <1>j, BookedTells DEF InTime, IInv
  <2>. QED  BY <2>1, <2>2, <2>3, <2>4 DEF InTime
<1>11. QED  BY <1>1, <1>2, <1>3, <1>4, <1>5, <1>6, <1>7, <1>8, <1>9, <1>10 DEF IInv

(* A request that stops leaves everything as it is.                         *)
LEMMA AbandonKeeps ==
  ASSUME IInv, NEW w \in Worker, Abandon(w), UNCHANGED late
  PROVE  IInv' /\ Settled /\ (~late /\ InTime => InTime')
<1>a. /\ Ends(w)
      /\ UNCHANGED <<invoice, created, status, method, marker, replaces, linked,
                    expiry, old, provider, notices>>
  BY FinishEnds DEF IInv, TypeOK, Abandon, chargeVars, providerVars, workerVars
<1>1. TypeOK'
  BY <1>a, Bounds DEF IInv, TypeOK, Alone, Ends
<1>2. Born'
  BY <1>a, Bounds DEF IInv, Born, Made, Alone, Ends
<1>3. Working'
  BY <1>a, Bounds DEF IInv, Working, Alone, Ends
<1>4. Claimed'
  BY <1>a, Bounds, WorksOn DEF IInv, Claimed, OneSubmitter, Submitting, Unmade, Alone,
       Ends
<1>5. Unmade'
  BY <1>a, Bounds, WorksOn DEF IInv, Unmade, Claimed, OneSubmitter, Submitting, Alone,
       Ends
<1>6. Knowledge'
  BY <1>a, Bounds, WorksOn DEF IInv, Knowledge, Alone, Ends
<1>7. OneOpen' /\ ClosedIsGone'
  BY <1>a, Bounds DEF IInv, OneOpen, ClosedIsGone, Made, OneSubmitter, Submitting
<1>8. Settled
  BY <1>a DEF Settled, Kept
<1>9. (~late /\ InTime => InTime')
  <2>. SUFFICES ASSUME ~late, InTime PROVE InTime'
    OBVIOUS
  <2>1. Recent'
    BY <1>a, Bounds, WorksOn DEF IInv, InTime, Recent, Submitting, Alone, Ends
  <2>2. Unreleased'
    BY <1>a, Bounds, WorksOn DEF IInv, InTime, Unreleased, Submitting, Alone, Ends
  <2>3. ReleasedMeansAbsent' /\ Told'
    BY <1>a DEF InTime, ReleasedMeansAbsent, Told, Names, Rests, Bare, NoOpenCharge
  <2>. QED  BY <2>1, <2>2, <2>3 DEF InTime
<1>10. QED  BY <1>1, <1>2, <1>3, <1>4, <1>5, <1>6, <1>7, <1>8, <1>9 DEF IInv

(* A payment announced was made.                                            *)
LEMMA NoticePaidKeeps ==
  ASSUME IInv, NEW c \in Charge, NoticePaid(c), UNCHANGED late
  PROVE  IInv' /\ Settled /\ (~late /\ InTime => InTime')
<1>k. Booked(c)
  BY DEF NoticePaid, Booked, IInv, ClosedIsGone
<1>a. /\ Booked(c)
      /\ UNCHANGED <<step, job, seen>>
      /\ Kept(c)
      /\ Becomes(c, status'[c]) /\ status'[c] \in Closed /\ Gone(c)
      /\ status'[c] \in {"PAID", "REFUNDED"} => Paid(c) \/ status[c] \in {"PAID", "REFUNDED"}
      /\ InvoiceMay("PAID") \/ InvoiceMay("CANCELED")
      /\ UNCHANGED <<created, method, marker, replaces, linked, expiry, old, provider,
                    notices>>
  BY <1>k, BookedCloses DEF IInv, TypeOK, NoticePaid, chargeVars, providerVars,
       workerVars
<1>1. TypeOK'
  BY <1>a, Bounds DEF IInv, TypeOK, Becomes, InvoiceTyped, InvoiceMay
<1>2. Born'
  BY <1>a, Bounds DEF IInv, Born, Made, Becomes, InvoiceMay
<1>3. OneOpen'
  BY <1>a, Bounds DEF IInv, OneOpen, Becomes
<1>4. ClosedIsGone'
  BY <1>a, Bounds DEF IInv, ClosedIsGone, Knowledge, Becomes
<1>5. Working' /\ Claimed' /\ Unmade' /\ Knowledge'
  BY <1>a DEF IInv, Working, Claimed, Unmade, Knowledge, Made, OneSubmitter, Submitting
<1>6. Settled
  BY <1>a, Bounds DEF Settled, Kept, Becomes
<1>7. (~late /\ InTime => InTime')
  <2>. SUFFICES ASSUME ~late, InTime PROVE InTime'
    OBVIOUS
  <2>1. Unreleased'
    BY <1>a, Bounds, WorksOn DEF IInv, InTime, Unreleased, Submitting, Becomes
  <2>2. ReleasedMeansAbsent'
    BY <1>a, Bounds DEF IInv, InTime, ReleasedMeansAbsent, Becomes
  <2>3. Told'
    BY <1>a, BookedTells DEF InTime, IInv
  <2>4. Recent'
    BY <1>a DEF InTime, Recent, Submitting
  <2>. QED  BY <2>1, <2>2, <2>3, <2>4 DEF InTime
<1>8. QED  BY <1>1, <1>2, <1>3, <1>4, <1>5, <1>6, <1>7 DEF IInv

(* A refund announced was made.                                             *)
LEMMA NoticeRefundedKeeps ==
  ASSUME IInv, NEW c \in Charge, NoticeRefunded(c), UNCHANGED late
  PROVE  IInv' /\ Settled /\ (~late /\ InTime => InTime')
<1>k. Booked(c)
  BY DEF NoticeRefunded, Booked, IInv, ClosedIsGone
<1>a. /\ Booked(c)
      /\ UNCHANGED <<step, job, seen>>
      /\ Kept(c)
      /\ Becomes(c, status'[c]) /\ status'[c] \in Closed /\ Gone(c)
      /\ status'[c] \in {"PAID", "REFUNDED"} => Paid(c) \/ status[c] \in {"PAID", "REFUNDED"}
      /\ InvoiceMay("PAID") \/ InvoiceMay("CANCELED")
      /\ UNCHANGED <<created, method, marker, replaces, linked, expiry, old, provider,
                    notices>>
  BY <1>k, BookedCloses DEF IInv, TypeOK, NoticeRefunded, chargeVars, providerVars,
       workerVars
<1>1. TypeOK'
  BY <1>a, Bounds DEF IInv, TypeOK, Becomes, InvoiceTyped, InvoiceMay
<1>2. Born'
  BY <1>a, Bounds DEF IInv, Born, Made, Becomes, InvoiceMay
<1>3. OneOpen'
  BY <1>a, Bounds DEF IInv, OneOpen, Becomes
<1>4. ClosedIsGone'
  BY <1>a, Bounds DEF IInv, ClosedIsGone, Knowledge, Becomes
<1>5. Working' /\ Claimed' /\ Unmade' /\ Knowledge'
  BY <1>a DEF IInv, Working, Claimed, Unmade, Knowledge, Made, OneSubmitter, Submitting
<1>6. Settled
  BY <1>a, Bounds DEF Settled, Kept, Becomes
<1>7. (~late /\ InTime => InTime')
  <2>. SUFFICES ASSUME ~late, InTime PROVE InTime'
    OBVIOUS
  <2>1. Unreleased'
    BY <1>a, Bounds, WorksOn DEF IInv, InTime, Unreleased, Submitting, Becomes
  <2>2. ReleasedMeansAbsent'
    BY <1>a, Bounds DEF IInv, InTime, ReleasedMeansAbsent, Becomes
  <2>3. Told'
    BY <1>a, BookedTells DEF InTime, IInv
  <2>4. Recent'
    BY <1>a DEF InTime, Recent, Submitting
  <2>. QED  BY <2>1, <2>2, <2>3, <2>4 DEF InTime
<1>8. QED  BY <1>1, <1>2, <1>3, <1>4, <1>5, <1>6, <1>7 DEF IInv

(* A closure announced was made.                                            *)
LEMMA NoticeClosedKeeps ==
  ASSUME IInv, NEW c \in Charge, NoticeClosed(c), UNCHANGED late
  PROVE  IInv' /\ Settled /\ (~late /\ InTime => InTime')
<1>k. Booked(c)
  BY DEF NoticeClosed, Booked, IInv, ClosedIsGone
<1>a. /\ Booked(c)
      /\ UNCHANGED <<step, job, seen>>
      /\ Kept(c)
      /\ Becomes(c, status'[c]) /\ status'[c] \in Closed /\ Gone(c)
      /\ status'[c] \in {"PAID", "REFUNDED"} => Paid(c) \/ status[c] \in {"PAID", "REFUNDED"}
      /\ InvoiceMay("PAID") \/ InvoiceMay("CANCELED")
      /\ UNCHANGED <<created, method, marker, replaces, linked, expiry, old, provider,
                    notices>>
  BY <1>k, BookedCloses DEF IInv, TypeOK, NoticeClosed, chargeVars, providerVars,
       workerVars
<1>1. TypeOK'
  BY <1>a, Bounds DEF IInv, TypeOK, Becomes, InvoiceTyped, InvoiceMay
<1>2. Born'
  BY <1>a, Bounds DEF IInv, Born, Made, Becomes, InvoiceMay
<1>3. OneOpen'
  BY <1>a, Bounds DEF IInv, OneOpen, Becomes
<1>4. ClosedIsGone'
  BY <1>a, Bounds DEF IInv, ClosedIsGone, Knowledge, Becomes
<1>5. Working' /\ Claimed' /\ Unmade' /\ Knowledge'
  BY <1>a DEF IInv, Working, Claimed, Unmade, Knowledge, Made, OneSubmitter, Submitting
<1>6. Settled
  BY <1>a, Bounds DEF Settled, Kept, Becomes
<1>7. (~late /\ InTime => InTime')
  <2>. SUFFICES ASSUME ~late, InTime PROVE InTime'
    OBVIOUS
  <2>1. Unreleased'
    BY <1>a, Bounds, WorksOn DEF IInv, InTime, Unreleased, Submitting, Becomes
  <2>2. ReleasedMeansAbsent'
    BY <1>a, Bounds DEF IInv, InTime, ReleasedMeansAbsent, Becomes
  <2>3. Told'
    BY <1>a, BookedTells DEF InTime, IInv
  <2>4. Recent'
    BY <1>a DEF InTime, Recent, Submitting
  <2>. QED  BY <2>1, <2>2, <2>3, <2>4 DEF InTime
<1>8. QED  BY <1>1, <1>2, <1>3, <1>4, <1>5, <1>6, <1>7 DEF IInv

(* The provider closes, takes payments, and never reopens.                  *)
LEMMA ProviderMovesKeeps ==
  ASSUME IInv, NEW c \in Charge, ProviderMoves(c), UNCHANGED late
  PROVE  IInv' /\ Settled /\ (~late /\ InTime => InTime')
<1>k. Closes(c)
  BY AnnounceCloses, CancelsCloses DEF ProviderMoves, IInv, ProviderStatus, Notice
<1>a. /\ Closes(c)
      /\ UNCHANGED <<step, job, seen>>
      /\ UNCHANGED <<invoice, created, status, method, marker, replaces, linked,
                    expiry, old>>
  BY <1>k DEF IInv, TypeOK, ProviderMoves, chargeVars, providerVars, workerVars,
       Announce
<1>e. \A d \in Charge : provider[d] = "none" => provider'[d] = "none"
  BY <1>a DEF Closes
<1>1. TypeOK'
  BY <1>a, Bounds DEF IInv, TypeOK, Closes
<1>2. Born'
  BY <1>a, Bounds DEF IInv, Born, Made, Closes
<1>3. Unmade'
  BY <1>a, Bounds, <1>e, WorksOn DEF IInv, Unmade, Claimed, OneSubmitter, Submitting
<1>4. Knowledge'
  BY <1>a, Bounds, WorksOn DEF IInv, Knowledge, Closes
<1>5. ClosedIsGone'
  BY <1>a, Bounds, ReplacesOne DEF IInv, ClosedIsGone, Knowledge, Closes
<1>6. Working' /\ OneOpen' /\ Claimed'
  BY <1>a DEF IInv, Working, OneOpen, Claimed, Made, OneSubmitter, Submitting
<1>7. Settled
  BY <1>a DEF Settled, Kept
<1>8. (~late /\ InTime => InTime')
  <2>. SUFFICES ASSUME ~late, InTime PROVE InTime'
    OBVIOUS
  <2>1. Recent'
    BY <1>a, Bounds, WorksOn, <1>e DEF IInv, InTime, Recent, Submitting
  <2>2. ReleasedMeansAbsent'
    BY <1>a, Bounds DEF IInv, InTime, ReleasedMeansAbsent, Closes
  <2>3. Unreleased' /\ Told'
    BY <1>a DEF InTime, Unreleased, Told, Names, Rests, Bare, NoOpenCharge, Submitting
  <2>. QED  BY <2>1, <2>2, <2>3 DEF InTime
<1>9. QED  BY <1>1, <1>2, <1>3, <1>4, <1>5, <1>6, <1>7, <1>8 DEF IInv

(* The deadline passes after the provider stopped accepting payment.        *)
LEMMA ExpireKeeps ==
  ASSUME IInv, NEW c \in Charge, Expire(c), UNCHANGED late
  PROVE  IInv' /\ Settled /\ (~late /\ InTime => InTime')
<1>a. /\ expiry' \in [Charge -> {"unset", "ahead", "past"}]
      /\ \A d \in Charge : d # c => expiry'[d] = expiry[d]
      /\ Gone(c)
      /\ UNCHANGED <<step, job, seen>>
      /\ UNCHANGED <<invoice, created, status, method, marker, replaces, linked, old,
                    provider, notices>>
  BY DEF IInv, TypeOK, Expire, chargeVars, providerVars, workerVars, ClosedIsGone
<1>1. TypeOK'
  BY <1>a, Bounds DEF IInv, TypeOK
<1>2. ClosedIsGone'
  BY <1>a, Bounds DEF IInv, ClosedIsGone, Knowledge
<1>3. Born' /\ Working' /\ OneOpen' /\ Claimed' /\ Unmade' /\ Knowledge'
  BY <1>a, Bounds DEF IInv, Born, Working, OneOpen, Claimed, Unmade, Knowledge, Made,
       OneSubmitter, Submitting
<1>4. Settled
  BY <1>a DEF Settled, Kept
<1>5. (~late /\ InTime => InTime')
  <2>. SUFFICES ASSUME ~late, InTime PROVE InTime'
    OBVIOUS
  <2>1. Recent' /\ Unreleased' /\ ReleasedMeansAbsent' /\ Told'
    BY <1>a DEF InTime, Recent, Unreleased, ReleasedMeansAbsent, Told, Names, Rests,
         Bare, NoOpenCharge, Submitting
  <2>. QED  BY <2>1 DEF InTime
<1>6. QED  BY <1>1, <1>2, <1>3, <1>4, <1>5 DEF IInv

(* A charge ages while nobody works on it.                                  *)
LEMMA AgeKeeps ==
  ASSUME IInv, NEW c \in Charge, Age(c), UNCHANGED late
  PROVE  IInv' /\ Settled /\ (~late /\ InTime => InTime')
<1>a. /\ old' \in [Charge -> BOOLEAN] /\ old'[c]
      /\ \A d \in Charge : d # c => old'[d] = old[d]
      /\ status[c] # "ABSENT" /\ \A w \in Worker : job[w] # c
      /\ UNCHANGED <<step, job, seen>>
      /\ UNCHANGED <<invoice, created, status, method, marker, replaces, linked,
                    expiry, provider, notices>>
  BY DEF IInv, TypeOK, Age, chargeVars, providerVars, workerVars
<1>1. TypeOK'
  BY <1>a, Bounds DEF IInv, TypeOK
<1>2. Born'
  BY <1>a, Bounds DEF IInv, Born, Made
<1>3. Working' /\ OneOpen' /\ Claimed' /\ Unmade' /\ Knowledge' /\ ClosedIsGone'
  BY <1>a, Bounds DEF IInv, Working, OneOpen, Claimed, Unmade, Knowledge, ClosedIsGone,
       Made, OneSubmitter, Submitting
<1>4. Settled
  BY <1>a DEF Settled, Kept
<1>5. (~late /\ InTime => InTime')
  <2>. SUFFICES ASSUME ~late, InTime PROVE InTime'
    OBVIOUS
  <2>1. Recent'
    BY <1>a, Bounds, WorksOn DEF IInv, InTime, Recent, Submitting
  <2>2. Unreleased'
    BY <1>a, Bounds, WorksOn DEF IInv, InTime, Unreleased, Submitting
  <2>3. ReleasedMeansAbsent' /\ Told'
    BY <1>a DEF InTime, ReleasedMeansAbsent, Told, Names, Rests, Bare, NoOpenCharge
  <2>. QED  BY <2>1, <2>2, <2>3 DEF InTime
<1>6. QED  BY <1>1, <1>2, <1>3, <1>4, <1>5 DEF IInv

-----------------------------------------------------------------------------
(* Theorems                                                                 *)

(* Nothing is created, open or submitted at first.                          *)
LEMMA InitHolds == Init => IInv /\ InTime
<1>. SUFFICES ASSUME Init PROVE IInv /\ InTime
  OBVIOUS
<1>1. TypeOK
  BY Bounds, LateResumeAssumption
  DEF Init, TypeOK, InvoiceStatus, ChargeStatus, Method, Marker, ProviderStatus, Notice, Step
<1>2. Born /\ Working /\ OneOpen /\ Claimed
  BY Bounds DEF Init, Born, Made, Working, OneOpen, Claimed, OneSubmitter, Submitting
<1>3. Unmade /\ Knowledge /\ ClosedIsGone
  BY DEF Init, Unmade, Knowledge, ClosedIsGone
<1>4. Recent /\ Unreleased /\ ReleasedMeansAbsent /\ Told
  BY DEF Init, Recent, Unreleased, Submitting, ReleasedMeansAbsent, Told
<1>. QED  BY <1>1, <1>2, <1>3, <1>4 DEF IInv, InTime

(* Every step of a request.                                                 *)
LEMMA RequestKeeps ==
  ASSUME IInv, NEW w \in Worker, Request(w), UNCHANGED late
  PROVE  IInv' /\ Settled /\ (~late /\ InTime => InTime')
BY CreatePaymentKeeps, MarkPendingKeeps, SubmissionRefusedKeeps,
       SubmissionAcceptedKeeps, SubmissionUncertainKeeps, RecordRefusalKeeps,
       KeepReferenceKeeps, ConfirmKeeps, ResumeReplacementKeeps, ReserveReplacementKeeps,
       ClaimKeeps, CancelPreviousKeeps, MarkReplacedKeeps, ResetInvoiceKeeps,
       MarkFailedKeeps, MarkSubmittingKeeps, StartCancelKeeps, CancelAtProviderKeeps,
       CancelLocalKeeps, StartReconcileKeeps, ReconcileNotFoundKeeps,
       ReconcileLocateKeeps, ReconcilePayableKeeps, ReconcileOutcomeKeeps, AbandonKeeps
       DEF Request

(* Every step of the provider and of the clock.                             *)
LEMMA EnvironmentKeeps ==
  ASSUME IInv, NEW c \in Charge, Environment(c), UNCHANGED late
  PROVE  IInv' /\ Settled /\ (~late /\ InTime => InTime')
BY NoticePaidKeeps, NoticeRefundedKeeps, NoticeClosedKeeps, ProviderMovesKeeps,
       ExpireKeeps, AgeKeeps DEF Environment

(* Nothing changes while nothing moves.                                     *)
LEMMA StutterKeeps ==
  ASSUME IInv, UNCHANGED vars
  PROVE  IInv' /\ Settled /\ (~late /\ InTime => InTime')
<1>. USE DEF vars, moving, chargeVars, providerVars, workerVars
<1>1. TypeOK' /\ Born' /\ Working' /\ OneOpen'
  BY DEF IInv, TypeOK, Born, Made, Working, OneOpen
<1>2. Claimed' /\ Unmade' /\ Knowledge' /\ ClosedIsGone'
  BY DEF IInv, Claimed, OneSubmitter, Submitting, Unmade, Knowledge, ClosedIsGone
<1>3. Settled
  BY DEF Settled, Kept
<1>4. InTime => Recent' /\ Unreleased' /\ ReleasedMeansAbsent'
  BY DEF InTime, Recent, Unreleased, Submitting, ReleasedMeansAbsent
<1>5. InTime => Told'
  BY DEF InTime, Told, Rests, Names, Bare, NoOpenCharge
<1>. QED  BY <1>1, <1>2, <1>3, <1>4, <1>5 DEF IInv, InTime

(* Every step, together.                                                    *)
LEMMA NextKeeps ==
  ASSUME IInv, [Next]_vars
  PROVE  IInv' /\ Settled /\ (~late /\ InTime => InTime') /\ late' = late
BY RequestKeeps, EnvironmentKeeps, StutterKeeps DEF Next, vars

(* However requests, notices and crashes interleave, at most one charge is  *)
(* open, a closed one is gone at the provider, and one request submits it;  *)
(* in time, one that is released was never there.                           *)
THEOREM Invariant == Spec => [](IInv /\ (~late => InTime))
<1>1. Init => IInv /\ (~late => InTime)
  BY InitHolds
<1>2. IInv /\ (~late => InTime) /\ [Next]_vars => (IInv /\ (~late => InTime))'
  BY NextKeeps
<1>. QED  BY <1>1, <1>2, PTL DEF Spec

(* Every state of the model is well formed: statuses, references and        *)
(* requests range over what the schema and the code allow.                  *)
THEOREM TypeCorrect == Spec => []TypeOK
<1>1. IInv => TypeOK
  BY DEF IInv
<1>. QED  BY <1>1, Invariant, PTL

(* No two requests submit the same charge, and, while replacements are      *)
(* resumed in time, no two charges of an invoice can be paid at the         *)
(* provider: what createDraft, recordDiagnosis and replaceExpiredCharge     *)
(* make room for is the only one left.                                      *)
THEOREM OneIsPayable == Spec => []IssuedOnce
<1>1. IInv => OneSubmitter
  BY DEF IInv, Claimed
<1>2. IInv /\ InTime => OnePayable
  <2>. SUFFICES ASSUME IInv, InTime, NEW c \in Charge, NEW d \in Charge,
                       provider[c] = "live", provider[d] = "live"
                PROVE  c = d
    BY DEF OnePayable
  <2>1. \A e \in {c, d} : status[e] \in ChargeStatus \ (Closed \cup {"ABSENT", "FAILED"})
    BY DEF IInv, TypeOK, Born, ClosedIsGone, InTime, ReleasedMeansAbsent
  <2>2. status[c] \in OpenStatus /\ status[d] \in OpenStatus
    BY <2>1 DEF ChargeStatus
  <2>. QED  BY <2>2 DEF IInv, OneOpen
<1>3. IInv /\ (~late => InTime) => IssuedOnce
  BY <1>1, <1>2 DEF IssuedOnce
<1>. QED  BY <1>3, Invariant, PTL

(* recordDiagnosis releases a charge, and resolveNotFound believes it       *)
(* absent, only when the provider never created it, while replacements are  *)
(* resumed in time.                                                         *)
THEOREM AbsentWhenReleased == Spec => []ReleasedInTimeMeansAbsent
<1>1. (~late => InTime) => ReleasedInTimeMeansAbsent
  BY DEF InTime, ReleasedInTimeMeansAbsent
<1>. QED  BY <1>1, Invariant, PTL

(* While replacements are resumed in time, a paid invoice rests on a charge *)
(* that was paid, and an active charge is the one the invoice shows, after  *)
(* any order of settlements, refunds, closures and replacements.            *)
THEOREM InvoiceIsTrue == Spec => []InvoiceTellsItsCharge
<1>1. IInv /\ (~late => InTime) => InvoiceTellsItsCharge
  BY DEF IInv, ClosedIsGone, InTime, Told, Rests, InvoiceTellsItsCharge
<1>. QED  BY <1>1, Invariant, PTL

(* transition, recordSettlement and recordPixRefunds take back no           *)
(* settlement, whatever answer or notice comes late.                        *)
THEOREM SettlementsAreKept == Spec => SettledIsKept
<1>1. IInv /\ [Next]_vars =>
        [\A c \in Charge :
           /\ status[c] = "PAID" => status'[c] \in {"PAID", "REFUNDED"}
           /\ status[c] = "REFUNDED" => status'[c] = "REFUNDED"]_vars
  BY NextKeeps DEF Settled, Kept
<1>. QED  BY <1>1, Invariant, PTL DEF Spec, SettledIsKept

-----------------------------------------------------------------------------
(***************************************************************************)
(* The two ways of paying an invoice together: what is proved of each, of  *)
(* the card in CardChargeProofs, holds of the behaviours of MCCollections. *)
(***************************************************************************)
KP == INSTANCE CardChargeProofs WITH
  invoice <- cardInvoice, charge <- card, old <- olds

(* The definitions of CardCharge are those that CardChargeProofs sees.      *)
LEMMA CardReads == ASSUME NEW n, K!Read(n) PROVE KP!Read(n)
BY DEF K!Read, KP!Read, K!Told, KP!Told, K!tryVars, KP!tryVars,
       K!Cardinality, KP!Cardinality

LEMMA CardSteps == K!Next => KP!Next
<1>. USE DEF K!Told, KP!Told
<1>1. ASSUME NEW n, K!Work(n) \/ K!Notice(n) PROVE KP!Work(n) \/ KP!Notice(n)
  BY <1>1, CardReads DEF K!Work, KP!Work, K!Notice, KP!Notice, K!Worked, KP!Worked
<1>. QED
  BY <1>1
  DEF K!Next, KP!Next,
      K!Try, KP!Try, K!TryStatus, KP!TryStatus, K!Busy, KP!Busy, K!Efi, KP!Efi,
      K!Debit, KP!Debit, K!tryVars, KP!tryVars, K!NoneBusy, KP!NoneBusy, K!Open,
      KP!Open, K!Prepare, KP!Prepare, K!Refused, KP!Refused, K!Last, KP!Last,
      K!Reserve, KP!Reserve, K!CancelRefused, KP!CancelRefused, K!Submit,
      KP!Submit, K!FailedIsRefused, KP!FailedIsRefused, K!Uncertain,
      KP!Uncertain, K!EfiGoesOn, KP!EfiGoesOn, K!TwoMinutesPass,
      KP!TwoMinutesPass, K!Worked, KP!Worked, K!Mapped, KP!Mapped, K!Anomalous,
      KP!Anomalous, K!TakesBack, KP!TakesBack, K!Observe, KP!Observe, K!Book,
      KP!Book, K!Stop, KP!Stop, K!AskCancel, KP!AskCancel, K!Cancel, KP!Cancel

(* What is proved of the charges of an invoice.                             *)
LEMMA IssuanceStands == MCSpec => [](IInv /\ (~late => InTime))
<1>1. MCInit => IInv /\ (~late => InTime)
  BY InitHolds DEF MCInit
<1>2. (IInv /\ (~late => InTime)) /\ [MCNext]_parts => (IInv /\ (~late => InTime))'
  BY NextKeeps DEF MCNext, parts
<1>. QED  BY <1>1, <1>2, PTL DEF MCSpec

(* What is proved of its card.                                              *)
LEMMA CardStands == MCSpec => []KP!IInv
<1>1. MCInit => KP!IInv
  BY KP!InitKeeps, BoundsAssumption DEF MCInit, K!Init, KP!Init, K!Try, KP!Try
<1>2. [MCNext]_parts => [KP!Next]_KP!vars
  BY CardSteps DEF MCNext, parts, cardVars, KP!vars, KP!tryVars
<1>3. KP!IInv /\ [MCNext]_parts => KP!IInv'
  BY <1>2, KP!StepKeeps, BoundsAssumption
<1>. QED  BY <1>1, <1>3, PTL DEF MCSpec

(* Every state of the two is one the schema has.                            *)
THEOREM PartsAreTyped == MCSpec => []PartsTypeOK
<1>1. IInv /\ KP!IInv => PartsTypeOK
  BY DEF IInv, KP!IInv, KP!TypeOK, PartsTypeOK, K!TypeOK, K!Try, KP!Try, K!TryStatus,
         KP!TryStatus, K!Efi, KP!Efi, K!Told, KP!Told
<1>. QED  BY <1>1, IssuanceStands, CardStands, PTL

(* One try at most debits the card of an invoice, and the books say what    *)
(* Efi did, for any number of tries, readings and losses.                   *)
THEOREM CardDebitsOnce == MCSpec => []CardIsDebitedOnce
<1>1. KP!IInv => CardIsDebitedOnce
  BY KP!DebitsOnce, BoundsAssumption
  DEF CardIsDebitedOnce, K!CardIsDebitedOnce, KP!CardIsDebitedOnce, K!OneDebit,
      KP!OneDebit, K!CardBooksAreTrue, KP!CardBooksAreTrue, K!Try, KP!Try, K!Busy,
      KP!Busy, K!Debit, KP!Debit
<1>. QED  BY <1>1, CardStands, PTL

=============================================================================
