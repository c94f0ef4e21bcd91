--------------------------- MODULE ChargeIssuance ---------------------------
(***************************************************************************)
(* One invoice, the charges issued for it (PaymentCharge rows), the        *)
(* provider that may or may not hold each of them, and the requests that   *)
(* issue, replace, cancel and reconcile them.                              *)
(*                                                                         *)
(* A database transaction is one step.  Between two transactions of a      *)
(* request, and around each call to the provider, any other request may    *)
(* run, and the process may stop.  Charges are numbered in the order of    *)
(* their creation.  The provider's notices stay deliverable for ever: they *)
(* may come late, twice, out of order, or not at all.                      *)
(***************************************************************************)
EXTENDS Integers

CONSTANTS
  MaxCharges,    \* bound: charges ever created for the invoice
  Worker,        \* the requests that can be in progress at the same time
  EnabledMethods, \* Company.enabledBillingMethods
  None,          \* no charge
  LateResume     \* may a replacement left behind be resumed once it is old? {TRUE},
                 \* {FALSE}, or both, in different behaviours

ASSUME MaxChargesAssumption == MaxCharges \in Nat
ASSUME NoneAssumption == None \notin Nat
ASSUME EnabledMethodsAssumption == EnabledMethods \subseteq {"PIX", "BOLIX"}
ASSUME LateResumeAssumption == LateResume \subseteq BOOLEAN

Charge == 1 .. MaxCharges
OptCharge == Charge \cup {None}

ChargeStatus == {"ABSENT", "PENDING", "ACTIVE", "PAID", "FAILED", "CANCELED",
                 "EXPIRED", "REFUNDED", "REPLACED"}
OpenStatus == {"PENDING", "ACTIVE"}
InvoiceStatus == {"DRAFT", "PENDING", "PAID", "CANCELED"}
Method == {"PIX", "BOLIX"}
Marker == {"NONE", "REPLACEMENT_CANCEL_PENDING", "REPLACEMENT_CANCELING",
           "SUBMITTING"}
ProviderStatus == {"none", "live", "expired", "canceled", "paid", "partly",
                   "refunded"}
Notice == {"expired", "canceled", "paid", "partly", "refunded"}
Step == {"idle", "created", "submit", "refused", "accepted", "confirm",
         "claim", "cancelPrevious", "markReplaced", "resetInvoice",
         "markFailed", "markSubmitting", "cancelProvider", "cancelLocal",
         "reconcile", "recover"}

VARIABLES
  late,        \* replacements left behind are resumed however old they are
  invoice,     \* status and the charges its gatewayId, efiTxid and efiChargeId name
  created,     \* number of charges created
  status,      \* PaymentCharge.status
  method,      \* PaymentCharge.billingMethod
  marker,      \* PaymentCharge.gatewayStatusRaw, as far as a replacement reads it
  replaces,    \* PaymentCharge.replacesChargeId
  linked,      \* PaymentCharge.efiChargeId is set (a Pix has its txid from the start)
  expiry,      \* PaymentCharge.expiresAt: "unset", "ahead" or "past"
  old,         \* created more than RECONCILE_MIN_AGE_MS ago
  provider,    \* what the provider holds for the charge
  notices,     \* what the provider has announced about the charge
  step,        \* where each request is
  job,         \* the charge it works on
  seen         \* what it read at the provider

chargeVars == <<created, status, method, marker, replaces, linked, expiry, old>>
providerVars == <<provider, notices>>
workerVars == <<step, job, seen>>
moving == <<invoice, chargeVars, providerVars, workerVars>>
vars == <<late, moving>>

TypeOK ==
  /\ late \in BOOLEAN
  /\ invoice \in [status : InvoiceStatus, gateway : OptCharge,
                  txid : OptCharge, billet : OptCharge]
  /\ created \in 0 .. MaxCharges
  /\ status \in [Charge -> ChargeStatus]
  /\ method \in [Charge -> Method]
  /\ marker \in [Charge -> Marker]
  /\ replaces \in [Charge -> OptCharge]
  /\ linked \in [Charge -> BOOLEAN]
  /\ expiry \in [Charge -> {"unset", "ahead", "past"}]
  /\ old \in [Charge -> BOOLEAN]
  /\ provider \in [Charge -> ProviderStatus]
  /\ notices \in [Charge -> SUBSET Notice]
  /\ step \in [Worker -> Step]
  /\ job \in [Worker -> OptCharge]
  /\ seen \in [Worker -> ProviderStatus]

Init ==
  /\ late \in LateResume
  /\ invoice = [status |-> "DRAFT", gateway |-> None, txid |-> None,
                billet |-> None]
  /\ created = 0
  /\ status = [c \in Charge |-> "ABSENT"]
  /\ method = [c \in Charge |-> "PIX"]
  /\ marker = [c \in Charge |-> "NONE"]
  /\ replaces = [c \in Charge |-> None]
  /\ linked = [c \in Charge |-> FALSE]
  /\ expiry = [c \in Charge |-> "unset"]
  /\ old = [c \in Charge |-> FALSE]
  /\ provider = [c \in Charge |-> "none"]
  /\ notices = [c \in Charge |-> {}]
  /\ step = [w \in Worker |-> "idle"]
  /\ job = [w \in Worker |-> None]
  /\ seen = [w \in Worker |-> "none"]

-----------------------------------------------------------------------------
(* Helpers *)

\* The unique index on the open charges of an invoice.
NoOpenCharge == \A c \in Charge : status[c] \notin OpenStatus
NoOtherOpen(c) == \A d \in Charge \ {c} : status[d] \notin OpenStatus

\* currentInvoiceWhere: the invoice still names this charge, or names none
\* while no other charge of it is pending, active or paid.
Names(c) == c \in {invoice.gateway, invoice.txid, invoice.billet}
Current(c) ==
  \/ Names(c)
  \/ /\ invoice.gateway = None /\ invoice.txid = None /\ invoice.billet = None
     /\ \A d \in Charge \ {c} : status[d] \notin {"PENDING", "ACTIVE", "PAID"}

Goto(w, s) == step' = [step EXCEPT ![w] = s]
Finish(w) ==
  /\ step' = [step EXCEPT ![w] = "idle"]
  /\ job' = [job EXCEPT ![w] = None]
  /\ seen' = [seen EXCEPT ![w] = "none"]

SetStatus(c, s) == status' = [status EXCEPT ![c] = s]
SetInvoice(s) == invoice' = [invoice EXCEPT !.status = s]

\* The status transition() writes when s is asked for.
Target(c, s) ==
  IF status[c] = "REFUNDED" THEN "REFUNDED"
  ELSE IF status[c] = "PAID" /\ s # "REFUNDED" THEN "PAID"
  ELSE IF status[c] = "REPLACED" /\ s \in {"CANCELED", "EXPIRED"}
    THEN "REPLACED"
  ELSE s

\* The index refuses to reopen a charge beside another open one.
Writable(c, s) == Target(c, s) \in OpenStatus => NoOtherOpen(c)

\* Variant: the invoice takes the very status of the charge.
TransitionMirrored(c, s, reported) ==
  /\ Writable(c, s)
  /\ SetStatus(c, Target(c, s))
  /\ IF /\ reported
        /\ Target(c, s) = s
        /\ s \in {"REFUNDED", "CANCELED", "EXPIRED"}
        /\ Current(c)
        /\ s = "REFUNDED" \/ invoice.status # "PAID"
       THEN SetInvoice(s)
       ELSE UNCHANGED invoice

\* transition(): a status the provider reported also closes the invoice.
Transition(c, s, reported) ==
  /\ Writable(c, s)
  /\ SetStatus(c, Target(c, s))
  /\ IF /\ reported
        /\ Target(c, s) = s
        /\ s \in {"REFUNDED", "CANCELED", "EXPIRED"}
        /\ Current(c)
        /\ s = "REFUNDED" \/ invoice.status # "PAID"
       THEN SetInvoice("CANCELED")
       ELSE UNCHANGED invoice

\* Variant: a late payment notice revives a refunded charge.
RecordSettlementAlways(c) ==
  /\ SetStatus(c, "PAID")
  /\ IF Current(c) THEN SetInvoice("PAID") ELSE UNCHANGED invoice

\* recordSettlement(): any charge but a refunded one becomes paid.
RecordSettlement(c) ==
  IF status[c] = "REFUNDED"
    THEN UNCHANGED <<status, invoice>>
    ELSE /\ SetStatus(c, "PAID")
         /\ IF Current(c) THEN SetInvoice("PAID") ELSE UNCHANGED invoice

\* Variant: the invoice stays paid after a full refund.
RecordPixRefundsOfCharge(c, all) ==
  IF status[c] = "REFUNDED"
    THEN UNCHANGED <<status, invoice>>
    ELSE /\ SetStatus(c, IF all THEN "REFUNDED" ELSE "PAID")
         /\ UNCHANGED invoice

\* recordPixRefunds(): all of it, or a part of it, was given back.
RecordPixRefunds(c, all) ==
  IF status[c] = "REFUNDED"
    THEN UNCHANGED <<status, invoice>>
    ELSE /\ SetStatus(c, IF all THEN "REFUNDED" ELSE "PAID")
         /\ IF Current(c)
              THEN SetInvoice(IF all THEN "CANCELED" ELSE "PAID")
              ELSE UNCHANGED invoice

\* recordDiagnosis() with fail: releases a pending charge without a reference.
RecordFailure(c) ==
  IF status[c] = "PENDING" /\ ~linked[c]
    THEN SetStatus(c, "FAILED")
    ELSE UNCHANGED status

\* confirmIssuance(): only a pending charge is confirmed; its instruments go to
\* the invoice while that is a draft or pending.
ConfirmIssuance(c) ==
  IF status[c] # "PENDING"
    THEN UNCHANGED <<invoice, status, linked, expiry>>
    ELSE /\ SetStatus(c, "ACTIVE")
         /\ linked' = [linked EXCEPT ![c] = @ \/ method[c] = "BOLIX"]
         /\ expiry' = [expiry EXCEPT ![c] = "ahead"]
         /\ invoice' =
              IF invoice.status \notin {"DRAFT", "PENDING"} THEN invoice
              ELSE IF method[c] = "PIX"
                THEN [invoice EXCEPT !.status = "PENDING", !.gateway = c,
                                     !.txid = c]
                ELSE [invoice EXCEPT !.status = "PENDING", !.gateway = c,
                                     !.billet = c]

-----------------------------------------------------------------------------
(* createPayment *)

\* createDraft(): the next charge of the invoice, unless one is open.
Reserve(w, m, s) ==
  LET c == created + 1 IN
  /\ created < MaxCharges
  /\ created' = c
  /\ method' = [method EXCEPT ![c] = m]
  /\ step' = [step EXCEPT ![w] = s]
  /\ job' = [job EXCEPT ![w] = c]
  /\ UNCHANGED <<linked, old, providerVars, seen>>

CreatePayment(w) ==
  /\ step[w] = "idle"
  /\ invoice.status \in {"DRAFT", "PENDING"}
  /\ NoOpenCharge
  /\ \E m \in EnabledMethods : Reserve(w, m, "created")
  /\ status' = [status EXCEPT ![created + 1] = "PENDING"]
  /\ UNCHANGED <<invoice, marker, replaces, expiry>>

MarkPending(w) ==
  /\ step[w] = "created"
  /\ Transition(job[w], "PENDING", FALSE)
  /\ Goto(w, "submit")
  /\ UNCHANGED <<created, method, marker, replaces, linked, expiry, old,
                 providerVars, job, seen>>

\* submitIssuance: the request is refused before or by the provider ...
SubmissionRefused(w) ==
  /\ step[w] = "submit"
  /\ Goto(w, "refused")
  /\ UNCHANGED <<invoice, chargeVars, providerVars, job, seen>>

\* ... or accepted, with the answer received ...
SubmissionAccepted(w) ==
  /\ step[w] = "submit"
  /\ provider[job[w]] = "none"
  /\ provider' = [provider EXCEPT ![job[w]] = "live"]
  /\ Goto(w, "accepted")
  /\ UNCHANGED <<invoice, chargeVars, notices, job, seen>>

\* Variant: an unknown outcome passes for a refusal.
SubmissionUncertainRefused(w) ==
  /\ step[w] = "submit"
  /\ \/ /\ provider[job[w]] = "none"
        /\ provider' = [provider EXCEPT ![job[w]] = "live"]
     \/ UNCHANGED provider
  /\ Goto(w, "refused")
  /\ UNCHANGED <<invoice, chargeVars, notices, job, seen>>

\* ... or its outcome is unknown: the charge may exist or not.
SubmissionUncertain(w) ==
  /\ step[w] = "submit"
  /\ \/ /\ provider[job[w]] = "none"
        /\ provider' = [provider EXCEPT ![job[w]] = "live"]
     \/ UNCHANGED provider
  /\ Finish(w)
  /\ UNCHANGED <<invoice, chargeVars, notices>>

\* recordIssuanceFailure() of a proven refusal.
RecordRefusal(w) ==
  /\ step[w] = "refused"
  /\ RecordFailure(job[w])
  /\ Finish(w)
  /\ UNCHANGED <<invoice, created, method, marker, replaces, linked, expiry,
                 old, providerVars>>

\* attachProviderReference(): refused once the charge is no longer pending.
\* A Pix reads the detail, links the split and draws the code instead.  An
\* error, or instruments of another modality, leaves the outcome uncertain.
KeepReference(w) ==
  /\ step[w] = "accepted"
  /\ linked' = [linked EXCEPT ![job[w]] =
                  @ \/ (method[job[w]] = "BOLIX" /\ status[job[w]] = "PENDING")]
  /\ \/ /\ method[job[w]] = "BOLIX" => status[job[w]] = "PENDING"
        /\ Goto(w, "confirm")
        /\ UNCHANGED <<job, seen>>
     \/ Finish(w)
  /\ UNCHANGED <<invoice, created, status, method, marker, replaces, expiry,
                 old, providerVars>>

Confirm(w) ==
  /\ step[w] \in {"confirm", "recover"}
  /\ ConfirmIssuance(job[w])
  /\ Finish(w)
  /\ UNCHANGED <<created, method, marker, replaces, old, providerVars>>

-----------------------------------------------------------------------------
(* replaceExpiredCharge *)

\* A pending replacement is resumed where it waits to cancel the old charge.
ResumeReplacement(w) ==
  /\ step[w] = "idle"
  /\ \E c \in Charge :
       /\ status[c] = "PENDING"
       /\ replaces[c] # None
       /\ marker[c] = "REPLACEMENT_CANCEL_PENDING"
       /\ old[c] => late
       /\ job' = [job EXCEPT ![w] = c]
  /\ Goto(w, "claim")
  /\ UNCHANGED <<invoice, chargeVars, providerVars, seen>>

\* Otherwise the last expired charge gets a new replacement, the only one that
\* the unique index on replacesChargeId will ever let it have.
Replaceable == {c \in Charge : status[c] \in {"EXPIRED", "ACTIVE"}
                               /\ expiry[c] = "past"}

ReserveReplacement(w) ==
  /\ step[w] = "idle"
  /\ invoice.status \in {"DRAFT", "PENDING", "CANCELED"}
  /\ \A c \in Charge : status[c] = "PENDING" => replaces[c] = None
  /\ \E p \in Replaceable :
       /\ \A c \in Replaceable : c <= p
       /\ method[p] \in EnabledMethods
       /\ NoOtherOpen(p)
       /\ \A c \in Charge : replaces[c] # p
       /\ Reserve(w, method[p], "claim")
       /\ status' = [status EXCEPT ![p] = "EXPIRED", ![created + 1] = "PENDING"]
       /\ replaces' = [replaces EXCEPT ![created + 1] = p]
       /\ marker' = [marker EXCEPT ![created + 1] = "REPLACEMENT_CANCEL_PENDING"]
       /\ expiry' = [expiry EXCEPT ![created + 1] = "ahead"]
  /\ UNCHANGED invoice

\* Only one request cancels the old charge.  The claim looks at the marker
\* alone, not at the status.
Claim(w) ==
  /\ step[w] = "claim"
  /\ IF marker[job[w]] = "REPLACEMENT_CANCEL_PENDING"
       THEN /\ marker' = [marker EXCEPT ![job[w]] = "REPLACEMENT_CANCELING"]
            /\ Goto(w, "cancelPrevious")
            /\ UNCHANGED <<job, seen>>
       ELSE Finish(w) /\ UNCHANGED marker
  /\ UNCHANGED <<invoice, created, status, method, replaces, linked, expiry,
                 old, providerVars>>

\* The provider cancels what is not paid, or answers with an error, or does
\* it and the answer is lost.
ProviderCancels(c) ==
  /\ provider[c] \in {"live", "expired", "canceled"}
  /\ provider' = [provider EXCEPT ![c] = "canceled"]
  /\ notices' = [notices EXCEPT ![c] =
                   IF method[c] = "BOLIX" THEN @ \cup {"canceled"} ELSE @]

\* Without a reference there is nothing to cancel at the provider.
CancelPrevious(w) ==
  LET p == replaces[job[w]] IN
  /\ step[w] = "cancelPrevious"
  /\ \/ /\ IF method[p] = "PIX" \/ linked[p] THEN ProviderCancels(p)
                                            ELSE UNCHANGED providerVars
        /\ Goto(w, "markReplaced")
        /\ UNCHANGED <<job, seen>>
     \/ /\ ProviderCancels(p) \/ UNCHANGED providerVars
        /\ Finish(w)
  /\ UNCHANGED <<invoice, chargeVars>>

MarkReplaced(w) ==
  /\ step[w] = "markReplaced"
  /\ Transition(replaces[job[w]], "REPLACED", FALSE)
  /\ Goto(w, "resetInvoice")
  /\ UNCHANGED <<created, method, marker, replaces, linked, expiry, old,
                 providerVars, job, seen>>

\* The invoice becomes a draft without instruments, unless it was paid.
ResetInvoice(w) ==
  /\ step[w] = "resetInvoice"
  /\ IF invoice.status = "PAID"
       THEN Goto(w, "markFailed") /\ UNCHANGED invoice
       ELSE /\ invoice' = [status |-> "DRAFT", gateway |-> None, txid |-> None,
                           billet |-> None]
            /\ Goto(w, "markSubmitting")
  /\ UNCHANGED <<chargeVars, providerVars, job, seen>>

MarkFailed(w) ==
  /\ step[w] = "markFailed"
  /\ Transition(job[w], "FAILED", FALSE)
  /\ Finish(w)
  /\ UNCHANGED <<created, method, marker, replaces, linked, expiry, old,
                 providerVars>>

MarkSubmitting(w) ==
  /\ step[w] = "markSubmitting"
  /\ Transition(job[w], "PENDING", FALSE)
  /\ marker' = [marker EXCEPT ![job[w]] =
                  IF Target(job[w], "PENDING") = "PENDING" THEN "SUBMITTING"
                                                           ELSE @]
  /\ Goto(w, "submit")
  /\ UNCHANGED <<created, method, replaces, linked, expiry, old, providerVars,
                 job, seen>>

-----------------------------------------------------------------------------
(* cancelInvoice *)

StartCancel(w) ==
  /\ step[w] = "idle"
  /\ invoice.status = "PENDING"
  /\ LET c == IF invoice.txid # None THEN invoice.txid ELSE invoice.billet IN
       /\ job' = [job EXCEPT ![w] = c]
       /\ Goto(w, IF c = None THEN "cancelLocal" ELSE "cancelProvider")
  /\ UNCHANGED <<invoice, chargeVars, providerVars, seen>>

CancelAtProvider(w) ==
  /\ step[w] = "cancelProvider"
  /\ \/ /\ ProviderCancels(job[w])
        /\ Goto(w, "cancelLocal")
        /\ UNCHANGED <<job, seen>>
     \/ /\ ProviderCancels(job[w]) \/ UNCHANGED providerVars
        /\ Finish(w)
  /\ UNCHANGED <<invoice, chargeVars>>

\* Refused when the invoice is no longer pending.  The charge is the one read
\* before the provider was asked.
CancelLocal(w) ==
  /\ step[w] = "cancelLocal"
  /\ IF invoice.status # "PENDING"
       THEN UNCHANGED <<invoice, status>>
       ELSE /\ SetInvoice("CANCELED")
            /\ status' = [c \in Charge |->
                 IF c = job[w] /\ status[c] \in {"PENDING", "ACTIVE", "EXPIRED"}
                   THEN "CANCELED" ELSE status[c]]
  /\ Finish(w)
  /\ UNCHANGED <<created, method, marker, replaces, linked, expiry, old,
                 providerVars>>

-----------------------------------------------------------------------------
(* reconcileCharge *)

\* The charge and the provider are read first.  A billet whose creation
\* answer was lost is searched by its custom_id, while it is pending.
StartReconcile(w) ==
  /\ step[w] = "idle"
  /\ \E c \in Charge :
       /\ status[c] # "ABSENT"
       /\ method[c] = "PIX" \/ linked[c] \/ status[c] = "PENDING"
       /\ job' = [job EXCEPT ![w] = c]
       /\ seen' = [seen EXCEPT ![w] = provider[c]]
  /\ Goto(w, "reconcile")
  /\ UNCHANGED <<invoice, chargeVars, providerVars>>

\* Variant: absence is believed however recent the charge is.
ReconcileNotFoundAtOnce(w) ==
  /\ step[w] = "reconcile" /\ seen[w] = "none"
  /\ RecordFailure(job[w])
  /\ Finish(w)
  /\ UNCHANGED <<invoice, created, method, marker, replaces, linked, expiry,
                 old, providerVars>>

\* resolveNotFound(): nothing at the provider and the charge is not recent.
ReconcileNotFound(w) ==
  /\ step[w] = "reconcile" /\ seen[w] = "none"
  /\ IF old[job[w]] THEN RecordFailure(job[w]) ELSE UNCHANGED status
  /\ Finish(w)
  /\ UNCHANGED <<invoice, created, method, marker, replaces, linked, expiry,
                 old, providerVars>>

\* The reference of a located billet is kept first; a charge no longer
\* pending does not take it and the request ends there.
ReconcileLocate(w) ==
  /\ step[w] = "reconcile" /\ seen[w] # "none"
  /\ method[job[w]] = "BOLIX" /\ ~linked[job[w]]
  /\ IF status[job[w]] = "PENDING"
       THEN /\ linked' = [linked EXCEPT ![job[w]] = TRUE]
            /\ UNCHANGED workerVars
       ELSE Finish(w) /\ UNCHANGED linked
  /\ UNCHANGED <<invoice, created, status, method, marker, replaces, expiry,
                 old, providerVars>>

\* Still payable: a pending billet is confirmed, anything else is reviewed.
\* A due Pix is not closed by the provider, it only stops accepting payment.
ReconcilePayable(w) ==
  /\ step[w] = "reconcile"
  /\ \/ seen[w] = "live"
     \/ seen[w] = "expired" /\ method[job[w]] = "PIX"
  /\ method[job[w]] = "BOLIX" => linked[job[w]]
  /\ \/ /\ method[job[w]] = "BOLIX"
        /\ Goto(w, "recover")
        /\ UNCHANGED <<job, seen>>
     \/ Finish(w)
  /\ UNCHANGED <<invoice, chargeVars, providerVars>>

\* Paid, given back or closed: the same writes as the notices.
ReconcileOutcome(w) ==
  LET c == job[w] IN
  /\ step[w] = "reconcile"
  /\ method[c] = "BOLIX" => linked[c]
  /\ \/ seen[w] = "paid" /\ RecordSettlement(c)
     \/ seen[w] = "partly" /\ RecordPixRefunds(c, FALSE)
     \/ seen[w] = "refunded" /\ method[c] = "PIX" /\ RecordPixRefunds(c, TRUE)
     \/ seen[w] = "refunded" /\ method[c] = "BOLIX"
        /\ Transition(c, "REFUNDED", TRUE)
     \/ seen[w] = "expired" /\ method[c] = "BOLIX"
        /\ Transition(c, "EXPIRED", TRUE)
     \/ seen[w] = "canceled" /\ Transition(c, "CANCELED", TRUE)
  /\ Finish(w)
  /\ UNCHANGED <<created, method, marker, replaces, linked, expiry, old,
                 providerVars>>

-----------------------------------------------------------------------------
(* A failed step: the request throws, or the process stops. *)

Abandon(w) ==
  /\ step[w] # "idle"
  /\ Finish(w)
  /\ UNCHANGED <<invoice, chargeVars, providerVars>>

-----------------------------------------------------------------------------
(* handlePixWebhook, handleChargesWebhook *)

NoticePaid(c) ==
  /\ "paid" \in notices[c]
  /\ RecordSettlement(c)
  /\ UNCHANGED <<created, method, marker, replaces, linked, expiry, old,
                 providerVars, workerVars>>

NoticeRefunded(c) ==
  /\ \/ /\ method[c] = "PIX"
        /\ \/ "partly" \in notices[c] /\ RecordPixRefunds(c, FALSE)
           \/ "refunded" \in notices[c] /\ RecordPixRefunds(c, TRUE)
     \/ /\ method[c] = "BOLIX"
        /\ "refunded" \in notices[c]
        /\ Transition(c, "REFUNDED", TRUE)
  /\ UNCHANGED <<created, method, marker, replaces, linked, expiry, old,
                 providerVars, workerVars>>

NoticeClosed(c) ==
  /\ status[c] # "REFUNDED"
  /\ \/ "canceled" \in notices[c] /\ Transition(c, "CANCELED", TRUE)
     \/ "expired" \in notices[c] /\ Transition(c, "EXPIRED", TRUE)
  /\ UNCHANGED <<created, method, marker, replaces, linked, expiry, old,
                 providerVars, workerVars>>

-----------------------------------------------------------------------------
(* The provider and the clock *)

Announce(c, p, n) ==
  /\ provider' = [provider EXCEPT ![c] = p]
  /\ notices' = [notices EXCEPT ![c] = @ \cup n]
  /\ UNCHANGED <<invoice, chargeVars, workerVars>>

ProviderMoves(c) ==
  \/ provider[c] = "live" /\ Announce(c, "paid", {"paid"})
  \/ provider[c] = "live"
     /\ Announce(c, "expired", IF method[c] = "BOLIX" THEN {"expired"} ELSE {})
  \/ ProviderCancels(c) /\ UNCHANGED <<invoice, chargeVars, workerVars>>
  \/ provider[c] = "paid" /\ method[c] = "PIX" /\ Announce(c, "partly", {"partly"})
  \/ provider[c] \in {"paid", "partly"} /\ Announce(c, "refunded", {"refunded"})

\* The local deadline is a day after the provider stops accepting payment.
Expire(c) ==
  /\ expiry[c] = "ahead"
  /\ status[c] \in {"ACTIVE", "EXPIRED"}
  /\ provider[c] # "live"
  /\ expiry' = [expiry EXCEPT ![c] = "past"]
  /\ UNCHANGED <<invoice, created, status, method, marker, replaces, linked,
                 old, providerVars, workerVars>>

\* Requests are far shorter than RECONCILE_MIN_AGE_MS: none that works on the
\* charge is in progress when it stops being recent.
Age(c) ==
  /\ status[c] # "ABSENT" /\ ~old[c]
  /\ \A w \in Worker : job[w] # c
  /\ old' = [old EXCEPT ![c] = TRUE]
  /\ UNCHANGED <<invoice, created, status, method, marker, replaces, linked,
                 expiry, providerVars, workerVars>>

-----------------------------------------------------------------------------
Request(w) ==
  \/ CreatePayment(w) \/ MarkPending(w)
  \/ SubmissionRefused(w) \/ SubmissionAccepted(w) \/ SubmissionUncertain(w)
  \/ RecordRefusal(w) \/ KeepReference(w) \/ Confirm(w)
  \/ ResumeReplacement(w) \/ ReserveReplacement(w) \/ Claim(w)
  \/ CancelPrevious(w) \/ MarkReplaced(w) \/ ResetInvoice(w) \/ MarkFailed(w)
  \/ MarkSubmitting(w)
  \/ StartCancel(w) \/ CancelAtProvider(w) \/ CancelLocal(w)
  \/ StartReconcile(w) \/ ReconcileNotFound(w) \/ ReconcileLocate(w)
  \/ ReconcilePayable(w) \/ ReconcileOutcome(w)
  \/ Abandon(w)

Environment(c) ==
  \/ NoticePaid(c) \/ NoticeRefunded(c) \/ NoticeClosed(c)
  \/ ProviderMoves(c) \/ Expire(c) \/ Age(c)

Next ==
  /\ \/ \E w \in Worker : Request(w)
     \/ \E c \in Charge : Environment(c)
  /\ UNCHANGED late

Spec == Init /\ [][Next]_vars

\* The provider repeats a notice until it is answered.
Fairness == \A c \in Charge : WF_moving(NoticePaid(c))
FairSpec == Spec /\ Fairness

-----------------------------------------------------------------------------
(* Properties *)

\* A charge is FAILED only when the provider never created it: a refusal is
\* proven, an unknown outcome keeps the reservation.
ReleasedMeansAbsent ==
  \A c \in Charge : status[c] = "FAILED" => provider[c] = "none"

\* That is so while no replacement is resumed after the age that proves absence.
ReleasedInTimeMeansAbsent == ~late => ReleasedMeansAbsent

Submitting(w) == step[w] \in {"created", "submit", "refused", "accepted",
                              "cancelPrevious", "markReplaced", "resetInvoice",
                              "markFailed", "markSubmitting"}

\* At most one charge of the invoice can be paid at the provider: a failed,
\* canceled, expired or replaced charge that makes room for a new one no
\* longer accepts a payment.
OnePayable ==
  \A c, d \in Charge : provider[c] = "live" /\ provider[d] = "live" => c = d

OneSubmitter ==
  \A v, w \in Worker :
    Submitting(v) /\ Submitting(w) /\ job[v] = job[w] => v = w

\* A charge is issued once and beside no other: no two requests submit the
\* same charge, even when several resume the same replacement, and, while they
\* are resumed in time, one charge can be paid at most (createDraft,
\* recordDiagnosis, replaceExpiredCharge).
IssuedOnce == OneSubmitter /\ (~late => OnePayable)

\* While replacements are resumed in time, a paid invoice rests on a charge
\* booked as paid that the payer did pay; and while an invoice can still be
\* charged, its active charge is the one whose instruments it shows (transition).
InvoiceTellsItsCharge ==
  ~late =>
    /\ invoice.status = "PAID" =>
         \E c \in Charge : /\ status[c] = "PAID"
                           /\ provider[c] \in {"paid", "partly", "refunded"}
    /\ \A c \in Charge :
         status[c] = "ACTIVE" /\ invoice.status \in {"DRAFT", "PENDING"} => Names(c)

\* No answer, notice or request takes back a settlement: paid may only become
\* refunded, and refunded stays.
SettledIsKept ==
  [][\A c \in Charge :
       /\ status[c] = "PAID" => status'[c] \in {"PAID", "REFUNDED"}
       /\ status[c] = "REFUNDED" => status'[c] = "REFUNDED"]_vars

\* Whatever became of the charge meanwhile, a payment the provider announced
\* is booked in the end.
PaymentIsBooked ==
  \A c \in Charge :
    <>[]("paid" \in notices[c] => status[c] \in {"PAID", "REFUNDED"})

\* cancelInvoice never shows as canceled an invoice that could still be paid
\* at the provider.
CanceledIsNotPayable ==
  [][\A w \in Worker :
       CancelLocal(w) /\ invoice.status = "PENDING" =>
         \A c \in Charge : provider[c] # "live"]_vars
=============================================================================
