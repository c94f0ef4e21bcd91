# Verification of the billing core of CobraPix

TLA+ models of the parts of the backend (`src/api-cobranca`) that move money
or messages, model-checked with TLC on small instances, with proofs checked by
TLAPS for every value of the constants. Paths below are relative to
`src/api-cobranca/src` unless they start with `docs/` (of the repository).

- [1. The system](#1-the-system)
- [2. Modules](#2-modules)
- [3. Runs](#3-runs)
- [4. Proofs](#4-proofs)
- [5. Where the code departs from what it says](#5-where-the-code-departs-from-what-it-says)
- [6. What is not modelled](#6-what-is-not-modelled)
- [7. Plan](#7-plan)

How to run: `tlc -config <run>.cfg <module>.tla`, with the module named in
section 3; `tlapm <Module>Proofs.tla`.

## 1. The system

A NestJS backend over PostgreSQL (Prisma), Redis and BullMQ, in several
processes, and a Next.js interface. It bills a company's debtors by Pix,
boleto/Bolix and card through Efí, reminds them by WhatsApp (Datafy) and e-mail,
runs a checkout for digital products, and pays a company's collaborators by Pix.
Everything durable is a row; transactions lock rows (`FOR UPDATE`) or take
advisory locks; between two transactions, and around each call to a provider,
any other request may run and the process may stop. Providers answer late, twice,
out of order or never.

| Component | State | Operations | What is hard | What makes it correct |
|---|---|---|---|---|
| Charge issuance (`payment/payment.service.ts`, `payment-charge.service.ts`, `efi.service.ts`, cancelInvoice of `invoices/`) | `PaymentCharge` (status, marker, identifiers, replaced charge), `Invoice` (status, identifiers) | create, replace an expired one, cancel, reconcile, notices of Pix and boleto | the answer of a submission may be lost; two requests on one invoice; a reconciliation beside a slow submission; a crash within a replacement | one payable charge at most; nothing released that exists; paid invoices rest on a payment; a payment announced is booked |
| Card charges of collections (`payment/card-payment.service.ts`) | `CardPaymentAttempt`, `PaymentCharge`, `Invoice` | pay, read each minute, notice, book, cancel what a refusal left | uncertain answers, stale readings, a token that works once | one try at most may debit the payer; the books say what Efí did |
| Settlement (`settlements/`, `recordSettlement`, `recordPixRefunds`) | `PaymentSettlement`, `FinancialLedgerEntry` (append-only), `SettlementDivergence`, evidence | receipts, returns, evidence of the fee, decisions, options | repeated and reordered notices, returns in parts, a fee that changes after it was seen | every receipt is in the books once, as payment or duplicate, the books balance, "reconciled" hides nothing |
| Outbound messages (`communications/`, `whatsapp/outbound-dispatcher.service.ts`, `templates/`) | `CommunicationOutboundIntent`, `WhatsappTemplatePendingSend`, resume previews | reserve, dispatch, recover, hold, reconcile holds, review and resume | leases that expire under a live worker, lost answers, failed commits, a review beside a worker | one transmission at most, states that tell the truth, none stuck |
| Channel capacity (`queue/services/messaging-limit.service.ts`) | reservation time of each intent, the tier in a cache | reserve under an advisory lock, refresh the tier | a window that moves, a limit read before the lock, retries on an old reservation | no more recipients with a unit in a window than the limit |
| Datafy notices (`communications/`, `webhooks/`) | `CommunicationWebhookDelivery`, status events, messages, inbox | receive, claim (`SKIP LOCKED`), apply, give up, replay, purge | duplicates, reordering, a status before the identifier it speaks of, a crash while processing | what was told comes to the latest status, and a message that came counts once |
| Collaborator payments: sending (`disbursements/`) | `DisbursementBatch`, `DisbursementItem`, `DisbursementSettings` | create, edit, cancel, retry failures, send, check, notice, complete, turn off | overlapping runs of the sender, lost answers, retries of retries | nobody is paid twice, a finished batch tells the truth, batches end |
| Collaborator payments: approval | `DisbursementApproval`, its message, the taps | ask, prepare and link the message, tap, decide, expire, edit, cancel, configure | taps read before the locks, deadlines, an edited batch whose old message can still be tapped | only what the approver saw is paid; one open request; each request ends |
| Checkout (`checkout/`) | orders, Pix and card tries, the ledger of sales, refunds and their requests, offers, notices to sellers | order, try again, late payment, refund, offer, deliver notices | an order paid by two tries, stale readings, refunds in parts, two processes on one notice, double clicks | sold once for what was paid; the fee given back adds up; one process sends a notice while its claim lasts; an offer is answered once |
| Opening of Efí accounts (`efi-onboarding/`) | `EfiOnboarding`, `GatewayAccount`, leases | draft, submit, hear, provision, renew, retry, close, disconnect | requests that must not be repeated, a run that lost its lease, stops between marking, making and storing | one account, certificate and key; what is over stays over |
| Financial activation (`financial-activation/`) | `FinancialProfileVersion`, `EfiCredentialVersion`, validations | prepare, upload, validate (worker), activate, publish | edits beside a validation, overlapping runs, a fee that changes in between | one profile in force with one credential; it was validated as it is |
| Message queue (`queue/`) | BullMQ jobs | enqueue, process, retry | jobs retried after a partial success | idempotent jobs |
| Template catalog (`templates/`) | catalog, grants, slots, mappings, transition | synchronise, grant, choose, transition | lock order (`template-locks.ts`), a legacy message claimed between listing and hold | a message uses the template its company may use |
| Conversations and media (`communications/`, `whatsapp/conversation.service.ts`) | conversations, messages, media leases | reply, attribute, download | leases of downloads | each message belongs to one tenant |
| Collection rules (`billing/`) | rule profiles, collection logs | two daily crons under an advisory lock, manual run, configuration | two processes at the same hour | each reminder once a day |
| Invoices (`invoices/`) | invoices, recurrences | import, recurrence at midnight, late terms, screens | dates at month ends, recurrence after a missed night | each period is invoiced once |
| Disbursement schedules | schedules, recipients | create the next batch, request due ones, end | lock order with batches | one batch per date |
| Fees (`payment-fees/`) | fee versions | new version, quote | rounding, versions in force | a charge keeps its version |
| E-mail, links, notifications | queues, logs | send, retry | idempotency keys | each once |
| Accounts, administration, secrets, health | users, sessions, keys | log in, administer, rotate | – | – |
| Web interface (`src/front-cobranca`) | none of its own | screens | – | – |

How they interact. An invoice gets charges from issuance, or one by card; the
notices that close or settle them call the settlement in the same transaction.
Approval releases a batch (`PROCESSING`) and sending takes it from there; both
are stopped by the same settings. Approval asks through an outbound message.
Rules, receipts, approvals and the checkout all send through outbound messages,
which take a unit of the channel's capacity before each transmission and are
told by Datafy's notices what became of them. The opening of an account
publishes a financial profile; the profile in force is what charges are issued
with.

## 2. Modules

Conventions. A transaction, or a single statement outside one, is an action; a
function of the code that calls a provider is several. A request in progress
keeps what it read in variables of its own (`seen`, `answer`, `found`, `sees`,
`read`, `check`), so that it may be stale when used, and can stop at every step.
Row locks are what makes a transaction one step; waiting for them, and so
deadlocks between them, is not modelled. Clocks are reduced to what conditions
ask of them ("expired", "old enough", "the grace is over"). Bounds are constants,
named in the modules. The operators that follow "A variant" comments are the
faults that show the properties can fail; no specification uses them.

**Components and unions.** A module models a component; an `MC` module puts the
components of one area side by side, for TLC and for the theorems about the
whole:

| Union | Components | Bounds of the instantiated ones |
|---|---|---|
| `MCCollections` | `ChargeIssuance`, `CardCharge` | `CardTries` |
| `MCDisbursements` | `DisbursementSending`, `DisbursementApproval` | `ApprovalBounds` |
| `MCMessaging` | `OutboundMessage`, `ChannelCapacity`, `DatafyNotices` | `ChannelBounds`, `NoticeBounds` |
| `MCCheckout` | `CheckoutPayment`, `CheckoutRefund`, `CheckoutDelivery`, `CheckoutOffer` | `CheckoutBounds` |
| `MCActivation` | `AccountOpening`, `FinancialActivation` | `ActivationBounds` |
| `MCSettlementLedger` | `SettlementLedger` | – |

The components of a union meet in the database only, at rows where one begins
when the other has ended (a batch released, an order paid, an account published),
and each has in its module what the other may do to it. A behaviour of a union
follows one part, chosen at the start, with the others at rest: the union's
states are the sum of the parts', not their product. A requirement of fairness on
one part and one on another hold of different behaviours; where both parts'
requirements are many they are stated as one (`MCDisbursements`, `MCActivation`). The first
component of a union is extended, the others are instances, `C!`, `N!`, `P!`
and so on; their constants have a module so that their assumptions are checked
and can be used in proofs.

**ChargeIssuance.** One invoice, its charges and the requests that work on them.
`status`, `method`, `marker` (`gatewayStatusRaw`), `replaces`, `linked`
(`efiChargeId`), `expiry` and `old` are columns of the charge; `invoice` has its
status and the charges its three identifier columns name; `provider` and
`notices` are what Efí holds and has announced. `Transition`,
`RecordSettlement`, `RecordPixRefunds`, `ConfirmIssuance` and `RecordFailure` are
the functions of `payment-charge.service.ts`. Requests: `CreatePayment …
Confirm` (createPayment and submitIssuance, with the three outcomes of a
submission: refused, accepted, unknown), `ReserveReplacement`,
`ResumeReplacement`, `Claim … MarkSubmitting` (replaceExpiredCharge),
`StartCancel … CancelLocal` (cancelInvoice), `StartReconcile …
ReconcileOutcome` (reconcileCharge, whose read and write are apart), `Notice…`
(the webhooks) and `Abandon`, the stop of a process. `late` says whether a
replacement left behind may be resumed after `RECONCILE_MIN_AGE_MS`; the code
lets it (see 5).

**CardCharge.** One invoice charged to a card: a local charge and the tries the
payer confirms, in order. `efi` is what Efí holds of each try, `sees` what was
read and not applied yet, `booking` what was applied and not booked yet. A try
is sent once; one whose answer is lost is `UNCERTAIN` and looked up, never sent
again. Before a try is sent the one refused before it is canceled at Efí.

**SettlementLedger.** The money of one charge. `pix`, `returned` and `bill` are
at Efí; `read` holds what requests have read and not applied, in any number and
order, so a notice may come late, be repeated or be lost. `Sync` is
`syncSettlement`, with `Entry` the difference it appends to the ledger, kept as
the sum by kind. `Opened` is `openDivergence`, `Refreshed` the status of
`refreshSettlement`. The first entry of a charge keeps the reference that came
with it (`firstRef`), by which `IsAnotherPayment` tells a second Pix. Returns are
sets of cents (`Back`), of any Pix of the charge, so that a return told again adds
nothing. The fee is
a constant function, so the rounding is the code's (`ProportionalReversal`) and
the tariff is not.

**OutboundMessage.** One logical key. `Prepare` is the preparer with
`reserveInTransaction`; `Start`, `Claim`, `Validate`, `Deliver`/`Reject`,
`Commit`/`CommitFails`, `Record` and `Hold` are the steps of `execute` and of the
dispatcher's callbacks; `ExpireLease` is `recover`; `Scan`/`Reconcile` the
reconciliation of pending intents; `Preview`/`Confirm` the review. `LOST` is an
`UNCERTAIN` intent with `WORKER_LOST_AFTER_CLAIM`, the one state the late
acceptance may still overwrite.

**ChannelCapacity.** The messages that ask for the channel at once: the tier in
the cache with its age, the limit each process read before the lock, the
reservation under it, and the moving window. A failed message is tried again at
any later time on the unit it has, as in the code. What is counted is what the
code counts: recipients with a reservation in the window.

**DatafyNotices.** One message that was sent and one that came. `story` is what
really became of the first, each status with its second: `eventTime` accepts whole
seconds, so two statuses may have the same; deliveries carry statuses of it, in any order and
more than once; a row is claimed, applied in one transaction, put back, given
up, replayed or purged; a status that comes before the message has its
identifier waits as an event and is reconciled or ends with its retention. The
message that came is looked for (`found`) and inserted in two steps of one
transaction, so that two deliveries of it overlap; what the unique key of the
message refuses is rolled back.

**DisbursementSending and DisbursementApproval.** Sending: a payment is a pair
of batch and person with its own `idEnvio`; `pix` is what Efí did with it.
`Begin … Record` is one run of `sendApproved`, with the balance check, the claim
(`updateMany` on `PENDING`), the call, and the answer that may be lost or come
after the item was declared lost. `Check…` are the reconciliation and the
administrator's own check, `Notice…` the webhook, `RetryFailed` the chain of
retries: `origin` is the first batch of a chain (a history variable). Approval:
requests are numbered; `shown` stands for the content hash; `worker` is the tick,
whose reads and transactions are apart. Approval ends where sending starts, at
`PROCESSING`: sending's `Approve`/`Refuse` are approval's decisions with who and
when left out.

**CheckoutPayment, CheckoutSale.** One order, paid by an immediate Pix or by a
card in up to three tries. Every write is conditional on the current status;
`found` and `sees` are what was read at Efí and not applied yet. `CheckoutSale`
is the promise: sold at most once, for an amount really paid and never changed
afterwards, with one notice, and closed only when nothing was paid or a payment
can still reopen it; `Sale` in `CheckoutPayment` is the refinement mapping.

**CheckoutRefund, CheckoutDelivery, CheckoutOffer.** What follows a payment: the
refunds of a sale by Efí's notices and by hand, with the part of the fee given
back and the requests of buyer and seller; the rows of one rule of notices to a
seller's system and the passes of the worker that claim and send them, whose
times count from the start of the pass and which may outlast their claims
(`lapsed` is a history variable: the notices held past a claim, or sent again
while held); and the answers to the offers of a
purchase with the orders they make.

**AccountOpening.** The row, the gateway account, the profile as far as the
opening cares (`origin`), what exists at Efí, the submissions that may overlap,
one run of the provisioner under its lease and one of the renewal. What Efí does
not undo (an account, a certificate, a key) is marked before it is made and
stored after.

**FinancialActivation.** Versions of the profile, credentials and validations,
each numbered in the order of creation; the runs of the worker and of the
recovery that may overlap, a claim of an attempt known by its number; the
activation by hand; the fee that the steps of a run see (`runner.fee`), that enters
the hash afterwards, and that may change in between. `gateway` is the certificate
in the gateway account, whoever brought it; until a version of the credentials
records it, it is `UNRECORDED`. So the opening writes here too: `Provision`,
`RecoverByHand` (`manual()`), `OpeningPublishes`, `StartRenewal`/`SaveRenewal` and,
after a stop perhaps never, `SyncOpeningCredential`, and `CheckDisconnect`/
`Disconnect`, whose check is made before its transaction.

## 3. Runs

TLC explores each instance exhaustively. `CHECK_DEADLOCK FALSE` is in every run:
the bounds make the models stop, and work may really be finished. `cfg` files
have the name of the run.

| Run | Module | Shows |
|---|---|---|
| `collections` | `MCCollections` | `IssuedOnce`, `ReleasedInTimeMeansAbsent`, `InvoiceTellsItsCharge`, `CardIsDebitedOnce`, `SettledIsKept`, `PaymentsAreBooked` |
| `issuance_late_release` | `ChargeIssuance` | violated: `ReleasedMeansAbsent` (5.1) |
| `issuance_cancel` | `ChargeIssuance` | violated: `CanceledIsNotPayable` (5.2) |
| `card_refused` | `CardCharge` | violated: `RefusalFreesThePayer` (5.5) |
| `settlement` | `MCSettlementLedger` | `AccountedOnce`, `BooksBalance`, `ReconciledIsClear`, `ComplementIsTheBalance`, `DecisionsStand` |
| `settlement_reversal` | `MCSettlementLedger` | violated: `ReversalsWithinFee` (5.4) |
| `message` | `MCMessaging` | `SentOnce`, `StatesAreTrue`, `LimitIsKept`, `NoticesAddUp`, `MessagingEnds` |
| `disbursements` | `MCDisbursements` | `OneOpenRequest`, `SentOnce`, `OnlyAuthorizedIsPaid`, `ResultIsFinal`, `OffLeavesTheTurnedAway` |
| `disbursements_end` | `MCDisbursements` | `CompletionIsTruthful`, `DisbursementsEnd` |
| `approval_expiry` | `DisbursementApproval` | violated: `TapInTime` (5.3) |
| `checkout` | `MCCheckout` | `OneTryAtATime`, `NothingPaidIsGivenUp`, `RefundsAddUp`, `OneSender`, `SoldOnceForWhatWasPaid`, `CheckoutEnds`, `OneAnswerEach` |
| `activation` | `MCActivation` | `OpenedOnce`, `ProfilesStand`, `OwnersDecide`, `WorkEnds` |

The passing runs also check the types of their parts (`PartsTypeOK`, `TypeOK`).
Every property is stated, with the code it is about, above its definition.

**Instances, and why they are enough to be of use.** Two of a kind is what a
race needs: two requests, two senders, two workers, two Pix, two processes.

- `collections`: two charges and two requests with both methods, replacements
  resumed in time or late; a card charge with two tries, two readings each and
  one stop. `IssuedOnce` is that no two requests submit one charge and, in time,
  no two charges can be paid. A late resumption and a third charge lead to two
  payable charges (5.1), which is why the claim is about resumption in time;
  three charges resumed in time hold too, and the proof covers any number.
- `settlement`: amounts {1, 2, 3} around a charge of 2 give underpayment, exact,
  overpayment, returns in one part or two and a reversal that is rounded; the
  Pix are symmetric.
- `message`: two workers, two attempts, one review and one change of the
  template; three messages to two recipients under a limit of 2 (1 when it is
  not known) and a window of 2; two deliveries that tell the two statuses of a
  message, of two seconds or of one, and each the same message that came, two
  readers, two tries and one trouble.
- `disbursements`: two batches of one person make one retry, with two senders,
  one check, the feature turned off and on; two requests of approval, one tap,
  one change of settings or content, a page of one request (the smallest that
  hides a second). Ticks may outlast the grace and decisions may fail. Contents
  and phones are symmetric.
- `disbursements_end`: one batch of two persons, one request and one tap.
- `approval_expiry`: one request and one tap are enough to lose it.
- `checkout`: three tries, two requests, two readings, one stop; a sale of 3 with
  a fee of 2 refunded in two parts and once by hand; one notice and two
  processes whose passes last up to twice the claim, one try again, one notice
  sent again and one stop; one offer, two clicks, three orders.
- `activation`: two of everything at once is too much, so the opening is looked at
  twice and the profiles three times (`Parts`). `submitting`: submissions that
  overlap before Efí opens the account. `opening`: whole openings with one
  submission at a time. `validating`: one version, edited and uploaded to, whose
  validations overlap, stop and are overtaken. `replacing`: two versions that
  follow each other while the fee changes. `bridging`: a version by hand and
  those of the opening, with up to four certificates from uploads, provisioning,
  recovery and renewal, and a disconnection at any time. Four notices, five runs of the
  provisioner and three of a validation are the code's limits, here two. The
  proofs need none of these restrictions.

**Fairness**, where liveness is checked:

- `collections`: Efí repeats the notice of a payment until it is answered, so its
  processing is weakly fair. Nothing else of issuance is: no request need end.
  Of the card, the answers of a live process return, and the worker reads, applies
  and books each minute.
- `message`: leases expire; the queue and `recover` offer what is pending again
  (strong fairness of the steps a stop may interrupt); limits and pauses end. Of
  the notices the worker claims, gives up, applies or puts back, leases end, and
  retention and reconciliation run on their intervals.
- `disbursements_end`: the worker's interval repeats for ever, so the steps of a
  sender and of a check are strongly fair (a stop may interrupt each of them,
  but not always the same one); the calls of a live process return
  (`SENDING_LOST_AFTER_MS` bounds them) and Efí handles what it received; days
  end. No notice need be delivered: the checks must be enough.
- `checkout`: time passes, Efí creates and charges what it accepted, the worker
  reads and applies; a pass of the notices' worker starts, claims, sends and
  records.
- `activation`: due jobs are run, those lost are scheduled again by a cron,
  calls return or time out, delays and leases end. Nobody is obliged to act.

`BatchEnds` names its exception: a send that never reached Efí stays under
verification for ever (documented in `docs/operations/pagamentos-colaboradores.md`).

## 4. Proofs

TLAPS checks these for every value of the constants that satisfies the named
assumptions of the modules: bounds are naturals, `None` is not one of the values
it stands beside, and what is said below where it matters. Every invariant and
action property of the passing runs is stated by a theorem. Each proof module
has an inductive invariant, a conjunction of named parts, with one lemma for
each action that is not obvious; theorems of a union (`MCSpec`) are the theorems
of its parts, beside which the others rest.

| Module | Theorem | Property |
|---|---|---|
| `ChargeIssuanceProofs` | `OneIsPayable` | `IssuedOnce` |
| | `AbsentWhenReleased` | `ReleasedInTimeMeansAbsent` |
| | `InvoiceIsTrue` | `InvoiceTellsItsCharge` |
| | `SettlementsAreKept` | `SettledIsKept` |
| | `CardDebitsOnce`, `PartsAreTyped` | `CardIsDebitedOnce`, `PartsTypeOK` |
| `CardChargeProofs` | `OnlyOneDebits`, `PaidIsKept` | of the card alone |
| `SettlementLedgerProofs` | `ReceiptsAreAccounted`, `BooksAreBalanced` | `AccountedOnce`, `BooksBalance` |
| | `ReconciledHidesNothing`, `ComplementsAreExact` | `ReconciledIsClear`, `ComplementIsTheBalance` |
| | `DecisionsAreKept`, `TypeCorrect` | `DecisionsStand`, `TypeOK` |
| `OutboundMessageProofs` | `GoesOutOnce`, `RecordsAreTrue` | `SentOnce`, `StatesAreTrue` |
| | `LimitIsRespected`, `NoticesAreSummed` | `LimitIsKept`, `NoticesAddUp` |
| | `PartsAreTyped` | `PartsTypeOK` |
| `DisbursementSendingProofs` | `PaymentsAreSingle`, `ReportsAreTruthful` | `SentOnce`, `CompletionIsTruthful` |
| | `ResultsAreFinal`, `OneRequestIsOpen` | `ResultIsFinal`, `OneOpenRequest` |
| | `OnlyTheApprovedIsPaid`, `OffCancelsTheRest` | `OnlyAuthorizedIsPaid`, `OffLeavesTheTurnedAway` |
| | `PartsAreTyped` | `PartsTypeOK` |
| `DisbursementApprovalProofs` | `OneIsOpen`, `OnlyApprovedLeaves` | of the approval alone |
| `CheckoutPaymentProofs` | `ImplementsSale`, `PaymentsAreKept` | `SoldOnceForWhatWasPaid`, `NothingPaidIsGivenUp` |
| | `TriesTakeTurns`, `RefundsAreSummed` | `OneTryAtATime`, `RefundsAddUp` |
| | `OneHandSends`, `OffersAnsweredOnce` | `OneSender`, `OneAnswerEach` |
| | `PartsAreTyped` | `PartsTypeOK` |
| `AccountOpeningProofs` | `EverythingMadeOnce`, `ProfilesAreSound` | `OpenedOnce`, `ProfilesStand` |
| | `OwnersHaveDecided`, `OverForGood` | `OwnersDecide`, and its part about the opening |
| | `PartsAreTyped`, `PartsStand` | `PartsTypeOK`; all of these of the behaviours of the run |

The arguments.

**Issuance.** `IssuedOnce` alone says nothing of requests in progress. An open
charge has its request (`Born`, `Working`), is alone among the charges of the
invoice (`OneOpen`), is submitted by the request that claimed it (`Claimed`), and
what a request learned of the provider stays true because a closed charge never
comes back there (`Unmade`, `Knowledge`, `ClosedIsGone`). These hold however late
a replacement is resumed. The rest needs resumption in time (`InTime`): only a
recent charge is being submitted (`Recent`), so one found absent while it is old
was never created (`Unreleased`, `ReleasedMeansAbsent`), and an invoice tells the
truth of the charge it names (`Told`).

**Card.** Tries are made in order, and an earlier one is canceled or, the last but
one, refused with the last not sent (`InOrder`, `Unsent`, `Earlier`); readings of a
charge that ended stay true, however late they are applied (`Ended`, `Readings`);
so one try at most debits, and the books follow (`Books`).

**Settlement.** `ReconciledIsClear` is not inductive: a settlement may become
reconciled by the last decision, so every occurrence must have been noted
whether or not it was shown (`Notes`). That needs the first reference, the
settlement and the paid charge to come together (`Books`), each Pix to be
recorded as what it is (`Receipts`), and the paid amount never to change once
known (`PaidAsTold`). `Shortfall` then ties the amount of the divergence, and of
the invoice charged for it, to what is missing. That the books balance
rests on the returns known being among those made, as sets of cents (`Returned`),
and on the finite cardinalities of those sets. `AccountedOnce` and `BooksBalance`
are exact about two things the code does (5.6, 5.7). The assumption on names says
only that the identifier of a Pix is none of the references the code writes itself.

**Messages.** One worker at a time is past the claim of an attempt (`OneWorks`):
it holds the lease, or lost it, and then the attempt is `LOST` and claimed by
nobody; before it transmits nothing was delivered, and what it found is true
(`DeliveryIsKnown`); generations are tried in order
(`Generations`); a closed communication has nothing in flight (`ClosedIsClear`),
and a review that is kept decides something (`ReviewsDecide`).

**Channel.** A message is sent while its own unit is in the window (`UnitTaken`),
and of any recipients with a unit in the window the last took its own under a limit
that allows for all of them (`Shared`), which is stronger than the property and
stands when the window moves, since it speaks of every set of them. When a message
that is tried again reaches its recipient is not what is counted (5.8).

**Notices.** What was told of a message is the latest of the statuses of the
deliveries applied so far, and in one second the furthest but for a failure beside
a sending (`StandsAt`, `Told`), by induction over the events of one delivery, which
are applied in one transaction. The message that came is inserted and counted
together, and what a transaction had found when it looked is still there when it
writes (`Writes`). `StoryAssumption` excludes statuses that contradict each other
(failed after delivered): of those the order of arrival decides.

**Sending.** What one must know of an item is what Efí can still do for it: an
item that is `FAILED`, `CANCELED` or `PENDING` has no Pix that was or may be paid
(`ItemsAreTrue`), which holds only because what a sender is about to write agrees
with what Efí said (`AnswersAreTrue`), because what a check found was true and
stays so (`ChecksAreTrue`), and because the claim gives an item to one sender
(`OneSender`). What one must know of batches is a chain: those of an origin that
are not canceled are each a retry of another whose items for the same people
ended without payment (`Origins`, `Lineage`), so two of them never both hold a
live item of one person. `OffCancelsTheRest` follows from the invariant step by
step: of all that writes `PENDING`, only the record of a send that was turned away
does so while the feature is off.

**Approval.** Requests are numbered and the current one is the latest
(`Numbered`, `Fresh`, `Latest`), a decision in hand rests on a tap that still
answers (`Working`, `ToDecide`).

**Checkout.** An order is paid by Pix or by card (`OneWay`), what was read is true
when it is applied, however late (`PixIsKnown`, `PixReadingsHold`,
`ReadingsHold`), Efí handles what it received before a look can miss it
(`SentInTime`) and a try ends as its charge (`EndsAsItsCharge`), so one pays
(`OnePays`) and the sale is of that one (`SoldAsPaid`, `ClosedForGood`). The
refinement has two parts: the initial states map to initial states of
`CheckoutSale`, and each action to one of its steps or to none. Refunds: the
reversal is the rounded part of a sum of refunds, by induction over sets of
them. Notices: whoever holds one that has not lapsed holds it alone, and the row is
not due before the claim made by that pass ends (`ClaimsHold`), for any lengths of
passes and claims.

**Opening and profiles.** One submission at a time is past its claim of the
request, and none gets there afterwards (`OneAsks`); before it no account lives,
and what it heard is true (`RequestsAreTrue`); so one account lives at most
(`OneLives`) and things are made for the one the row names (`MadeForTheRow`). A
run holds its lease unless the company disconnected (`RunHoldsLease`), and what
Efí does not undo is marked before it is made and found stored or marked
afterwards (`CertificateIsMarked`, `KeyIsMarked`, `StoredSoFar`,
`RenewalIsMarked`), so that it is not made again. Profiles: a
validation belongs to the revision it read (`ValidatedAsItIs`, `OneWaits`,
`RunsWork`); one profile is in force, with one credential (`Issuing`); what the
gateway account holds is that credential or a certificate that nothing records yet,
and nothing only once the company left (`Held`); a renewal is of a profile in
force (`Renewing`); a validation runs no more often than its limit and the runs that
were overtaken (`Counted`). These theorems are of the specifications of the two
modules, `Spec` and `P!Spec`, with every step the parts of the run restrict;
`PartsStand` draws those of the run from them.

**Only model-checked**: `PaymentsAreBooked`, `MessagingEnds`, `DisbursementsEnd`,
`CheckoutEnds` and `WorkEnds`. They are liveness properties, and fairness and
`ENABLED` are out of the prover's reach.

## 5. Where the code departs from what it says

Shown by a run:

1. A replacement resumed late can be released as absent while its submission
   goes through (`issuance_late_release`, `payment/efi.service.ts:773`): the age
   that proves absence is that of the row, and resuming does not renew it. With
   a third charge the invoice then has two that can be paid.
2. `cancelInvoice` cancels at the provider what it read before the call
   (`issuance_cancel`, `invoices/invoices.service.ts:1229`): a replacement issued
   meanwhile stays payable under an invoice shown as canceled.
3. The tick decides first and expires last, and in between it sends and checks,
   with calls to Efí (`approval_expiry`, `disbursements/disbursement.worker.ts:25-29`).
   When these outlast `EXPIRY_GRACE_MS`, two minutes, an answer stored before the
   end of the day, but after this tick's decisions, is expired. The comment at line
   8 says that a tap in time never is.
4. Partial returns each open a reversal for all that was returned so far
   (`settlement_reversal`, `settlements/settlement-ledger.ts:182`): paid one by
   one they add up to more than the fee.
5. A card charge that Efí holds for analysis and then refuses stays `APPROVED`
   (`card_refused`, `payment/card-payment.service.ts:860`) and the payer is told
   for ever that it is being processed.

Exact properties, which hold because they say what the code does and not what it
promises:

6. The books of a charge that first hear of a return take the return's reference
   for that of the payment (`payment/payment-charge.service.ts:788-791`, `797-813`):
   the receipt that follows is booked as a duplicate of itself. `AccountedOnce`
   leaves such a charge out.
7. `recordPixRefunds` and `refundedCents` sum the returns of every Pix of the
   charge, so that giving back a duplicate makes the charge `REFUNDED` and its invoice
   canceled, the payment being kept. `settlements/settlement-ledger.ts:208-209` and
   `docs/superpowers/plans/2026-09-25-ativacao-financeira-etapa7-execution.md:57,80`
   keep duplicates out of the charge's amounts. `BooksBalance` says what is summed.
8. A retry within a day goes out on its old reservation
   (`queue/services/messaging-limit.service.ts:179`), so that in some window more
   recipients are reached than the limit
   (`docs/superpowers/plans/2026-09-29-03-canal-central-estatisticas.md:120-121` counts
   those reached). `LimitIsKept` counts reservations.
9. Of a sending and a failure in one second the last to arrive stands
   (`webhooks/datafy-event-processor.service.ts:282-286`): `failed` then `sent` leaves
   `sent`. Of contradictory statuses the order of arrival decides too.
10. A pass of 20 notices of up to 10 s outlasts the claim of 2 minutes, which counts
    from its start (`checkout/checkout-webhooks.service.ts:61`, `197-207`), and
    `resend` does not look whether a send is under way: two workers can then send one
    notice, against the comment at line 189. `OneSender` speaks of the others.
11. A send turned away by the rate limit while the feature is switched off goes
    back to `PENDING` and is paid when the feature is on again
    (`disbursements/disbursement-sender.service.ts:124`;
    `docs/operations/pagamentos-colaboradores.md:152` says that what was not sent is
    canceled). `OffLeavesTheTurnedAway` has it as its one exception.
12. The steps of a validation read the fee and the hash reads it again
    (`financial-activation/financial-validation.service.ts:242-248`, `349`): a fee that
    changes between the two enters the hash though no step saw it, and `PIX_SPLIT`
    may have been skipped. `OwnersDecide` allows that one.
13. `manual()` of the opening does not look at the profile made by hand and
    overwrites the gateway account (`financial-activation/opening-profile.ts:16-17`
    says otherwise); a disconnection looks for it before its transaction and may wipe
    the gateway account under it (`efi-onboarding/onboarding-lifecycle.ts:141`,
    `170-183`). A disconnection leaves the `AUTOMATIC_OPENING` profile and its
    credential `ACTIVE` with an empty gateway account, and a stop between saving a
    renewed certificate and `syncOpeningCredential` leaves the old one in the
    credential. `ProfilesStand` and `OwnersDecide` name these cases.

Seen while reading, without a property of their own:

14. An active opening renewed by hand can never become active again
    (`creationIdempotencyKey` is unique), while the screen offers it.
15. Submissions are claimed by status, not by revision: overlapping ones can send
    more notices than the limit of four. The claim of a lease writes back the
    `certificateRequested` it read, though the old worker may have set it since. A
    lost notice of refusal is never looked for.
16. `activate()` reads the opening's status in its transaction while `submit()`
    may commit `NOTICE_PENDING`; the models take both as atomic.
17. The daily billing's advisory lock belongs to a session of a pool
    (`billing/billing.service.ts:178-210`) and may be unlocked on another.
18. A message released by a review, or sent by e-mail after a late WhatsApp
    failure, ignores the interval of 24 hours between reminders; a WhatsApp
    reminder is not checked against the invoice when it goes out, as an e-mail is
    (`email.service.ts:87`).
19. `setSteps` counts attempts before its transaction
    (`billing/collection-profile.service.ts:405`); deleting a step just claimed
    fails on its foreign key, and a claim of a deleted step ends the company's run
    with e-mails claimed and never queued.
20. A charge whose replacement failed and whose notice of expiry canceled the
    invoice can be issued by neither path (`payment/payment-charge.service.ts:206`);
    a replacement whose previous charge is already canceled at Efí waits at
    `REPLACEMENT_CANCELING` for reconciliation; `submitIssuance` returns the
    instruments of a charge that `confirmIssuance` found finalized.
21. The tick reads a page of 100 requests: an answered one beyond it may
    expire; so may one whose decision fails until its day ends. The end of a
    schedule locks schedule before batch, an edit with `applyToSchedule` batch
    before schedule.
22. A try whose previous card charge could not be canceled is `UNCERTAIN` without
    having been sent, and nothing resolves it. `cancelInvoice` goes on with a billing
    method read before a card charge was prepared.
23. `pay()` checks the tries again under the lock, not the order
    (`checkout/checkout-payments.service.ts:133`). An offer may be charged to the
    card again after its card and then its Pix failed
    (`checkout/checkout-offers.service.ts:162`). Two requests of refund at once cut
    short the time the buyer's holds (`checkout/checkout-refunds.service.ts:96`).

## 6. What is not modelled

Within the modules: amounts in issuance, issuance in batches (a loop over
`createPayment`) and by hand; quotes, rates and the limit of tries of a card; the
Efí fee's entries, evidence shared by several settlements, the life of a
complementary invoice; text messages without a template, what an acceptance
records on the collection; the limits per hour and per recipient; notices about
templates and suppressed recipients; schedules, recipients, receipts and the
acknowledgements to the approver; coupons, balances and payouts of the checkout,
who may see an offer; reminders to a representative and the retention of personal
data; the single steps of a validation. A stale reconciliation of returns of
several Pix is applied as the notices it is made of. Deadlocks between row locks
are nowhere. What happens between components of a union in one state is not:
a component has in its module what the others may do to it.

Outside them: message queue and jobs, template catalog and transition,
conversations and media, collection rules and daily billing, import and
recurrence of invoices, schedules of disbursements, fee versions and quotes,
e-mail and notifications, accounts and administration, the catalog and the
administration of the checkout, and the web interface, for the reasons
`PROJECT.json` gives.

## 7. Plan

1. Disbursement schedules, with locks as state for the two orders of 5.21.
2. Template catalog and transition: holds and grants beside a preparation.
3. Collection rules and the daily billing: two crons, the lock, the log.
4. Pure functions over bounded inputs: recurrence dates, late terms, quotes.
5. An abstract charge ("issued, paid, returned") that `ChargeIssuance` and
   `SettlementLedger` implement, and an abstract payment that approval and
   sending implement together.

Proofs: the two refinements, step by step, and the invariants of what is added.
