------------------------ MODULE DisbursementSending ------------------------
(***************************************************************************)
(* Payments to collaborators, from the draft of a batch to the result of   *)
(* each Pix: the company's batches, the senders that put the approved ones *)
(* on the wire, the checks that ask Efi what became of a send, and the     *)
(* notices Efi delivers.                                                   *)
(*                                                                         *)
(* A payment is a pair <<b, p>>: the item of batch b for person p, with    *)
(* its own idEnvio at Efi.  A database statement or transaction is one     *)
(* step; around a call to Efi anything else may happen, and the process    *)
(* may stop at any point.  SCHEDULED is part of "DRAFT" here (both are     *)
(* editable and nothing was requested), REJECTED and EXPIRED are part of   *)
(* "CANCELED" (batches that paid nothing).  Who may approve, and until     *)
(* when, is DisbursementApproval's subject.                                *)
(***************************************************************************)
EXTENDS Integers

CONSTANTS
  MaxBatches,   \* bound: batches ever created by the company
  Person,       \* the collaborators
  Sender,       \* sendApproved runs that can overlap (API instances)
  Checker,      \* checks that can overlap: reconcile and the admin's own
  MaxToggles,   \* bound: times the feature is turned off or on
  None,         \* no batch, person or status
  MayVanish,    \* may Efi keep no trace of a send it refused or never got?
  RateLimits,   \* may Efi answer balde_fichas_vazio?
  SlowAnswers   \* may a call outlive SENDING_LOST_AFTER_MS?

ASSUME MaxBatchesAssumption == MaxBatches \in Nat
ASSUME MaxTogglesAssumption == MaxToggles \in Nat

Batch == 1 .. MaxBatches
Payment == Batch \X Person

BatchStatus == {"ABSENT", "DRAFT", "AWAITING_APPROVAL", "PROCESSING",
                "COMPLETED", "COMPLETED_WITH_FAILURES", "CANCELED"}
ItemStatus == {"ABSENT", "PENDING", "SENDING", "IN_PROCESSING", "PAID",
               "FAILED", "UNCERTAIN", "CANCELED"}
InFlight == {"SENDING", "IN_PROCESSING", "UNCERTAIN"}
Completed == {"COMPLETED", "COMPLETED_WITH_FAILURES"}
\* "sent": the request is on its way; "none": Efi knows no such send.
PixStatus == {"none", "sent", "processing", "paid", "refused"}
Outcome == {"UNCERTAIN", "IN_PROCESSING", "PAID", "REFUSED", "RATE_LIMITED"}

ASSUME NoneAssumption == None \notin Nat /\ None \notin Person /\ None \notin Outcome

VARIABLES
  enabled,   \* the current DisbursementSettings.enabled
  toggles,   \* times it changed
  batch,     \* DisbursementBatch.status
  retryOf,   \* DisbursementBatch.retryOfBatchId
  origin,    \* the batch whose payments this one repeats (history)
  item,      \* DisbursementItem.status
  pix,       \* what Efi holds for the item's idEnvio
  stage,     \* where each sendBatch is
  job,       \* the batch it sends
  payee,     \* whose item it works on
  answer,    \* what the call to Efi returned
  check      \* each check in progress: payment, status read, Efi's answer

companyVars == <<enabled, toggles>>
batchVars == <<batch, retryOf, origin>>
senderVars == <<stage, job, payee, answer>>
vars == <<companyVars, batchVars, item, pix, senderVars, check>>

NoCheck == [at |-> "idle", of |-> None, was |-> None, found |-> None]

(* Items of batch b in status from become to. *)
Become(b, from, to) ==
  item' = [i \in Payment |->
             IF i[1] = b /\ item[i] = from THEN to ELSE item[i]]

(* The items of batch b are exactly those of the given people, all to be sent. *)
Items(b, people) ==
  item' = [i \in Payment |->
             IF i[1] # b THEN item[i]
             ELSE IF i[2] \in people THEN "PENDING" ELSE "ABSENT"]

People(b, statuses) == {p \in Person : item[<<b, p>>] \in statuses}

(* The next batch number; numbers stand for the order of creation. *)
NextBatch(b) ==
  batch[b] = "ABSENT" /\ \A c \in Batch : c < b => batch[c] # "ABSENT"

Standing(b) == batch[b] \notin {"ABSENT", "CANCELED"}

(***************************************************************************)
(* The company and its approver.  assertEnabled runs outside the           *)
(* transactions of create, update, cancel and retryFailed: the feature,    *)
(* on at the start, may be off when they write, so it is no guard of them. *)
(***************************************************************************)
Create(b, people) ==
  /\ NextBatch(b)
  /\ people # {}
  /\ batch' = [batch EXCEPT ![b] = "DRAFT"]
  /\ Items(b, people)
  /\ UNCHANGED <<companyVars, retryOf, origin, pix, senderVars, check>>

(* The items are replaced as a whole. A retry that pays someone it did not  *)
(* pay before repeats no other batch: it is a payment of its own.           *)
Update(b, people) ==
  /\ batch[b] = "DRAFT"
  /\ people # {}
  /\ Items(b, people)
  /\ origin' = [origin EXCEPT
       ![b] = IF people \subseteq People(b, {"PENDING"}) THEN @ ELSE b]
  /\ UNCHANGED <<companyVars, batch, retryOf, pix, senderVars, check>>

(* Only after a retry that paid nothing may the same failures be retried. *)
RetryFailed(b, new, people) ==
  /\ NextBatch(new)
  /\ batch[b] = "COMPLETED_WITH_FAILURES"
  /\ \A c \in Batch : retryOf[c] = b => ~Standing(c)
  /\ people # {}
  /\ people \subseteq People(b, {"FAILED"})
  /\ batch' = [batch EXCEPT ![new] = "DRAFT"]
  /\ retryOf' = [retryOf EXCEPT ![new] = b]
  /\ origin' = [origin EXCEPT ![new] = origin[b]]
  /\ Items(new, people)
  /\ UNCHANGED <<companyVars, pix, senderVars, check>>

Request(b) ==
  /\ enabled
  /\ batch[b] = "DRAFT"
  /\ batch' = [batch EXCEPT ![b] = "AWAITING_APPROVAL"]
  /\ UNCHANGED <<companyVars, retryOf, origin, item, pix, senderVars, check>>

Approve(b) ==
  /\ enabled
  /\ batch[b] = "AWAITING_APPROVAL"
  /\ batch' = [batch EXCEPT ![b] = "PROCESSING"]
  /\ UNCHANGED <<companyVars, retryOf, origin, item, pix, senderVars, check>>

(* Refused by the approver, or not answered in time. *)
Refuse(b) ==
  /\ batch[b] = "AWAITING_APPROVAL"
  /\ batch' = [batch EXCEPT ![b] = "CANCELED"]
  /\ Become(b, "PENDING", "CANCELED")
  /\ UNCHANGED <<companyVars, retryOf, origin, pix, senderVars, check>>

(* The request was not sent, no longer holds, or went to another approver. *)
ReturnToDraft(b) ==
  /\ batch[b] = "AWAITING_APPROVAL"
  /\ batch' = [batch EXCEPT ![b] = "DRAFT"]
  /\ UNCHANGED <<companyVars, retryOf, origin, item, pix, senderVars, check>>

Cancel(b) ==
  /\ batch[b] \in {"DRAFT", "AWAITING_APPROVAL"}
  /\ batch' = [batch EXCEPT ![b] = "CANCELED"]
  /\ Become(b, "PENDING", "CANCELED")
  /\ UNCHANGED <<companyVars, retryOf, origin, pix, senderVars, check>>

(* A variant: of what was approved, nothing is canceled.                    *)
TurnOffRequests ==
  /\ enabled
  /\ toggles < MaxToggles
  /\ enabled' = FALSE
  /\ toggles' = toggles + 1
  /\ item' = [i \in Payment |->
       IF item[i] = "PENDING" /\ batch[i[1]] = "AWAITING_APPROVAL" THEN "CANCELED" ELSE item[i]]
  /\ batch' = [b \in Batch |->
       IF batch[b] = "AWAITING_APPROVAL" THEN "CANCELED" ELSE batch[b]]
  /\ UNCHANGED <<retryOf, origin, pix, senderVars, check>>

(* Turning the feature off cancels what was requested and is not sent yet. *)
TurnOff ==
  /\ enabled
  /\ toggles < MaxToggles
  /\ enabled' = FALSE
  /\ toggles' = toggles + 1
  /\ item' = [i \in Payment |->
       IF /\ item[i] = "PENDING"
          /\ batch[i[1]] \in {"AWAITING_APPROVAL", "PROCESSING"}
       THEN "CANCELED" ELSE item[i]]
  /\ batch' = [b \in Batch |->
       IF batch[b] = "AWAITING_APPROVAL" THEN "CANCELED" ELSE batch[b]]
  /\ UNCHANGED <<retryOf, origin, pix, senderVars, check>>

TurnOn ==
  /\ ~enabled
  /\ toggles < MaxToggles
  /\ enabled' = TRUE
  /\ toggles' = toggles + 1
  /\ UNCHANGED <<batchVars, item, pix, senderVars, check>>

Company ==
  \/ \E b \in Batch, people \in SUBSET Person : Create(b, people) \/ Update(b, people)
  \/ \E b, new \in Batch, people \in SUBSET Person : RetryFailed(b, new, people)
  \/ \E b \in Batch :
       Request(b) \/ Approve(b) \/ Refuse(b) \/ ReturnToDraft(b) \/ Cancel(b)
  \/ TurnOff
  \/ TurnOn

(***************************************************************************)
(* Sending.  The items to send are read once per run, at most 25; which of *)
(* them comes next is left open, and the claim decides whether it is still *)
(* to be sent.                                                             *)
(***************************************************************************)
Goto(s, to) == stage' = [stage EXCEPT ![s] = to]

Stop(s) ==
  /\ stage' = [stage EXCEPT ![s] = "idle"]
  /\ job' = [job EXCEPT ![s] = None]
  /\ payee' = [payee EXCEPT ![s] = None]
  /\ answer' = [answer EXCEPT ![s] = None]

Target(s) == <<job[s], payee[s]>>

Begin(s, b) ==
  /\ stage[s] = "idle"
  /\ batch[b] = "PROCESSING"
  /\ enabled
  /\ People(b, {"PENDING"}) # {}
  /\ Goto(s, "account")
  /\ job' = [job EXCEPT ![s] = b]
  /\ UNCHANGED <<companyVars, batchVars, item, pix, payee, answer, check>>

(* Another account, an unusable one, or a balance below what is to be sent. *)
FailPending(s) ==
  /\ stage[s] = "account"
  /\ Become(job[s], "PENDING", "FAILED")
  /\ Stop(s)
  /\ UNCHANGED <<companyVars, batchVars, pix, check>>

AccountReady(s) ==
  /\ stage[s] = "account"
  /\ Goto(s, "next")
  /\ UNCHANGED <<companyVars, batchVars, item, pix, job, payee, answer, check>>

(* Turning the feature off between two items stops the next ones. *)
NextItem(s) ==
  /\ stage[s] = "next"
  /\ IF enabled /\ People(job[s], {"PENDING"}) # {}
     THEN /\ \E p \in People(job[s], {"PENDING"}) :
               payee' = [payee EXCEPT ![s] = p]
          /\ Goto(s, "claim")
          /\ UNCHANGED <<job, answer>>
     ELSE Stop(s)
  /\ UNCHANGED <<companyVars, batchVars, item, pix, check>>

(* A variant: the item is taken as it was read, whoever took it since. *)
ClaimAsRead(s) ==
  /\ stage[s] = "claim"
  /\ item' = [item EXCEPT ![Target(s)] = "SENDING"]
  /\ Goto(s, "send")
  /\ UNCHANGED <<companyVars, batchVars, pix, job, payee, answer, check>>

Claim(s) ==
  /\ stage[s] = "claim"
  /\ IF item[Target(s)] = "PENDING"
     THEN /\ item' = [item EXCEPT ![Target(s)] = "SENDING"]
          /\ Goto(s, "send")
          /\ UNCHANGED payee
     ELSE /\ Goto(s, "next")
          /\ payee' = [payee EXCEPT ![s] = None]
          /\ UNCHANGED item
  /\ UNCHANGED <<companyVars, batchVars, pix, job, answer, check>>

(* Efi takes a second request with the same idEnvio for a duplicate. *)
Send(s) ==
  /\ stage[s] = "send"
  /\ Goto(s, "wait")
  /\ IF pix[Target(s)] = "none"
     THEN pix' = [pix EXCEPT ![Target(s)] = "sent"] /\ UNCHANGED answer
     ELSE answer' = [answer EXCEPT ![s] = "UNCERTAIN"] /\ UNCHANGED pix
  /\ UNCHANGED <<companyVars, batchVars, item, job, payee, check>>

(* The call failed in a way that says nothing of what Efi did or will do. *)
TimeOut(s) ==
  /\ stage[s] = "wait"
  /\ answer[s] # "UNCERTAIN"
  /\ answer' = [answer EXCEPT ![s] = "UNCERTAIN"]
  /\ UNCHANGED <<companyVars, batchVars, item, pix, stage, job, payee, check>>

(* A variant: written whatever the item is by now. *)
WriteAnyway(i, from, to) == item' = [item EXCEPT ![i] = to]

(* The result of the call is written only while the item is being sent. *)
Write(i, from, to) ==
  item' = IF item[i] \in from THEN [item EXCEPT ![i] = to] ELSE item

Recorded(outcome) ==
  CASE outcome = "RATE_LIMITED" -> "PENDING"
    [] outcome = "IN_PROCESSING" -> "IN_PROCESSING"
    [] outcome = "PAID" -> "PAID"
    [] outcome = "REFUSED" -> "FAILED"
    [] outcome = "UNCERTAIN" -> "UNCERTAIN"

Record(s) ==
  /\ stage[s] = "wait"
  /\ answer[s] # None
  /\ Write(Target(s), {"SENDING"}, Recorded(answer[s]))
  /\ IF answer[s] = "RATE_LIMITED"
     THEN Stop(s)
     ELSE /\ Goto(s, "next")
          /\ payee' = [payee EXCEPT ![s] = None]
          /\ answer' = [answer EXCEPT ![s] = None]
          /\ UNCHANGED job
  /\ UNCHANGED <<companyVars, batchVars, pix, check>>

(* The process stops; a request already on its way still arrives. *)
Crash(s) ==
  /\ stage[s] # "idle"
  /\ Stop(s)
  /\ UNCHANGED <<companyVars, batchVars, item, pix, check>>

Sending ==
  \E s \in Sender :
    \/ \E b \in Batch : Begin(s, b)
    \/ FailPending(s) \/ AccountReady(s) \/ NextItem(s) \/ Claim(s)
    \/ Send(s) \/ TimeOut(s) \/ Record(s) \/ Crash(s)

(***************************************************************************)
(* Verification: sends whose answer was lost, and late results.            *)
(***************************************************************************)
BeingSent(i) ==
  \E s \in Sender : stage[s] \in {"send", "wait"} /\ Target(s) = i

(* An item in SENDING for longer than SENDING_LOST_AFTER_MS. *)
MarkLost(i) ==
  /\ item[i] = "SENDING"
  /\ SlowAnswers \/ ~BeingSent(i)
  /\ item' = [item EXCEPT ![i] = "UNCERTAIN"]
  /\ UNCHANGED <<companyVars, batchVars, pix, senderVars, check>>

(* A variant: only lost answers are checked, a lost notice never. *)
StartCheckOfUncertain(c, i) ==
  /\ check[c].at = "idle"
  /\ item[i] = "UNCERTAIN"
  /\ check' = [check EXCEPT ![c] =
       [at |-> "ask", of |-> i, was |-> item[i], found |-> None]]
  /\ UNCHANGED <<companyVars, batchVars, item, pix, senderVars>>

StartCheck(c, i) ==
  /\ check[c].at = "idle"
  /\ item[i] \in {"UNCERTAIN", "IN_PROCESSING"}
  /\ check' = [check EXCEPT ![c] =
       [at |-> "ask", of |-> i, was |-> item[i], found |-> None]]
  /\ UNCHANGED <<companyVars, batchVars, item, pix, senderVars>>

(* Not found yet: it stays under verification, never taken as a failure. *)
Ask(c, i) ==
  /\ check[c].at = "ask"
  /\ check[c].of = i
  /\ check' = [check EXCEPT ![c] =
       IF pix[i] \in {"none", "sent"} THEN NoCheck
       ELSE [at |-> "write", of |-> i, was |-> @.was, found |-> pix[i]]]
  /\ UNCHANGED <<companyVars, batchVars, item, pix, senderVars>>

Checked(found) ==
  CASE found = "paid" -> "PAID"
    [] found = "refused" -> "FAILED"
    [] found = "processing" -> "IN_PROCESSING"

WriteCheck(c, i) ==
  /\ check[c].at = "write"
  /\ check[c].of = i
  /\ Write(i, {check[c].was}, Checked(check[c].found))
  /\ check' = [check EXCEPT ![c] = NoCheck]
  /\ UNCHANGED <<companyVars, batchVars, pix, senderVars>>

AbandonCheck(c) ==
  /\ check[c].at # "idle"
  /\ check' = [check EXCEPT ![c] = NoCheck]
  /\ UNCHANGED <<companyVars, batchVars, item, pix, senderVars>>

(* The notice of the result may come at any time after it, and again. *)
NoticePaid(i) ==
  /\ pix[i] = "paid"
  /\ Write(i, InFlight, "PAID")
  /\ UNCHANGED <<companyVars, batchVars, pix, senderVars, check>>

NoticeFailed(i) ==
  /\ pix[i] = "refused"
  /\ Write(i, InFlight, "FAILED")
  /\ UNCHANGED <<companyVars, batchVars, pix, senderVars, check>>

(* A variant: an item under verification does not keep the batch open. *)
CompleteUnverified(b) ==
  /\ batch[b] = "PROCESSING"
  /\ People(b, {"PENDING", "SENDING"}) = {}
  /\ batch' = [batch EXCEPT ![b] =
       IF People(b, {"FAILED", "CANCELED"}) = {}
       THEN "COMPLETED" ELSE "COMPLETED_WITH_FAILURES"]
  /\ UNCHANGED <<companyVars, retryOf, origin, item, pix, senderVars, check>>

(* A batch ends when every item has a known result. *)
Complete(b) ==
  /\ batch[b] = "PROCESSING"
  /\ People(b, {"PENDING"} \cup InFlight) = {}
  /\ batch' = [batch EXCEPT ![b] =
       IF People(b, {"FAILED", "CANCELED"}) = {}
       THEN "COMPLETED" ELSE "COMPLETED_WITH_FAILURES"]
  /\ UNCHANGED <<companyVars, retryOf, origin, item, pix, senderVars, check>>

Verification ==
  \/ \E i \in Payment : MarkLost(i) \/ NoticePaid(i) \/ NoticeFailed(i)
  \/ \E c \in Checker :
       \/ \E i \in Payment : StartCheck(c, i) \/ Ask(c, i) \/ WriteCheck(c, i)
       \/ AbandonCheck(c)
  \/ \E b \in Batch : Complete(b)

(***************************************************************************)
(* Efi. A refusal it books can be asked for later; one it answers with an  *)
(* error, or a request it never got, leaves no trace.                      *)
(***************************************************************************)
Receive(i, becomes, says) ==
  /\ pix[i] = "sent"
  /\ pix' = [pix EXCEPT ![i] = becomes]
  /\ answer' = [s \in Sender |->
       IF stage[s] = "wait" /\ Target(s) = i /\ answer[s] = None
       THEN says ELSE answer[s]]
  /\ UNCHANGED <<companyVars, batchVars, item, stage, job, payee, check>>

Settle(i, result) ==
  /\ pix[i] = "processing"
  /\ pix' = [pix EXCEPT ![i] = result]
  /\ UNCHANGED <<companyVars, batchVars, item, senderVars, check>>

Efi(i) ==
  \/ Receive(i, "processing", "IN_PROCESSING")
  \/ Receive(i, "paid", "PAID")
  \/ Receive(i, "refused", "REFUSED")
  \/ MayVanish /\ \E says \in {"REFUSED", "UNCERTAIN"} : Receive(i, "none", says)
  \/ RateLimits /\ Receive(i, "none", "RATE_LIMITED")
  \/ Settle(i, "paid")
  \/ Settle(i, "refused")

Init ==
  /\ enabled = TRUE
  /\ toggles = 0
  /\ batch = [b \in Batch |-> "ABSENT"]
  /\ retryOf = [b \in Batch |-> None]
  /\ origin = [b \in Batch |-> b]
  /\ item = [i \in Payment |-> "ABSENT"]
  /\ pix = [i \in Payment |-> "none"]
  /\ stage = [s \in Sender |-> "idle"]
  /\ job = [s \in Sender |-> None]
  /\ payee = [s \in Sender |-> None]
  /\ answer = [s \in Sender |-> None]
  /\ check = [c \in Checker |-> NoCheck]

Next == Company \/ Sending \/ Verification \/ \E i \in Payment : Efi(i)

Spec == Init /\ [][Next]_vars

(***************************************************************************)
(* Properties.                                                             *)
(***************************************************************************)
(* Every status is one the schema has, and requests work on real payments. *)
TypeOK ==
  /\ enabled \in BOOLEAN
  /\ toggles \in 0 .. MaxToggles
  /\ batch \in [Batch -> BatchStatus]
  /\ retryOf \in [Batch -> Batch \cup {None}]
  /\ origin \in [Batch -> Batch]
  /\ item \in [Payment -> ItemStatus]
  /\ pix \in [Payment -> PixStatus]
  /\ stage \in [Sender -> {"idle", "account", "next", "claim", "send", "wait"}]
  /\ job \in [Sender -> Batch \cup {None}]
  /\ payee \in [Sender -> Person \cup {None}]
  /\ answer \in [Sender -> Outcome \cup {None}]
  /\ check \in [Checker ->
       {NoCheck} \cup
       [at : {"ask"}, of : Payment, was : {"UNCERTAIN", "IN_PROCESSING"}, found : {None}] \cup
       [at : {"write"}, of : Payment, was : {"UNCERTAIN", "IN_PROCESSING"},
        found : {"processing", "paid", "refused"}]]

(* A person is paid at most once for what one batch set out to pay, however *)
(* often its failures are paid again: of the batches that repeat the same   *)
(* one, at most one holds a Pix to the person that was or may be paid.      *)
PaidOnce ==
  \A b, c \in Batch, p \in Person :
    b # c /\ origin[b] = origin[c] =>
      pix[<<b, p>>] \notin {"sent", "processing", "paid"}
        \/ pix[<<c, p>>] \notin {"sent", "processing", "paid"}

(* A batch that ended tells the truth: an item is paid exactly when Efi     *)
(* paid it, and no Pix of the batch is still on its way.                    *)
CompletionIsTruthful ==
  \A b \in Batch, p \in Person :
    batch[b] \in Completed =>
      /\ item[<<b, p>>] = "PAID" <=> pix[<<b, p>>] = "paid"
      /\ pix[<<b, p>>] \notin {"sent", "processing"}

(* A request goes out for an item only while Efi has nothing of it, and by  *)
(* one sender at a time: overlapping runs and stops never send one again.   *)
NeverSentTwice ==
  \A s \in Sender : stage[s] = "send" =>
    /\ pix[Target(s)] = "none"
    /\ \A t \in Sender \ {s} :
         stage[t] \in {"send", "wait"} => Target(t) # Target(s)

(* Nobody is paid twice, within a batch or by another that repeats it.     *)
SentOnce == NeverSentTwice /\ PaidOnce

(* A paid or failed item never changes again, whichever of the answer, the  *)
(* notice and the check comes last and whatever each of them says.          *)
ResultIsFinal ==
  [][\A i \in Payment : item[i] \in {"PAID", "FAILED"} => item'[i] = item[i]]_vars

(* An approved batch ends, also when answers and every notice are lost: the *)
(* checks find out what became of its payments. Only a send that Efi has no *)
(* trace of keeps it open, under verification.                              *)
BatchEnds ==
  \A b \in Batch : batch[b] = "PROCESSING" ~>
    \/ batch[b] \in Completed
    \/ \E p \in Person : item[<<b, p>>] = "UNCERTAIN" /\ pix[<<b, p>>] = "none"

Unsent(i) == item[i] = "PENDING" /\ batch[i[1]] = "PROCESSING"

(* Turning the feature off cancels the payments not sent yet, and while it  *)
(* is off no other comes to wait, whatever is approved, retried or recorded *)
(* meanwhile: but for a send that was out and that Efi turns away, which is *)
(* put back and goes out when the feature is on again.                      *)
OffLeavesTheTurnedAway ==
  [][\A i \in Payment : ~enabled' /\ Unsent(i)' =>
       \/ ~enabled /\ Unsent(i)
       \/ \E s \in Sender :
            stage[s] = "wait" /\ Target(s) = i /\ answer[s] = "RATE_LIMITED"]_vars
=============================================================================
