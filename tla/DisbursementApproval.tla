------------------------ MODULE DisbursementApproval ------------------------
(***************************************************************************)
(* The approval of collaborator payments: the company asks, the approver   *)
(* taps a button of the WhatsApp message, the worker reads the taps and    *)
(* decides, and what nobody answered expires at the end of the day.        *)
(*                                                                         *)
(* A request (DisbursementApproval row) is numbered in the order of        *)
(* creation. Every transaction locks the company and then the batch, so it *)
(* is one step; reading the taps and deciding are two. What is sent after  *)
(* the approval is DisbursementSending's subject: here a batch is done     *)
(* when it is PROCESSING. SCHEDULED is part of "DRAFT".                    *)
(***************************************************************************)
EXTENDS ApprovalBounds, Integers, Sequences, FiniteSets

CONSTANTS
  Batch,        \* the company's batches
  Content,      \* what a batch may pay: reference, account, people, amounts
  Approver,     \* the phones an admin may configure
  None          \* no request

Request == 1 .. MaxRequests
BatchStatus == {"DRAFT", "AWAITING_APPROVAL", "PROCESSING", "REJECTED", "EXPIRED",
                "CANCELED"}
ApprovalState == {"ABSENT", "AWAITING", "APPROVED", "REJECTED", "EXPIRED",
                  "INVALIDATED", "HELD"}
\* Until 23:59 of the day asked, within the grace after it, or beyond.
Day == {"open", "passed", "overdue"}

VARIABLES
  enabled,    \* the current DisbursementSettings.enabled
  approver,   \* the current DisbursementSettings.approverPhone
  changes,    \* times the settings, or what a batch pays, changed
  batch,      \* DisbursementBatch.status
  content,    \* what the batch pays now
  current,    \* the request numbered DisbursementBatch.approvalRequests
  asked,      \* number of requests made
  state,      \* DisbursementApproval.state
  of,         \* DisbursementApproval.batchId
  shown,      \* what its message lists; contentHash stands for it
  to,         \* the phone it was sent to
  linked,     \* DisbursementApproval.intentId is set
  day,        \* where its day stands
  sender,     \* how far request() got: "prepare", "link", "dispatch", "done"
  message,    \* the WhatsApp message: "none", "prepared", "delivered", "refused"
  taps,       \* the taps on the buttons, in the order of their timestamps
  worker      \* the tick: its step, what is left of the pass, the tap it read

settings == <<enabled, approver, changes>>
batches == <<batch, content, current>>
requests == <<asked, state, of, shown, to, linked, day>>
delivery == <<sender, message>>
vars == <<settings, batches, requests, delivery, taps, worker>>

Awaiting == {r \in Request : state[r] = "AWAITING"}

(***************************************************************************)
(* Operations on a request, inside the transactions that use them.         *)
(***************************************************************************)
(* A variant: the batch stays as it was.                                    *)
LockNothing(b, status) == batch' = [batch EXCEPT ![b] = None]

Lock(b, status) == batch' = [batch EXCEPT ![b] = status]

(* Ends the given requests still awaiting. *)
End(rs, becomes) ==
  state' = [r \in Request |->
    IF r \in rs /\ state[r] = "AWAITING" THEN becomes ELSE state[r]]

(* The batch moves only if this is still its current request. *)
Close(r, becomes, status) ==
  /\ End({r}, becomes)
  /\ batch' = [b \in Batch |->
       IF /\ b = of[r] /\ state[r] = "AWAITING"
          /\ batch[b] = "AWAITING_APPROVAL" /\ current[b] = r
       THEN status ELSE batch[b]]

(* Current request, unchanged batch, feature on and the same approver. *)
StillAsRequested(r) ==
  /\ batch[of[r]] = "AWAITING_APPROVAL"
  /\ current[of[r]] = r
  /\ content[of[r]] = shown[r]
  /\ enabled
  /\ approver = to[r]

(***************************************************************************)
(* The company and the admin.                                              *)
(***************************************************************************)
Update(b, c) ==
  /\ batch[b] = "DRAFT"
  /\ changes < MaxChanges
  /\ c # content[b]
  /\ changes' = changes + 1
  /\ content' = [content EXCEPT ![b] = c]
  /\ UNCHANGED <<enabled, approver, batch, current, requests, delivery, taps, worker>>

Ask(b) ==
  /\ enabled
  /\ batch[b] = "DRAFT"
  /\ asked < MaxRequests
  /\ LET r == asked + 1 IN
     /\ asked' = r
     /\ state' = [state EXCEPT ![r] = "AWAITING"]
     /\ of' = [of EXCEPT ![r] = b]
     /\ shown' = [shown EXCEPT ![r] = content[b]]
     /\ to' = [to EXCEPT ![r] = approver]
     /\ sender' = [sender EXCEPT ![r] = "prepare"]
     /\ current' = [current EXCEPT ![b] = r]
  /\ Lock(b, "AWAITING_APPROVAL")
  /\ UNCHANGED <<settings, content, linked, day, message, taps, worker>>

(* A variant: the request is left open.                                     *)
CancelBatchOnly(b) ==
  /\ batch[b] \in {"DRAFT", "AWAITING_APPROVAL"}
  /\ Lock(b, "CANCELED")
  /\ UNCHANGED <<settings, content, current, requests, delivery, taps, worker>>

Cancel(b) ==
  /\ batch[b] \in {"DRAFT", "AWAITING_APPROVAL"}
  /\ Lock(b, "CANCELED")
  /\ End({r \in Request : of[r] = b}, "INVALIDATED")
  /\ UNCHANGED <<settings, content, current, asked, of, shown, to, linked, day, delivery, taps, worker>>

(* Switched off, what awaits is canceled; with another approver, it goes    *)
(* back to draft: a request to the previous one can authorize nothing.      *)
Configure(on, who) ==
  /\ changes < MaxChanges
  /\ <<on, who>> # <<enabled, approver>>
  /\ changes' = changes + 1
  /\ enabled' = on
  /\ approver' = who
  /\ IF on /\ who = approver
     THEN UNCHANGED <<batch, state>>
     ELSE /\ End(Request, "INVALIDATED")
          /\ batch' = [b \in Batch |->
               IF batch[b] = "AWAITING_APPROVAL"
               THEN IF on THEN "DRAFT" ELSE "CANCELED"
               ELSE batch[b]]
  /\ UNCHANGED <<content, current, asked, of, shown, to, linked, day, delivery, taps, worker>>

Company ==
  \/ \E b \in Batch : Ask(b) \/ Cancel(b) \/ \E c \in Content : Update(b, c)
  \/ \E on \in BOOLEAN, who \in Approver : Configure(on, who)

(***************************************************************************)
(* Sending the request. The process may stop between the steps: no step is *)
(* bound to be followed by the next.                                       *)
(***************************************************************************)
Prepare(r) ==
  /\ sender[r] = "prepare"
  /\ sender' = [sender EXCEPT ![r] = "link"]
  /\ message' = [message EXCEPT ![r] = "prepared"]
  /\ UNCHANGED <<settings, batches, requests, taps, worker>>

(* The template is held: the request returns to draft. *)
PrepareBlocked(r) ==
  /\ sender[r] = "prepare"
  /\ sender' = [sender EXCEPT ![r] = "done"]
  /\ Close(r, "HELD", "DRAFT")
  /\ UNCHANGED <<settings, content, current, asked, of, shown, to, linked, day, message, taps, worker>>

(* The message may go out before it is linked, but nobody reads and answers *)
(* it within that one write: what was answered first is never linked.       *)
Link(r) ==
  /\ sender[r] = "link"
  /\ \A k \in DOMAIN taps : taps[k].on # r
  /\ sender' = [sender EXCEPT ![r] = "dispatch"]
  /\ linked' = [linked EXCEPT ![r] = TRUE]
  /\ UNCHANGED <<settings, batches, asked, state, of, shown, to, day, message, taps, worker>>

(* Only a message known not to have gone out takes the request back.       *)
Dispatch(r, refused) ==
  /\ sender[r] = "dispatch"
  /\ sender' = [sender EXCEPT ![r] = "done"]
  /\ IF refused
     THEN /\ message[r] = "prepared"
          /\ message' = [message EXCEPT ![r] = "refused"]
          /\ Close(r, "HELD", "DRAFT")
     ELSE UNCHANGED <<state, batch, message>>
  /\ UNCHANGED <<settings, content, current, asked, of, shown, to, linked, day, taps, worker>>

(* By the dispatch or by the recovery of prepared messages. *)
Deliver(r) ==
  /\ message[r] = "prepared"
  /\ message' = [message EXCEPT ![r] = "delivered"]
  /\ UNCHANGED <<settings, batches, requests, sender, taps, worker>>

Asking ==
  \E r \in Request :
    \/ Prepare(r) \/ PrepareBlocked(r) \/ Link(r) \/ Deliver(r)
    \/ \E refused \in BOOLEAN : Dispatch(r, refused)

(***************************************************************************)
(* Time, the approver and the webhook that stores the taps.                *)
(***************************************************************************)
Tap(r, who, answer) ==
  /\ message[r] = "delivered"
  /\ Len(taps) < MaxTaps
  /\ taps' = Append(taps, [on |-> r, by |-> who, says |-> answer,
                           inTime |-> day[r] = "open", stored |-> "no"])
  /\ UNCHANGED <<settings, batches, requests, delivery, worker>>

(* Stored in any order, whenever the provider delivers the message.         *)
Store(k) ==
  /\ taps[k].stored = "no"
  /\ taps' = [taps EXCEPT ![k].stored = IF day[taps[k].on] = "open" THEN "early" ELSE "late"]
  /\ UNCHANGED <<settings, batches, requests, delivery, worker>>

(* The clock of a request matters while it awaits. *)
DayEnds(r) ==
  /\ state[r] = "AWAITING"
  /\ day[r] = "open"
  /\ day' = [day EXCEPT ![r] = "passed"]
  /\ UNCHANGED <<settings, batches, asked, state, of, shown, to, linked, delivery, taps, worker>>

(* A tick may be under way since before the day ended: it sends and checks  *)
(* between its decisions and its deadlines.                                 *)
GraceEnds(r) ==
  /\ state[r] = "AWAITING"
  /\ day[r] = "passed"
  /\ day' = [day EXCEPT ![r] = "overdue"]
  /\ UNCHANGED <<settings, batches, asked, state, of, shown, to, linked, delivery, taps, worker>>

Outside ==
  \/ \E r \in Request, who \in Approver, answer \in {"approve", "reject"} : Tap(r, who, answer)
  \/ \E k \in DOMAIN taps : Store(k)
  \/ \E r \in Request : DayEnds(r) \/ GraceEnds(r)

(***************************************************************************)
(* The worker's tick: decide what was answered, send, expire what was not. *)
(***************************************************************************)
Idle == [at |-> "idle", todo |-> {}, on |-> None, tap |-> None]

(* A variant: any answer to the message counts, whoever gave it.            *)
ValidTapOfAnyone(r, k) ==
  /\ taps[k].stored # "no"
  /\ taps[k].on = r
  /\ taps[k].inTime
  /\ linked[r]

(* Taps stored that cite the request's message, from the phone it went to,  *)
(* made before its day ended.                                               *)
ValidTap(r, k) ==
  /\ taps[k].stored # "no"
  /\ taps[k].on = r
  /\ taps[k].by = to[r]
  /\ taps[k].inTime
  /\ linked[r]

Answers(r) == {k \in DOMAIN taps : ValidTap(r, k)}
First(S) == CHOOSE k \in S : \A j \in S : k <= j

(* The oldest requests that a reply can cite. *)
Answerable == {r \in Awaiting : linked[r]}
OldestPage == {r \in Answerable : Cardinality({q \in Answerable : q < r}) < PageSize}

(* A variant: only what nobody tapped.                                      *)
OverdueUntapped(r) ==
  /\ state[r] = "AWAITING" /\ day[r] = "overdue"
  /\ \A k \in DOMAIN taps : taps[k].on # r

Overdue(r) == state[r] = "AWAITING" /\ day[r] = "overdue"

StartTick ==
  /\ worker.at = "idle"
  /\ worker' = [Idle EXCEPT !.at = "decide", !.todo = OldestPage]
  /\ UNCHANGED <<settings, batches, requests, delivery, taps>>

(* The oldest of the page next: what answers it, if anything does yet. *)
ReadTaps(r) ==
  /\ worker.at = "decide"
  /\ r \in worker.todo
  /\ \A q \in worker.todo : r <= q
  /\ worker' = IF Answers(r) = {} \/ state[r] # "AWAITING"
               THEN [worker EXCEPT !.todo = @ \ {r}]
               ELSE [worker EXCEPT !.at = "apply", !.on = r, !.tap = First(Answers(r))]
  /\ UNCHANGED <<settings, batches, requests, delivery, taps>>

Decided == worker' = [worker EXCEPT !.at = "decide", !.todo = @ \ {worker.on},
                                    !.on = None, !.tap = None]

(* A request that no longer holds authorizes nothing. *)
Decide ==
  /\ worker.at = "apply"
  /\ LET r == worker.on
         approves == taps[worker.tap].says = "approve" IN
     IF state[r] # "AWAITING" THEN UNCHANGED <<state, batch>>
     ELSE IF ~StillAsRequested(r) THEN Close(r, "INVALIDATED", "DRAFT")
     ELSE /\ End({r}, IF approves THEN "APPROVED" ELSE "REJECTED")
          /\ Lock(of[r], IF approves THEN "PROCESSING" ELSE "REJECTED")
  /\ Decided
  /\ UNCHANGED <<settings, content, current, asked, of, shown, to, linked, day, delivery, taps>>

(* One request that cannot be decided now does not stop the pass. *)
DecideFails ==
  /\ worker.at = "apply"
  /\ Decided
  /\ UNCHANGED <<settings, batches, requests, delivery, taps>>

(* After the sends, the checks and the completions of the same tick. *)
StartExpiring ==
  /\ worker.at = "decide"
  /\ worker.todo = {}
  /\ worker' = [worker EXCEPT !.at = "expire", !.todo = {r \in Request : Overdue(r)}]
  /\ UNCHANGED <<settings, batches, requests, delivery, taps>>

Expire(r) ==
  /\ worker.at = "expire"
  /\ r \in worker.todo
  /\ Close(r, "EXPIRED", "EXPIRED")
  /\ worker' = [worker EXCEPT !.todo = @ \ {r}]
  /\ UNCHANGED <<settings, content, current, asked, of, shown, to, linked, day, delivery, taps>>

(* Requests whose message was never prepared return to draft. *)
ReleaseUnsent(r) ==
  /\ state[r] = "AWAITING"
  /\ ~linked[r]
  /\ Close(r, "HELD", "DRAFT")
  /\ UNCHANGED <<settings, content, current, asked, of, shown, to, linked, day, delivery, taps, worker>>

(* The pass ends, fails, or the process stops; the next tick starts over. *)
EndTick ==
  /\ worker.at # "idle"
  /\ worker' = Idle
  /\ UNCHANGED <<settings, batches, requests, delivery, taps>>

Worker ==
  \/ StartTick \/ Decide \/ DecideFails \/ StartExpiring \/ EndTick
  \/ \E r \in Request : ReadTaps(r) \/ Expire(r) \/ ReleaseUnsent(r)

Init ==
  /\ enabled = TRUE
  /\ approver \in Approver
  /\ changes = 0
  /\ batch = [b \in Batch |-> "DRAFT"]
  /\ content \in [Batch -> Content]
  /\ current = [b \in Batch |-> None]
  /\ asked = 0
  /\ state = [r \in Request |-> "ABSENT"]
  /\ of = [r \in Request |-> None]
  /\ shown = [r \in Request |-> None]
  /\ to = [r \in Request |-> None]
  /\ linked = [r \in Request |-> FALSE]
  /\ day = [r \in Request |-> "open"]
  /\ sender = [r \in Request |-> "none"]
  /\ message = [r \in Request |-> "none"]
  /\ taps = << >>
  /\ worker = Idle

Next == Company \/ Asking \/ Outside \/ Worker

Spec == Init /\ [][Next]_vars

(***************************************************************************)
(* Properties.                                                             *)
(***************************************************************************)
(* Every status is one the schema has, and references are to real rows.     *)
TypeOK ==
  /\ enabled \in BOOLEAN /\ approver \in Approver /\ changes \in 0 .. MaxChanges
  /\ batch \in [Batch -> BatchStatus]
  /\ content \in [Batch -> Content]
  /\ current \in [Batch -> Request \cup {None}]
  /\ asked \in 0 .. MaxRequests
  /\ state \in [Request -> ApprovalState]
  /\ of \in [Request -> Batch \cup {None}]
  /\ shown \in [Request -> Content \cup {None}]
  /\ to \in [Request -> Approver \cup {None}]
  /\ linked \in [Request -> BOOLEAN]
  /\ day \in [Request -> Day]
  /\ sender \in [Request -> {"none", "prepare", "link", "dispatch", "done"}]
  /\ message \in [Request -> {"none", "prepared", "delivered", "refused"}]
  /\ taps \in Seq([on : Request, by : Approver, says : {"approve", "reject"},
                   inTime : BOOLEAN, stored : {"no", "early", "late"}])
  /\ worker \in [at : {"idle", "decide", "apply", "expire"}, todo : SUBSET Request,
                 on : Request \cup {None}, tap : Nat \cup {None}]

(* Money leaves only for what its approver saw: a batch is released by a    *)
(* tap in time on its latest request, from the phone the request went to,   *)
(* which is still the approver's, while the feature is on, and pays exactly *)
(* what that request's message listed.                                      *)
OnlyAuthorizedIsPaid ==
  [][\A b \in Batch : batch[b] # "PROCESSING" /\ batch'[b] = "PROCESSING" =>
       /\ enabled
       /\ \E k \in DOMAIN taps :
            /\ taps[k].says = "approve" /\ taps[k].inTime
            /\ taps[k].by = approver
            /\ of[taps[k].on] = b
            /\ \A r \in 1 .. asked : of[r] = b => r <= taps[k].on
            /\ shown[taps[k].on] = content[b]]_vars

(* A batch awaits approval exactly while one request of it does, and that   *)
(* is its current one: none is left open for a batch that moved on, none    *)
(* closed under a batch that still waits.                                   *)
OneOpenRequest ==
  /\ \A r \in Awaiting : batch[of[r]] = "AWAITING_APPROVAL" /\ current[of[r]] = r
  /\ \A b \in Batch : batch[b] = "AWAITING_APPROVAL" => current[b] \in Awaiting

(* "A tap that arrived in time is never expired": no request expires that   *)
(* its approver had answered, and the answer was stored, before its day     *)
(* ended. The tick decides first and expires last, but calls Efi between    *)
(* the two, for longer than the grace if Efi is slow.                       *)
TapInTime ==
  \A r \in Request : state[r] = "EXPIRED" =>
    ~\E k \in DOMAIN taps : ValidTap(r, k) /\ taps[k].stored = "early"

(* A request is answered, returned, canceled or expired in the end.         *)
RequestEnds == \A r \in Request : state[r] = "AWAITING" ~> state[r] # "AWAITING"
=============================================================================
