-------------------------- MODULE OutboundMessage ---------------------------
(***************************************************************************)
(* The sending of one WhatsApp template message: one logical communication *)
(* (a logicalKey), its attempts (outbound intents, one per generation),    *)
(* the workers that send them, the hold a template refusal leaves and the  *)
(* administrator's reviews that resume or close it.                        *)
(*                                                                         *)
(* Transactions lock the template, the logical key and the intent, so each *)
(* is one step; the answer of the provider, the commit of the result and   *)
(* the hold that follows a refusal are steps of their own. An UNCERTAIN    *)
(* intent whose lastErrorCode is WORKER_LOST_AFTER_CLAIM is in state LOST. *)
(***************************************************************************)
EXTENDS Integers, FiniteSets

CONSTANTS
  Worker,        \* the processes that send messages
  Review,        \* the administrator's reviews
  MaxAttempts,   \* bound: attempts
  MaxRevisions,  \* bound: changes of the template or of what it is filled with
  None           \* no attempt, no worker, no review yet

ASSUME BoundsAssumption == MaxAttempts \in Nat /\ MaxRevisions \in Nat

\* What a review is shown: the version, the action and the revision.
Evaluations == [version : Nat, action : {"KEEP", "CLOSE", "RESUME"}, revision : Nat]

ASSUME NoneAssumption == None \notin Nat /\ None \notin Worker /\ None \notin Evaluations

Attempt == 1 .. MaxAttempts
IntentState == {"ABSENT", "PENDING", "SENDING", "ACCEPTED", "UNCERTAIN", "LOST",
                "FAILED", "BLOCKED"}
\* In flight, or possibly with the recipient.
Live == {"PENDING", "SENDING", "ACCEPTED", "UNCERTAIN", "LOST"}
HoldState == {"NONE", "BLOCKED", "RESUMED", "CLOSED"}
Result == {"WAIT", "FAILED", "TEMPLATE", "UNCERTAIN"}

VARIABLES
  granted,    \* the policy allows the template and its values can be filled in
  revision,   \* changes so far of the template, its grant or its context
  due,        \* the invoice is still to be paid
  made,       \* attempts made
  intent,     \* CommunicationOutboundIntent.state
  pinned,     \* the revision an attempt was prepared with
  owner,      \* leaseToken: the worker that claimed the attempt
  delivered,  \* how often the provider accepted an attempt
  hold,       \* WhatsappTemplatePendingSend.state
  version,    \* WhatsappTemplatePendingSend.version
  cited,      \* WhatsappTemplatePendingSend.currentIntentId
  review,     \* what a review was shown; then Confirmed
  at,         \* a worker's step
  on,         \* the attempt it works on
  found,      \* how its sending failed
  scan        \* the attempt the reconciliation of holds read as pending

policy == <<granted, revision, due>>
intents == <<made, intent, pinned, owner>>
holds == <<hold, version, cited>>
workers == <<at, on, found>>
vars == <<policy, intents, delivered, holds, review, workers, scan>>

Made == 1 .. made

Goto(w, step) == at' = [at EXCEPT ![w] = step] /\ UNCHANGED <<on, found>>
Fail(w, result) ==
  /\ at' = [at EXCEPT ![w] = "record"]
  /\ found' = [found EXCEPT ![w] = result]
  /\ UNCHANGED on
Rest(w) ==
  /\ at' = [at EXCEPT ![w] = "idle"]
  /\ on' = [on EXCEPT ![w] = None]
  /\ found' = [found EXCEPT ![w] = None]

(***************************************************************************)
(* The template, its grant and the data of the message change.             *)
(***************************************************************************)
Change(allows) ==
  /\ revision < MaxRevisions
  /\ revision' = revision + 1
  /\ granted' = allows
  /\ UNCHANGED <<due, intents, delivered, holds, review, workers, scan>>

Settle ==
  /\ due
  /\ due' = FALSE
  /\ UNCHANGED <<granted, revision, intents, delivered, holds, review, workers, scan>>

(***************************************************************************)
(* Holds and preparation, in transactions that lock the logical key.       *)
(***************************************************************************)
Becomes(n, state) == intent' = [intent EXCEPT ![n] = state]

NotSent == {"PENDING", "FAILED", "BLOCKED"}

(* Opens or reopens the hold; only an attempt known not sent is held. The   *)
(* version also grows with the reason of the hold, which is left out.       *)
Block(n) ==
  LET held == n # None /\ intent[n] \in NotSent
      changed == hold # "BLOCKED" \/ (held /\ cited # n) IN
  /\ IF held THEN Becomes(n, "BLOCKED") ELSE UNCHANGED intent
  /\ IF hold # "CLOSED" /\ changed
     THEN /\ hold' = "BLOCKED"
          /\ version' = version + 1
          /\ cited' = IF held THEN n ELSE cited
     ELSE UNCHANGED holds

Reserve ==
  /\ made < MaxAttempts
  /\ made' = made + 1
  /\ Becomes(made + 1, "PENDING")
  /\ pinned' = [pinned EXCEPT ![made + 1] = revision]
  /\ UNCHANGED owner

(* Repeated producers find what exists; only a rejection that never reached *)
(* the provider is prepared again.                                          *)
Renewable == made # 0 => intent[made] = "FAILED"

Prepare ==
  /\ hold = "NONE"
  /\ Renewable
  /\ IF granted
     THEN Reserve /\ UNCHANGED holds
     ELSE Block(None) /\ UNCHANGED <<made, pinned, owner>>
  /\ UNCHANGED <<policy, delivered, review, workers, scan>>

(* Holds what changes made invalid, some time after reading it as pending.  *)
Valid(n) == granted /\ pinned[n] = revision

Scan(n) ==
  /\ scan = None
  /\ intent[n] = "PENDING"
  /\ scan' = n
  /\ UNCHANGED <<policy, intents, delivered, holds, review, workers>>

Reconcile ==
  /\ scan # None
  /\ IF Valid(scan) THEN UNCHANGED <<intent, holds>> ELSE Block(scan)
  /\ scan' = None
  /\ UNCHANGED <<policy, made, pinned, owner, delivered, review, workers>>

(***************************************************************************)
(* Reviews: a preview, then a confirmation that evaluates again.           *)
(***************************************************************************)
LiveStates == {intent[n] : n \in Made} \cap Live

Action ==
  CASE hold # "BLOCKED" -> "KEEP"
    [] hold = "BLOCKED" /\ "ACCEPTED" \in LiveStates -> "CLOSE"
    [] hold = "BLOCKED" /\ "ACCEPTED" \notin LiveStates /\ LiveStates # {} -> "KEEP"
    [] hold = "BLOCKED" /\ LiveStates = {} /\ ~due -> "CLOSE"
    [] hold = "BLOCKED" /\ LiveStates = {} /\ due /\ ~granted -> "KEEP"
    [] OTHER -> "RESUME"

Confirmed == [version |-> 0, action |-> "DONE", revision |-> 0]
Evaluation == [version |-> version, action |-> Action, revision |-> revision]

Preview(r) ==
  /\ hold = "BLOCKED"
  /\ review[r] = None
  /\ Action # "KEEP"
  /\ review' = [review EXCEPT ![r] = Evaluation]
  /\ UNCHANGED <<policy, intents, delivered, holds, workers, scan>>

(* What changed since the preview needs a new review; a review is confirmed *)
(* once.                                                                    *)
Confirm(r) ==
  /\ review[r] = Evaluation
  /\ review' = [review EXCEPT ![r] = Confirmed]
  /\ version' = version + 1
  /\ IF Action = "RESUME"
     THEN Reserve /\ hold' = "RESUMED" /\ cited' = made + 1
     ELSE hold' = "CLOSED" /\ UNCHANGED <<intents, cited>>
  /\ UNCHANGED <<policy, delivered, workers, scan>>

(***************************************************************************)
(* A worker sends a pending attempt.                                       *)
(***************************************************************************)
Start(w, n) ==
  /\ at[w] = "idle"
  /\ intent[n] = "PENDING"
  /\ at' = [at EXCEPT ![w] = "claim"]
  /\ on' = [on EXCEPT ![w] = n]
  /\ UNCHANGED <<policy, intents, delivered, holds, review, found, scan>>

Authorized(n) ==
  /\ Valid(n)
  /\ hold = "NONE" \/ (hold = "RESUMED" /\ cited = n)

Claim(w) ==
  /\ at[w] = "claim"
  /\ IF Authorized(on[w]) /\ intent[on[w]] = "PENDING"
     THEN /\ Becomes(on[w], "SENDING")
          /\ owner' = [owner EXCEPT ![on[w]] = w]
          /\ Goto(w, "validate")
     ELSE /\ IF Authorized(on[w]) THEN Rest(w) ELSE Goto(w, "hold")
          /\ UNCHANGED <<intent, owner>>
  /\ UNCHANGED <<policy, made, pinned, delivered, holds, review, scan>>

(* The channel, the recipient, the invoice, the rates and the capacity.     *)
Validate(w) ==
  /\ at[w] = "validate"
  /\ due
  /\ Goto(w, "transmit")
  /\ UNCHANGED <<policy, intents, delivered, holds, review, scan>>

Refuse(w, result) ==
  /\ at[w] = "validate"
  /\ result \in {"WAIT", "FAILED"}
  /\ Fail(w, result)
  /\ UNCHANGED <<policy, intents, delivered, holds, review, scan>>

(* The provider accepts and says so, accepts unheard, or does not accept:   *)
(* it refuses the message or the template, asks to wait, or is not heard.   *)
Deliver(w, heard) ==
  /\ at[w] = "transmit"
  /\ delivered' = [delivered EXCEPT ![on[w]] = @ + 1]
  /\ IF heard THEN Goto(w, "commit") ELSE Fail(w, "UNCERTAIN")
  /\ UNCHANGED <<policy, intents, holds, review, scan>>

Reject(w, result) ==
  /\ at[w] = "transmit"
  /\ Fail(w, result)
  /\ UNCHANGED <<policy, intents, delivered, holds, review, scan>>

(* The acceptance counts after the lease expired too: an expired lease is   *)
(* never claimed again.                                                     *)
Own(w, n) == intent[n] = "SENDING" /\ owner[n] = w
Proven(w, n) == Own(w, n) \/ intent[n] = "LOST"
Free(n) == owner' = [owner EXCEPT ![n] = None]

Commit(w) ==
  /\ at[w] = "commit"
  /\ IF Proven(w, on[w])
     THEN Becomes(on[w], "ACCEPTED") /\ Free(on[w]) /\ Rest(w)
     ELSE Fail(w, "UNCERTAIN") /\ UNCHANGED <<intent, owner>>
  /\ UNCHANGED <<policy, made, pinned, delivered, holds, review, scan>>

(* Three failures to commit, in a row. *)
CommitFails(w) ==
  /\ at[w] = "commit"
  /\ Fail(w, "UNCERTAIN")
  /\ UNCHANGED <<policy, intents, delivered, holds, review, scan>>

(* Variants: the result as found; a lost answer retried, or called a failure. *)
RecordedAsFound(result) == result
RecordedForRetry(result) == IF result \in {"UNCERTAIN", "WAIT"} THEN "PENDING" ELSE "FAILED"
RecordedAsFailed(result) == IF result = "WAIT" THEN "PENDING" ELSE "FAILED"

Recorded(result) ==
  CASE result = "UNCERTAIN" -> "UNCERTAIN"
    [] result = "WAIT" -> "PENDING"
    [] OTHER -> "FAILED"

(* Written only under the worker's own lease; the write itself may fail. A  *)
(* refused template is then held.                                           *)
Record(w, written) ==
  /\ at[w] = "record"
  /\ IF written /\ Own(w, on[w])
     THEN Becomes(on[w], Recorded(found[w])) /\ Free(on[w])
     ELSE UNCHANGED <<intent, owner>>
  /\ IF found[w] = "TEMPLATE" THEN Goto(w, "hold") ELSE Rest(w)
  /\ UNCHANGED <<policy, made, pinned, delivered, holds, review, scan>>

Hold(w) ==
  /\ at[w] = "hold"
  /\ Block(on[w])
  /\ Rest(w)
  /\ UNCHANGED <<policy, made, pinned, owner, delivered, review, scan>>

Crash(w) ==
  /\ at[w] # "idle"
  /\ Rest(w)
  /\ UNCHANGED <<policy, intents, delivered, holds, review, scan>>

(* A variant: only a worker that still works gives up its lease.            *)
ExpireOfWorking(n) ==
  /\ intent[n] = "SENDING"
  /\ at[owner[n]] # "idle"
  /\ Becomes(n, "LOST")
  /\ Free(n)
  /\ UNCHANGED <<policy, made, pinned, delivered, holds, review, workers, scan>>

(* The lease runs out, whether or not its worker still works. *)
ExpireLease(n) ==
  /\ intent[n] = "SENDING"
  /\ Becomes(n, "LOST")
  /\ Free(n)
  /\ UNCHANGED <<policy, made, pinned, delivered, holds, review, workers, scan>>

Init ==
  /\ granted \in BOOLEAN /\ revision = 0 /\ due = TRUE
  /\ made = 0
  /\ intent = [n \in Attempt |-> "ABSENT"]
  /\ pinned = [n \in Attempt |-> 0]
  /\ owner = [n \in Attempt |-> None]
  /\ delivered = [n \in Attempt |-> 0]
  /\ hold = "NONE" /\ version = 0 /\ cited = None
  /\ review = [r \in Review |-> None]
  /\ at = [w \in Worker |-> "idle"]
  /\ on = [w \in Worker |-> None]
  /\ found = [w \in Worker |-> None]
  /\ scan = None

Sending(w) ==
  \/ \E n \in Attempt : Start(w, n)
  \/ Claim(w) \/ Validate(w) \/ Commit(w) \/ CommitFails(w) \/ Hold(w) \/ Crash(w)
  \/ \E heard \in BOOLEAN : Deliver(w, heard)
  \/ \E result \in Result : Refuse(w, result) \/ Reject(w, result)
  \/ \E written \in BOOLEAN : Record(w, written)

Next ==
  \/ Prepare \/ Settle
  \/ \E allows \in BOOLEAN : Change(allows)
  \/ Reconcile \/ \E n \in Attempt : Scan(n) \/ ExpireLease(n)
  \/ \E r \in Review : Preview(r) \/ Confirm(r)
  \/ \E w \in Worker : Sending(w)

Spec == Init /\ [][Next]_vars

(* The queue and the recovery offer what is pending until it is sent;       *)
(* limits and pauses end; leases expire.                                    *)
Fairness ==
  /\ \A n \in Attempt : WF_vars(ExpireLease(n)) /\ SF_vars(\E w \in Worker : Start(w, n))
  /\ SF_vars(\E w \in Worker : Claim(w))
  /\ SF_vars(\E w \in Worker : Validate(w) \/ Refuse(w, "FAILED"))
  /\ SF_vars(\E w \in Worker : Deliver(w, TRUE) \/ \E result \in Result \ {"WAIT"} : Reject(w, result))
  /\ SF_vars(\E w \in Worker : Record(w, TRUE) \/ Record(w, FALSE))
  /\ SF_vars(\E w \in Worker : Hold(w))

LiveSpec == Spec /\ Fairness

(***************************************************************************)
(* Properties.                                                             *)
(***************************************************************************)
(* Every state is one the schema has, and references are to real rows.      *)
TypeOK ==
  /\ granted \in BOOLEAN /\ revision \in 0 .. MaxRevisions /\ due \in BOOLEAN
  /\ made \in 0 .. MaxAttempts
  /\ intent \in [Attempt -> IntentState]
  /\ pinned \in [Attempt -> 0 .. MaxRevisions]
  /\ owner \in [Attempt -> Worker \cup {None}]
  /\ delivered \in [Attempt -> Nat]
  /\ hold \in HoldState /\ version \in Nat /\ cited \in Attempt \cup {None}
  /\ review \in [Review -> Evaluations \cup {Confirmed, None}]
  /\ at \in [Worker -> {"idle", "claim", "validate", "transmit", "commit", "record", "hold"}]
  /\ on \in [Worker -> Attempt \cup {None}]
  /\ found \in [Worker -> Result \cup {None}]
  /\ scan \in Attempt \cup {None}

(* A retry can never produce a second transmission: whatever is lost, held, *)
(* resumed or renewed, the recipient gets the message at most once, and     *)
(* while one generation is pending, being sent, accepted or uncertain,      *)
(* there is no other.                                                       *)
SentOnce ==
  \A n, m \in Attempt :
    /\ delivered[n] <= 1
    /\ delivered[n] = 1 /\ delivered[m] = 1 => n = m
    /\ intent[n] \in Live /\ intent[m] \in Live => n = m

(* What is called failed, blocked or pending did not reach the provider,    *)
(* what is called accepted did, and a closed communication has nothing in   *)
(* flight or unclear. A worker that holds the provider's acceptance can     *)
(* still record it, however late: no expired lease takes that away.         *)
StatesAreTrue ==
  /\ \A n \in Attempt :
       /\ intent[n] \in NotSent => delivered[n] = 0
       /\ intent[n] = "ACCEPTED" => delivered[n] = 1
  /\ \A w \in Worker : at[w] = "commit" => Proven(w, on[w])
  /\ hold = "CLOSED" => LiveStates \subseteq {"ACCEPTED"}

(* What is prepared is sent, refused, held or left for triage in the end.   *)
Settles == <>[] \A n \in Attempt : intent[n] \notin {"PENDING", "SENDING"}
=============================================================================
