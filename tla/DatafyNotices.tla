--------------------------- MODULE DatafyNotices ----------------------------
(***************************************************************************)
(* What Datafy tells of one message that was sent and of one that came     *)
(* back. A delivery is stored as it is, claimed under a lease by a worker  *)
(* and applied in one transaction, with a few attempts before a person has *)
(* to look at it. Deliveries come late, twice and in any order, a status   *)
(* maybe before the message has the identifier it speaks of.               *)
(***************************************************************************)
EXTENDS NoticeBounds

CONSTANTS
  Worker,
  None

VARIABLES
  story,     \* what became of it
  row,       \* CommunicationWebhookDelivery
  at,        \* what each worker does: the delivery it has, and how far it is
  event,     \* CommunicationMessageStatusEvent: WAITING or its resolutionCode, per event
  past,      \* events that waited past their retention
  message,   \* CommunicationMessage sent: known by its identifier, its status and since when
  came,      \* the message that came is recorded
  inbox,     \* unreadCount of its conversation
  troubles

rowVars == <<row, at>>
effectVars == <<event, message, came, inbox>>
vars == <<story, rowVars, event, past, message, came, inbox, troubles>>

Status == DOMAIN story  \* the status events, in the order in which they happened
Came == 0               \* the event of a message that came
Idle == [does |-> "nothing"]
Rank(status) ==
  CASE status = "sent" -> 1 [] status = "delivered" -> 2 [] status = "read" -> 3 [] OTHER -> 0

Init ==
  /\ story \in Story
  /\ row = [d \in Delivery |-> [state |-> "NONE"]]
  /\ at = [w \in Worker |-> Idle]
  /\ event = [e \in Status |-> "NONE"]
  /\ past = {} /\ came = FALSE /\ inbox = 0
  /\ message = [known |-> FALSE, status |-> "sending", since |-> 0]
  /\ troubles = 0

Trouble == troubles < MaxTroubles /\ troubles' = troubles + 1

(***************************************************************************)
(* A delivery is stored, once for its identifier.                          *)
(***************************************************************************)
Receive(d) ==
  /\ row[d].state = "NONE"
  /\ row' = [row EXCEPT ![d] =
       [state |-> "PENDING", tries |-> 0, owner |-> None, leased |-> FALSE,
        review |-> FALSE, replayed |-> FALSE, payload |-> TRUE]]
  /\ UNCHANGED <<story, at, effectVars, past, troubles>>

(* The message is accepted: until then no status finds it.                  *)
Accept ==
  /\ ~message.known
  /\ message' = [message EXCEPT !.known = TRUE, !.status = "accepted"]
  /\ UNCHANGED <<story, rowVars, event, came, inbox, past, troubles>>

(***************************************************************************)
(* The effects of an event, inside the transaction of its delivery.        *)
(***************************************************************************)
(* A variant: the last event to come is the status.                         *)
StaleNever(m, e) == FALSE

(* Times are whole seconds: within one, the rank of the statuses decides.    *)
Stale(m, e) ==
  \/ story[e].second < m.since
  \/ IF story[e].status = "failed" THEN Rank(m.status) >= 2
     ELSE Rank(story[e].status) < Rank(m.status)

(* A status that finds its message is applied or stale; one that does not   *)
(* waits until its retention ends.                                          *)
Resolved(m, e) ==
  IF ~m.known THEN IF e \in past THEN "CONTEXT_NOT_FOUND" ELSE "WAITING"
  ELSE IF Stale(m, e) THEN "STALE" ELSE "APPLIED"

Applied(m, e) ==
  IF m.known /\ ~Stale(m, e)
  THEN [m EXCEPT !.status = story[e].status, !.since = story[e].second] ELSE m

(* A replay looks again at what had found no message.                       *)
Open(e, again) ==
  event[e] \in {"NONE", "WAITING"} \/ (again /\ event[e] = "CONTEXT_NOT_FOUND")

Todo(es, again) == {n \in DOMAIN es : es[n] \in Status /\ Open(es[n], again)}

(* The message after each of the events es, in the order of the delivery.   *)
After(es, todo) ==
  LET after[n \in 0 .. Len(es)] ==
        IF n = 0 THEN message
        ELSE IF n \in todo THEN Applied(after[n - 1], es[n]) ELSE after[n - 1]
  IN after

StatusEffects(es, again) ==
  LET todo == Todo(es, again)
      after == After(es, todo)
      place(e) == CHOOSE n \in todo : es[n] = e
  IN /\ message' = after[Len(es)]
     /\ event' = [e \in Status |->
          IF \E n \in todo : es[n] = e THEN Resolved(after[place(e) - 1], e) ELSE event[e]]

(* A variant: what was inserted is not looked at.                           *)
CountAlways(found) ==
  /\ came' = TRUE
  /\ inbox' = IF found THEN inbox ELSE inbox + 1

(* A message that was not found is inserted, unless another transaction did *)
(* so since, and counts as unread if it was inserted.                       *)
Count(found) ==
  /\ came' = TRUE
  /\ inbox' = IF found \/ came THEN inbox ELSE inbox + 1

Brings(d) == \E n \in DOMAIN Carries[d] : Carries[d][n] = Came

Effects(d, found) ==
  /\ StatusEffects(Carries[d], row[d].replayed)
  /\ IF Brings(d) THEN Count(found) ELSE UNCHANGED <<came, inbox>>

(***************************************************************************)
(* A worker on a delivery.                                                 *)
(***************************************************************************)
Claimable(d) ==
  /\ row[d].state \in {"PENDING", "PROCESSING"} /\ row[d].payload
  /\ row[d].tries < MaxTries
  /\ row[d].state = "PROCESSING" => ~row[d].leased

(* The row of a delivery whose transaction is open.                         *)
Locked(d) == \E w \in Worker : at[w].does = "write" /\ at[w].of = d

Claim(w, d) ==
  /\ at[w] = Idle /\ Claimable(d) /\ ~Locked(d)
  /\ row' = [row EXCEPT ![d] =
       [@ EXCEPT !.state = "PROCESSING", !.owner = w, !.leased = TRUE, !.tries = row[d].tries + 1]]
  /\ at' = [at EXCEPT ![w] = [does |-> "apply", of |-> d]]
  /\ UNCHANGED <<story, effectVars, past, troubles>>

Owns(w, d) == row[d].state = "PROCESSING" /\ row[d].owner = w

(* The transaction begins, only while the lease lasts, and looks whether    *)
(* the message that came is there.                                          *)
Begin(w) ==
  LET d == at[w].of
  IN /\ at[w].does = "apply"
     /\ at' = [at EXCEPT ![w] =
          IF Owns(w, d) /\ row[d].leased THEN [does |-> "write", of |-> d, found |-> came] ELSE Idle]
     /\ UNCHANGED <<story, row, effectVars, past, troubles>>

Apply(w) ==
  LET d == at[w].of
  IN /\ at[w].does = "write"
     /\ Effects(d, at[w].found)
     /\ row' = [row EXCEPT ![d] =
          [@ EXCEPT !.state = "PROCESSED", !.owner = None, !.leased = FALSE,
                    !.review = \E n \in DOMAIN Carries[d] :
                      Carries[d][n] \in Status /\ event'[Carries[d][n]] = "CONTEXT_NOT_FOUND"]]
     /\ at' = [at EXCEPT ![w] = Idle]
     /\ UNCHANGED <<story, past, troubles>>

(* It is rolled back, and the row is put back by whoever still owns it.     *)
ApplyFails(w) ==
  /\ at[w].does \in {"apply", "write"} /\ Trouble
  /\ at' = [at EXCEPT ![w] = [does |-> "putBack", of |-> at[w].of]]
  /\ UNCHANGED <<story, row, effectVars, past>>

PutBack(w) ==
  LET d == at[w].of
      over == row[d].tries >= MaxTries
  IN /\ at[w].does = "putBack"
     /\ row' = IF Owns(w, d)
               THEN [row EXCEPT ![d] =
                      [@ EXCEPT !.state = IF over THEN "FAILED" ELSE "PENDING", !.owner = None,
                                !.leased = FALSE, !.review = over]]
               ELSE row
     /\ at' = [at EXCEPT ![w] = Idle]
     /\ UNCHANGED <<story, effectVars, past, troubles>>

Stop(w) ==
  /\ at[w] # Idle /\ Trouble
  /\ at' = [at EXCEPT ![w] = Idle]
  /\ UNCHANGED <<story, row, effectVars, past>>

(***************************************************************************)
(* The sweep of every half minute, the administrator, and time.            *)
(***************************************************************************)
(* A variant: only pending rows are given up.                               *)
ExhaustedPending(d) ==
  row[d].state = "PENDING" /\ row[d].tries >= MaxTries

Exhausted(d) ==
  /\ row[d].state \in {"PENDING", "PROCESSING"} /\ row[d].tries >= MaxTries
  /\ row[d].state = "PROCESSING" => ~row[d].leased

GiveUp(d) ==
  /\ Exhausted(d) /\ ~Locked(d)
  /\ row' = [row EXCEPT ![d] =
       [@ EXCEPT !.state = "FAILED", !.owner = None, !.leased = FALSE, !.review = TRUE]]
  /\ UNCHANGED <<story, at, effectVars, past, troubles>>

Carriers(e) ==
  {d \in Delivery : row[d].state # "NONE" /\ \E n \in DOMAIN Carries[d] : Carries[d][n] = e}

(* A waiting event is looked at again: it waits on, finds its message, or    *)
(* after its retention marks its delivery for review.                       *)
Reconcile(e) ==
  /\ event[e] = "WAITING" /\ (message.known \/ e \in past)
  /\ StatusEffects(<<e>>, FALSE)
  /\ \E d \in Carriers(e) :
       /\ ~Locked(d)
       /\ row' = [row EXCEPT ![d].review = @ \/ event'[e] = "CONTEXT_NOT_FOUND"]
  /\ UNCHANGED <<story, at, came, inbox, past, troubles>>

(* Some time after it was processed.                                        *)
Purge(d) ==
  /\ row[d].state = "PROCESSED" /\ ~row[d].review /\ row[d].payload
  /\ \A n \in DOMAIN Carries[d] : Carries[d][n] \in Status => event[Carries[d][n]] # "WAITING"
  /\ row' = [row EXCEPT ![d] = [@ EXCEPT !.payload = FALSE]]
  /\ UNCHANGED <<story, at, effectVars, past, troubles>>

Replay(d) ==
  /\ Trouble
  /\ row[d].state # "NONE" /\ row[d].payload
  /\ row[d].state = "FAILED" \/ (row[d].state = "PROCESSED" /\ row[d].review)
  /\ row' = [row EXCEPT ![d] =
       [@ EXCEPT !.state = "PENDING", !.tries = 0, !.owner = None, !.leased = FALSE,
                 !.replayed = TRUE]]
  /\ UNCHANGED <<story, at, effectVars, past>>

LeaseEnds(d) ==
  /\ row[d].state = "PROCESSING" /\ row[d].leased
  /\ row' = [row EXCEPT ![d] = [@ EXCEPT !.leased = FALSE]]
  /\ UNCHANGED <<story, at, effectVars, past, troubles>>

RetentionEnds(e) ==
  /\ event[e] = "WAITING" /\ e \notin past
  /\ past' = past \cup {e}
  /\ UNCHANGED <<story, rowVars, effectVars, troubles>>

Next ==
  \/ \E d \in Delivery :
       \/ Receive(d) \/ GiveUp(d) \/ Purge(d) \/ Replay(d) \/ LeaseEnds(d)
       \/ \E w \in Worker : Claim(w, d)
  \/ \E w \in Worker : Begin(w) \/ Apply(w) \/ ApplyFails(w) \/ PutBack(w) \/ Stop(w)
  \/ \E e \in Status : Reconcile(e) \/ RetentionEnds(e)
  \/ Accept

Spec == Init /\ [][Next]_vars

(* Time passes; the queue or the sweep offer what is due; a transaction has *)
(* a timeout, well within the lease.                                        *)
Fairness ==
  /\ WF_vars(\E d \in Delivery : GiveUp(d))
  /\ WF_vars(\E d \in Delivery : LeaseEnds(d))
  /\ WF_vars(\E d \in Delivery, w \in Worker : Claim(w, d))
  /\ WF_vars(\E w \in Worker : Begin(w) \/ Apply(w) \/ PutBack(w))
  /\ WF_vars(\E e \in Status : RetentionEnds(e)) /\ WF_vars(\E e \in Status : Reconcile(e))

(***************************************************************************)
(* Properties.                                                             *)
(***************************************************************************)
Row == [state : {"PENDING", "PROCESSING", "PROCESSED", "FAILED"}, tries : 0 .. MaxTries,
        owner : Worker \cup {None}, leased : BOOLEAN, review : BOOLEAN,
        replayed : BOOLEAN, payload : BOOLEAN]

TypeOK ==
  /\ story \in Story
  /\ \A d \in Delivery : row[d].state = "NONE" \/ row[d] \in Row
  /\ at \in [Worker -> {Idle} \cup [does : {"apply", "putBack"}, of : Delivery]
                             \cup [does : {"write"}, of : Delivery, found : BOOLEAN]]
  /\ event \in [Status -> {"NONE", "WAITING", "APPLIED", "STALE", "CONTEXT_NOT_FOUND"}]
  /\ past \subseteq Status
  /\ message.since \in Nat
  /\ came \in BOOLEAN /\ inbox \in Nat /\ troubles \in 0 .. MaxTroubles

(* Whatever the order, the repetitions, the failures and the replays, what  *)
(* was told of the message sent has come to the latest of its statuses, and *)
(* in one second to the furthest of them, but for one that failed beside    *)
(* one that was sent: there the last to come stands. The message that came  *)
(* is recorded and counts as unread once, though two deliveries of it are   *)
(* applied at the same time.                                                *)
NoticesAddUp ==
  LET told == {e \in Status : event[e] \in {"APPLIED", "STALE"}}
      latest == {e \in told : \A x \in told : story[x].second <= story[e].second}
  IN /\ told # {} => \E e \in latest :
          /\ message.status = story[e].status
          /\ \A x \in latest :
               \/ Rank(story[x].status) <= Rank(story[e].status)
               \/ story[x].status = "sent" /\ story[e].status = "failed"
     /\ inbox = IF came THEN 1 ELSE 0
     /\ \A d \in Delivery : row[d].state = "PROCESSED" /\ Brings(d) => came

(* Every delivery stored is applied, or left for a person to look at; and   *)
(* every status finds its message or is shown as having none.               *)
NoticesEnd ==
  <>[](/\ \A d \in Delivery : row[d].state \notin {"PENDING", "PROCESSING"}
       /\ \A e \in Status : event[e] # "WAITING")
=============================================================================
