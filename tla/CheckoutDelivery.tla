-------------------------- MODULE CheckoutDelivery --------------------------
(***************************************************************************)
(* Notices of the checkout to the system of a seller: one rule (an address *)
(* with its secret), the rows of its notices and the passes of the worker, *)
(* each in some process. A pass lists what is due, claims each row before  *)
(* it sends it, and computes with the time of its start. A process may     *)
(* stop at any point. Times are relative to the present.                   *)
(***************************************************************************)
EXTENDS Integers, Sequences

CONSTANTS
  Notice,
  Worker,
  Claim,      \* CLAIM_MS: a claimed row is not due for that long
  Delay,      \* RETRY_DELAYS_MS, a sequence
  Window,     \* RETRY_WINDOW_MS
  DisableAfter,
  PassTime,   \* how long a pass of the worker may last, of twenty rows
  SendTime,   \* how long one row of it may take
  MaxAgain,   \* bound: notices sent again by hand
  MaxStops,   \* bound: processes that stop
  None

VARIABLES
  row,     \* CheckoutWebhookDelivery: status, tries, due and retry (until when)
  rule,    \* ON, OFF (disabled) or DELETED
  failing, \* for how long without a success, or None
  writes,  \* notices being written: what was read of the rule
  pass,    \* of each worker: its age, the rows listed and not claimed, the one in hand
  again, stops,
  lapsed     \* history: the notices held past a claim, or sent again while held

codeVars == <<row, rule, failing, writes, pass, again, stops>>
vars == <<codeVars, lapsed>>

Idle == [age |-> 0, list |-> {}, hand |-> None]
Unwritten == [status |-> "NONE", tries |-> 0, due |-> 0, retry |-> 0]
Fresh(tries) == [status |-> "PENDING", tries |-> tries, due |-> 0, retry |-> Window]
\* A row that is not PENDING is due at no time.
Closed(was, status, tries) == [was EXCEPT !.status = status, !.tries = tries, !.due = 0]
Pending(n) == row[n].status = "PENDING"
AtMost(a, b) == IF a < b THEN a ELSE b

Init ==
  /\ row = [n \in Notice |-> Unwritten]
  /\ rule = "ON" /\ failing = None
  /\ writes = [n \in Notice |-> None]
  /\ pass = [w \in Worker |-> Idle]
  /\ again = 0 /\ stops = 0 /\ lapsed = {}

(***************************************************************************)
(* A notice is written: the rule is read, then the row created.            *)
(***************************************************************************)
Emit(n) ==
  /\ row[n].status = "NONE" /\ writes[n] = None /\ rule # "DELETED"
  /\ writes' = [writes EXCEPT ![n] = rule]
  /\ UNCHANGED <<row, rule, failing, pass, again, stops>>

Written(n) ==
  /\ writes[n] # None
  /\ writes' = [writes EXCEPT ![n] = None]
  /\ row' = [row EXCEPT ![n] =
       IF writes[n] = "OFF" THEN Closed(Fresh(0), "SKIPPED", 0) ELSE Fresh(0)]
  /\ UNCHANGED <<rule, failing, pass, again, stops>>

(***************************************************************************)
(* A pass of the worker.                                                   *)
(***************************************************************************)
Start(w) ==
  LET due == {n \in Notice : Pending(n) /\ row[n].due <= 0}
  IN /\ pass[w] = Idle /\ due # {}
     /\ pass' = [pass EXCEPT ![w].list =
          {[of |-> n, tries |-> row[n].tries, retry |-> row[n].retry] : n \in due}]
     /\ UNCHANGED <<row, rule, failing, writes, again, stops>>

\* The pass goes on with its list, or is over.
Onward(p) == IF p.list = {} THEN Idle ELSE [p EXCEPT !.hand = None]

(* A variant: the row is claimed by its id alone.                           *)
UnclaimedAlways(n, age) == TRUE

\* Still to be sent, at the time the pass started.
Unclaimed(n, age) == Pending(n) /\ row[n].due <= -age

ClaimRow(w, d) ==
  /\ pass[w].hand = None /\ d \in pass[w].list
  /\ LET rest == [pass[w] EXCEPT !.list = @ \ {d}]
     IN IF Unclaimed(d.of, pass[w].age)
        THEN /\ pass' = [pass EXCEPT ![w] = [rest EXCEPT !.hand =
                           [was |-> d, since |-> rest.age, sent |-> FALSE]]]
             /\ row' = [row EXCEPT ![d.of].due = Claim - pass[w].age]
        ELSE pass' = [pass EXCEPT ![w] = Onward(rest)] /\ UNCHANGED row
  /\ UNCHANGED <<rule, failing, writes, again, stops>>

Send(w) ==
  /\ pass[w].hand # None /\ ~pass[w].hand.sent
  /\ IF rule = "ON"
     THEN pass' = [pass EXCEPT ![w].hand.sent = TRUE] /\ UNCHANGED row
     ELSE /\ row' = [row EXCEPT ![pass[w].hand.was.of] = Closed(@, "SKIPPED", @.tries)]
          /\ pass' = [pass EXCEPT ![w] = Onward(@)]
  /\ UNCHANGED <<rule, failing, writes, again, stops>>

Skipped(rows) ==
  [n \in Notice |->
     IF rows[n].status = "PENDING" THEN Closed(rows[n], "SKIPPED", rows[n].tries) ELSE rows[n]]

Succeed(w) ==
  LET hand == pass[w].hand
  IN /\ hand # None /\ hand.sent
     /\ failing' = None
     /\ row' = [row EXCEPT ![hand.was.of] = Closed(@, "DELIVERED", AtMost(hand.was.tries + 1, Len(Delay)))]
     /\ pass' = [pass EXCEPT ![w] = Onward(@)]
     /\ UNCHANGED <<rule, writes, again, stops>>

(* A variant: a notice is retried for ever.                                 *)
RetryAlways(was, now, age) ==
  [now EXCEPT !.status = "PENDING", !.tries = was.tries, !.due = Delay[1] - age]

\* The row after a try that failed: as the pass had listed it decides.
Retry(was, now, age) ==
  LET tries == AtMost(was.tries + 1, Len(Delay))
      next == Delay[tries]
  IN IF next > was.retry THEN Closed(now, "FAILED", tries)
     ELSE [now EXCEPT !.status = "PENDING", !.tries = tries, !.due = next - age]

Fail(w) ==
  LET hand == pass[w].hand
      age == pass[w].age
      since == IF failing = None THEN age ELSE failing
      off == rule # "OFF" /\ since >= DisableAfter + age
      rows == [row EXCEPT ![hand.was.of] = Retry(hand.was, @, age)]
  IN /\ hand # None /\ hand.sent
     /\ failing' = since
     /\ row' = IF off THEN Skipped(rows) ELSE rows
     /\ rule' = IF off /\ rule = "ON" THEN "OFF" ELSE rule
     /\ pass' = [pass EXCEPT ![w] = Onward(@)]
     /\ UNCHANGED <<writes, again, stops>>

Stop(w) ==
  /\ stops < MaxStops /\ pass[w] # Idle
  /\ stops' = stops + 1
  /\ pass' = [pass EXCEPT ![w] = Idle]
  /\ UNCHANGED <<row, rule, failing, writes, again>>

(***************************************************************************)
(* The seller: switches the rule on again, gives it another address,       *)
(* removes it, or has a notice sent again, maybe while one is under way.   *)
(***************************************************************************)
Enable ==
  /\ rule = "OFF"
  /\ rule' = "ON" /\ failing' = None
  /\ UNCHANGED <<row, writes, pass, again, stops>>

Update ==
  /\ rule # "DELETED"
  /\ failing' = None
  /\ UNCHANGED <<row, rule, writes, pass, again, stops>>

Remove ==
  /\ rule # "DELETED"
  /\ rule' = "DELETED"
  /\ row' = Skipped(row)
  /\ UNCHANGED <<failing, writes, pass, again, stops>>

Resend(n) ==
  /\ again < MaxAgain
  /\ rule = "ON" /\ row[n].status \in {"DELIVERED", "FAILED", "SKIPPED"}
  /\ again' = again + 1
  /\ row' = [row EXCEPT ![n] = Fresh(@.tries)]
  /\ UNCHANGED <<rule, failing, writes, pass, stops>>

(* Time passes for all. A row long due, a window long past and a rule long  *)
(* failing stay so.                                                         *)
Tick ==
  /\ \A w \in Worker : pass[w] # Idle =>
       /\ pass[w].age < PassTime
       /\ pass[w].hand # None => pass[w].age - pass[w].hand.since < SendTime
  /\ \A n \in Notice : writes[n] = None
  /\ pass' = [w \in Worker |-> IF pass[w] = Idle THEN Idle ELSE [pass[w] EXCEPT !.age = @ + 1]]
  /\ row' = [n \in Notice |->
       IF row[n].status = "NONE" THEN row[n]
       ELSE [row[n] EXCEPT !.due = IF Pending(n) /\ @ > -PassTime THEN @ - 1 ELSE @,
                           !.retry = IF @ > 0 THEN @ - 1 ELSE 0]]
  /\ failing' = IF failing = None THEN None ELSE AtMost(failing + 1, DisableAfter + PassTime)
  /\ UNCHANGED <<rule, writes, again, stops>>

InHand(n) == {w \in Worker : pass[w].hand # None /\ pass[w].hand.was.of = n}

\* What lapsed remembers, for as long as somebody holds the notice.
Watch ==
  lapsed' = {n \in Notice :
    /\ InHand(n)' # {}
    /\ \/ n \in lapsed \/ (again' > again /\ row'[n] # row[n])
       \/ \E w \in InHand(n)' : pass'[w].age >= Claim}

Step ==
  \/ \E n \in Notice : Emit(n) \/ Written(n) \/ Resend(n)
  \/ \E w \in Worker :
       \/ Start(w) \/ Send(w) \/ Succeed(w) \/ Fail(w) \/ Stop(w)
       \/ \E d \in pass[w].list : ClaimRow(w, d)
  \/ Enable \/ Update \/ Remove \/ Tick

Next == Step /\ Watch

Spec == Init /\ [][Next]_vars

\* The worker comes back every half minute; a send ends within its timeout.
Fairness ==
  /\ WF_codeVars(Tick)
  /\ \A n \in Notice : WF_codeVars(Written(n))
  /\ \A w \in Worker :
       /\ WF_codeVars(Start(w)) /\ WF_codeVars(Send(w)) /\ WF_codeVars(Succeed(w) \/ Fail(w))
       /\ WF_codeVars(\E d \in pass[w].list : ClaimRow(w, d))

FairSpec == Spec /\ Fairness

(***************************************************************************)
(* Properties.                                                             *)
(***************************************************************************)
Row == [status : {"NONE", "PENDING", "DELIVERED", "FAILED", "SKIPPED"}, tries : 0 .. Len(Delay),
        due : Int, retry : Int]

TypeOK ==
  /\ \A n \in Notice : row[n] \in Row
  /\ rule \in {"ON", "OFF", "DELETED"}
  /\ failing = None \/ failing \in 0 .. DisableAfter + PassTime
  /\ writes \in [Notice -> {"ON", "OFF", None}]
  /\ \A w \in Worker :
       /\ pass[w].age \in 0 .. PassTime
       /\ pass[w].hand # None => pass[w].hand.was.of \in Notice
  /\ again \in 0 .. MaxAgain /\ stops \in 0 .. MaxStops /\ lapsed \subseteq Notice

(* "Each row is claimed first, so two workers never send it twice", said     *)
(* exactly: whoever lists, stops, fails, skips and retries, a notice gets   *)
(* into the hands of two processes only after one of them held it past the  *)
(* claim it had made, which counts from the start of its pass, or after it   *)
(* was sent again while held.                                               *)
OneSender ==
  \A n \in Notice \ lapsed, w, x \in Worker : w \in InHand(n) /\ x \in InHand(n) => w = x

(* Every notice comes to an end: delivered, given up after its window, or   *)
(* skipped with its rule, though processes stop with rows they had claimed. *)
DeliveryEnds == \A n \in Notice : Pending(n) ~> ~Pending(n)
=============================================================================
