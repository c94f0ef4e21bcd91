------------------------ MODULE OutboundMessageProofs ------------------------
(***************************************************************************)
(* Proofs about OutboundMessage, for any number of workers, reviews,       *)
(* attempts and changes of the template: whatever is lost, held, resumed   *)
(* or renewed, the recipient gets the message at most once.                *)
(***************************************************************************)
EXTENDS MCMessaging, FiniteSetTheorems, WellFoundedInduction, TLAPS

\* A worker past its claim of an attempt.
Works(w) == at[w] \in {"validate", "transmit", "commit", "record"}

(* Attempts are made in order, and another is made only once the one before *)
(* failed or was blocked, for good.                                         *)
Generations ==
  \A n \in Attempt :
    /\ n > made <=> intent[n] = "ABSENT"
    /\ n < made => intent[n] \in {"FAILED", "BLOCKED"}

(* One worker at a time is past the claim of an attempt, and it holds the   *)
(* lease unless that was lost.                                              *)
OneWorks ==
  /\ \A w \in Worker : at[w] # "idle" => on[w] # None
  /\ \A w \in Worker : Works(w) =>
       \/ intent[on[w]] = "SENDING" /\ owner[on[w]] = w
       \/ intent[on[w]] = "LOST"
  /\ \A w, v \in Worker : Works(w) /\ Works(v) /\ on[w] = on[v] => w = v

(* What a worker knows of the attempt it works on.                          *)
DeliveryIsKnown ==
  /\ \A w \in Worker :
       /\ at[w] \in {"validate", "transmit"} => delivered[on[w]] = 0
       /\ at[w] = "commit" => delivered[on[w]] = 1
       /\ at[w] = "record" =>
            found[w] \in Result /\ (found[w] # "UNCERTAIN" => delivered[on[w]] = 0)
  /\ \A n \in Attempt :
       /\ delivered[n] <= 1
       /\ intent[n] \in NotSent \cup {"ABSENT"} => delivered[n] = 0
       /\ intent[n] = "ACCEPTED" => delivered[n] = 1

ClosedIsClear ==
  hold = "CLOSED" => \A n \in Attempt : intent[n] \notin Live \ {"ACCEPTED"}

(* Only a review that decides something is kept.                            *)
ReviewsDecide ==
  \A r \in Review : review[r] \in Evaluations => review[r].action # "KEEP"

IInv ==
  /\ TypeOK
  /\ Generations
  /\ OneWorks
  /\ DeliveryIsKnown
  /\ ClosedIsClear
  /\ ReviewsDecide

USE DEF Attempt, Made, NotSent, Live, Works, policy, intents, holds, workers

-----------------------------------------------------------------------------
(* What the next evaluation of a review is, by what may be in flight.       *)
LEMMA ActionDecides ==
  /\ Action \in {"KEEP", "CLOSE", "RESUME"}
  /\ Action # "KEEP" => hold = "BLOCKED"
  /\ Action = "RESUME" => LiveStates = {}
  /\ Action = "CLOSE" => LiveStates = {} \/ "ACCEPTED" \in LiveStates
<1>1. CASE hold # "BLOCKED"
  BY <1>1 DEF Action
<1>2. CASE hold = "BLOCKED" /\ "ACCEPTED" \in LiveStates
  BY <1>2 DEF Action
<1>3. CASE hold = "BLOCKED" /\ "ACCEPTED" \notin LiveStates /\ LiveStates # {}
  BY <1>3 DEF Action
<1>4. CASE hold = "BLOCKED" /\ LiveStates = {}
  BY <1>4 DEF Action
<1>. QED  BY <1>1, <1>2, <1>3, <1>4

(* An evaluation is typed, and never a review yet to be made or confirmed.  *)
LEMMA EvaluationTyped == TypeOK => Evaluation \in Evaluations
BY ActionDecides, BoundsAssumption DEF TypeOK, Evaluation, Evaluations

LEMMA ConfirmedDiffers == Confirmed \notin Evaluations
BY DEF Confirmed, Evaluations

LEMMA NoneApart == None \notin Attempt
BY BoundsAssumption, NoneAssumption

\* The steps of a worker.
Step == {"idle", "claim", "validate", "transmit", "commit", "record", "hold"}

\* Of the workers' records only that of w changes, and they stay typed.
Alone(w) ==
  \A v \in Worker : v # w => at'[v] = at[v] /\ on'[v] = on[v] /\ found'[v] = found[v]

Typed ==
  /\ at' \in [Worker -> Step] /\ on' \in [Worker -> Attempt \cup {None}]
  /\ found' \in [Worker -> Result \cup {None}]

(* What the moves of a worker do to its own record.                         *)
LEMMA GotoAlone ==
  ASSUME TypeOK, NEW w \in Worker, NEW step \in Step, Goto(w, step)
  PROVE  Typed /\ Alone(w) /\ at'[w] = step /\ on'[w] = on[w] /\ found'[w] = found[w]
BY DEF TypeOK, Goto, Step, Alone, Typed

LEMMA RestAlone ==
  ASSUME TypeOK, NEW w \in Worker, Rest(w)
  PROVE  Typed /\ Alone(w) /\ at'[w] = "idle" /\ on'[w] = None /\ found'[w] = None
BY DEF TypeOK, Rest, Step, Alone, Typed

LEMMA FailAlone ==
  ASSUME TypeOK, NEW w \in Worker, NEW result \in Result, Fail(w, result)
  PROVE  Typed /\ Alone(w) /\ at'[w] = "record" /\ on'[w] = on[w] /\ found'[w] = result
BY DEF TypeOK, Fail, Step, Alone, Typed

(* Only the attempt n changes, and becomes a state the schema has.          *)
LEMMA BecomesOne ==
  ASSUME TypeOK, NEW n \in Attempt, NEW state \in IntentState, Becomes(n, state)
  PROVE  /\ intent' \in [Attempt -> IntentState] /\ intent'[n] = state
         /\ \A m \in Attempt : m # n => intent'[m] = intent[m]
BY DEF TypeOK, Becomes

(* The next attempt is pending, the others as they were.                    *)
LEMMA ReserveAdds ==
  ASSUME TypeOK, Reserve
  PROVE  /\ made + 1 \in Attempt /\ made' = made + 1 /\ made' \in 0 .. MaxAttempts
         /\ intent' \in [Attempt -> IntentState] /\ intent'[made + 1] = "PENDING"
         /\ \A m \in Attempt : m # made + 1 => intent'[m] = intent[m]
         /\ pinned' \in [Attempt -> 0 .. MaxRevisions] /\ UNCHANGED owner
<1>1. made + 1 \in Attempt /\ made + 1 \in 0 .. MaxAttempts
  BY BoundsAssumption DEF TypeOK, Reserve
<1>. QED  BY <1>1 DEF TypeOK, Reserve, Becomes, IntentState

(* Only an attempt known not sent is held, and a closed hold stays closed.  *)
LEMMA BlockHolds ==
  ASSUME TypeOK, NEW n \in Attempt \cup {None}, Block(n)
  PROVE  /\ \/ UNCHANGED intent
            \/ /\ n \in Attempt /\ intent[n] \in NotSent
               /\ intent' = [intent EXCEPT ![n] = "BLOCKED"]
         /\ hold' \in HoldState /\ version' \in Nat /\ cited' \in Attempt \cup {None}
         /\ hold' = "CLOSED" <=> hold = "CLOSED"
<1>1. /\ \/ UNCHANGED intent
         \/ /\ n \in Attempt /\ intent[n] \in NotSent
            /\ intent' = [intent EXCEPT ![n] = "BLOCKED"]
      /\ \/ UNCHANGED <<hold, version, cited>>
         \/ /\ hold # "CLOSED" /\ hold' = "BLOCKED" /\ version' = version + 1
            /\ cited' = cited \/ cited' = n
  BY DEF Block, Becomes
<1>2. version + 1 \in Nat
  BY DEF TypeOK
<1>. QED  BY <1>1, <1>2 DEF TypeOK, HoldState

(* A worker that is not idle has an attempt.                                *)
LEMMA WorkersHaveOne ==
  IInv => \A w \in Worker : at[w] # "idle" => on[w] \in Attempt
BY DEF IInv, TypeOK, OneWorks

(* At most the last attempt made is live. *)
LEMMA LastLives ==
  ASSUME IInv
  PROVE  /\ made \in Nat /\ made <= MaxAttempts
         /\ \A n \in Attempt : intent[n] \in Live => n = made
<1>1. made \in Nat /\ made <= MaxAttempts
  BY BoundsAssumption DEF IInv, TypeOK
<1>2. ASSUME NEW n \in Attempt, intent[n] \in Live PROVE n = made
  <2>1. ~(n > made) /\ ~(n < made)
    BY <1>2 DEF IInv, Generations
  <2>. QED  BY <1>1, <2>1, BoundsAssumption
<1>. QED  BY <1>1, <1>2

(* While nothing is live, what is in flight is nothing at all.              *)
LEMMA NothingLives ==
  ASSUME IInv, LiveStates = {}
  PROVE  \A n \in Attempt : intent[n] \in {"ABSENT", "FAILED", "BLOCKED"}
<1>1. \A n \in Attempt : n \in 1 .. made \/ intent[n] = "ABSENT"
  BY BoundsAssumption DEF IInv, TypeOK, Generations
<1>. QED  BY <1>1 DEF IInv, TypeOK, LiveStates, IntentState

(* What was accepted is the one attempt that may live.                      *)
LEMMA AcceptedLives ==
  ASSUME IInv, "ACCEPTED" \in LiveStates
  PROVE  \A n \in Attempt : intent[n] \notin Live \ {"ACCEPTED"}
<1>1. PICK m \in 1 .. made : intent[m] = "ACCEPTED"
  BY DEF LiveStates
<1>2. m = made
  BY <1>1, LastLives, BoundsAssumption
<1>. QED  BY <1>1, <1>2, LastLives
-----------------------------------------------------------------------------

(* The template, its grant or its data change: attempts keep what they were *)
(* prepared with.                                                           *)
LEMMA ChangeKeeps ==
  ASSUME IInv, NEW allows \in BOOLEAN, Change(allows)
  PROVE  IInv'
<1>1. TypeOK'
  BY BoundsAssumption DEF IInv, TypeOK, Change
<1>2. Generations' /\ OneWorks' /\ DeliveryIsKnown' /\ ClosedIsClear'
      /\ ReviewsDecide'
  BY DEF IInv, Generations, OneWorks, DeliveryIsKnown, ClosedIsClear, ReviewsDecide,
       Change
<1>3. QED  BY <1>1, <1>2 DEF IInv

(* The invoice is paid: what is in flight stays so.                         *)
LEMMA SettleKeeps ==
  ASSUME IInv, Settle
  PROVE  IInv'
<1>1. TypeOK'
  BY DEF IInv, TypeOK, Settle
<1>2. Generations' /\ OneWorks' /\ DeliveryIsKnown' /\ ClosedIsClear'
      /\ ReviewsDecide'
  BY DEF IInv, Generations, OneWorks, DeliveryIsKnown, ClosedIsClear, ReviewsDecide,
       Settle
<1>3. QED  BY <1>1, <1>2 DEF IInv

(* A new attempt is made only after the last one failed, and unheld.        *)
LEMMA PrepareKeeps ==
  ASSUME IInv, Prepare
  PROVE  IInv'
<1>a. /\ hold = "NONE" /\ (made # 0 => intent[made] = "FAILED")
      /\ UNCHANGED <<granted, revision, due, delivered, owner, review, at, on, found, scan>>
      /\ \/ Reserve /\ UNCHANGED <<hold, version, cited>>
         \/ Block(None) /\ UNCHANGED <<made, pinned, owner>>
  BY DEF Prepare, Renewable, Reserve
<1>b. \/ /\ made + 1 \in Attempt /\ made' = made + 1 /\ made' \in 0 .. MaxAttempts
         /\ intent' \in [Attempt -> IntentState] /\ intent'[made + 1] = "PENDING"
         /\ \A m \in Attempt : m # made + 1 => intent'[m] = intent[m]
         /\ pinned' \in [Attempt -> 0 .. MaxRevisions]
         /\ UNCHANGED <<owner, hold, version, cited>>
      \/ /\ UNCHANGED <<made, intent, pinned, owner>>
         /\ hold' \in HoldState /\ version' \in Nat /\ cited' \in Attempt \cup {None}
  <2>1. CASE Reserve /\ UNCHANGED <<hold, version, cited>>
    BY <2>1, ReserveAdds DEF IInv
  <2>2. CASE Block(None) /\ UNCHANGED <<made, pinned, owner>>
    BY <2>2, BlockHolds, NoneApart DEF IInv
  <2>. QED  BY <1>a, <2>1, <2>2
<1>c. hold' # "CLOSED"
  BY <1>a, BlockHolds DEF IInv
<1>d. made' # made => \A m \in Attempt : m <= made => intent[m] \in {"FAILED", "BLOCKED"}
  BY <1>a, <1>b, LastLives DEF IInv, Generations
<1>e. \A m \in Attempt : intent'[m] = intent[m] \/ (intent[m] = "ABSENT" /\ intent'[m] = "PENDING")
  BY <1>b, LastLives DEF IInv, Generations
<1>1. TypeOK'
  BY <1>a, <1>b DEF IInv, TypeOK, IntentState
<1>2. Generations'
  BY <1>a, <1>b, <1>d, LastLives DEF IInv, Generations
<1>3. OneWorks'
  BY <1>a, <1>b, <1>e DEF IInv, TypeOK, OneWorks
<1>4. DeliveryIsKnown'
  BY <1>a, <1>b, <1>e DEF IInv, TypeOK, DeliveryIsKnown
<1>5. ClosedIsClear'
  BY <1>a, <1>b, <1>c DEF IInv, TypeOK, ClosedIsClear
<1>6. ReviewsDecide'
  BY <1>a, <1>b DEF IInv, ReviewsDecide
<1>7. QED  BY <1>1, <1>2, <1>3, <1>4, <1>5, <1>6 DEF IInv

(* The reconciliation reads a pending attempt.                              *)
LEMMA ScanKeeps ==
  ASSUME IInv, NEW n \in Attempt, Scan(n)
  PROVE  IInv'
<1>1. TypeOK'
  BY DEF IInv, TypeOK, Scan
<1>2. Generations' /\ OneWorks' /\ DeliveryIsKnown' /\ ClosedIsClear'
      /\ ReviewsDecide'
  BY DEF IInv, Generations, OneWorks, DeliveryIsKnown, ClosedIsClear, ReviewsDecide,
       Scan
<1>3. QED  BY <1>1, <1>2 DEF IInv

(* An attempt is held only while known not sent, however old its reading.   *)
LEMMA ReconcileKeeps ==
  ASSUME IInv, Reconcile
  PROVE  IInv'
<1>a. /\ \/ UNCHANGED intent
         \/ \E n \in Attempt : intent[n] \in NotSent /\ intent' = [intent EXCEPT ![n] = "BLOCKED"]
      /\ hold' \in HoldState /\ version' \in Nat /\ cited' \in Attempt \cup {None}
      /\ hold' = "CLOSED" <=> hold = "CLOSED"
  BY BlockHolds DEF Reconcile, IInv, TypeOK
<1>b. scan' = None /\ UNCHANGED <<policy, made, pinned, owner, delivered, review, workers>>
  BY DEF Reconcile
<1>1. TypeOK'
  BY <1>a, <1>b DEF IInv, TypeOK, IntentState
<1>2. Generations'
  BY <1>a, <1>b DEF IInv, TypeOK, Generations
<1>3. OneWorks'
  BY <1>a, <1>b DEF IInv, TypeOK, OneWorks
<1>4. DeliveryIsKnown'
  BY <1>a, <1>b DEF IInv, TypeOK, DeliveryIsKnown
<1>5. ClosedIsClear'
  BY <1>a, <1>b DEF IInv, TypeOK, ClosedIsClear
<1>6. ReviewsDecide'
  BY <1>a, <1>b DEF IInv, ReviewsDecide
<1>7. QED  BY <1>1, <1>2, <1>3, <1>4, <1>5, <1>6 DEF IInv

(* A preview is kept when it would decide something.                        *)
LEMMA PreviewKeeps ==
  ASSUME IInv, NEW r \in Review, Preview(r)
  PROVE  IInv'
<1>a. Evaluation \in Evaluations /\ Evaluation.action # "KEEP"
  BY EvaluationTyped DEF Preview, Evaluation, IInv
<1>1. TypeOK'
  BY <1>a DEF IInv, TypeOK, Preview
<1>2. ReviewsDecide'
  BY <1>a DEF IInv, TypeOK, ReviewsDecide, Preview
<1>3. Generations' /\ OneWorks' /\ DeliveryIsKnown' /\ ClosedIsClear'
  BY DEF IInv, Generations, OneWorks, DeliveryIsKnown, ClosedIsClear, Preview
<1>4. QED  BY <1>1, <1>2, <1>3 DEF IInv

(* A review makes another attempt only when nothing may be in flight.       *)
LEMMA ConfirmKeeps ==
  ASSUME IInv, NEW r \in Review, Confirm(r)
  PROVE  IInv'
<1>a. /\ review' = [review EXCEPT ![r] = Confirmed]
      /\ UNCHANGED <<policy, owner, delivered, workers, scan>>
      /\ version' = version + 1 /\ version + 1 \in Nat
      /\ \/ Action = "RESUME" /\ Reserve /\ hold' = "RESUMED" /\ cited' = made + 1
         \/ Action # "RESUME" /\ hold' = "CLOSED" /\ UNCHANGED <<made, pinned, intent, cited>>
  BY DEF Confirm, Reserve, IInv, TypeOK
<1>b. Action # "KEEP"
  BY EvaluationTyped DEF Confirm, Evaluation, IInv, ReviewsDecide
<1>c. \/ LiveStates = {} /\ hold' # "CLOSED"
         /\ made + 1 \in Attempt /\ made' = made + 1 /\ made' \in 0 .. MaxAttempts
         /\ intent' \in [Attempt -> IntentState] /\ intent'[made + 1] = "PENDING"
         /\ \A m \in Attempt : m # made + 1 => intent'[m] = intent[m]
         /\ pinned' \in [Attempt -> 0 .. MaxRevisions]
         /\ hold' \in HoldState /\ cited' \in Attempt
      \/ /\ LiveStates = {} \/ "ACCEPTED" \in LiveStates
         /\ hold' \in HoldState /\ UNCHANGED <<made, pinned, intent, cited>>
  BY <1>a, <1>b, ActionDecides, ReserveAdds DEF HoldState, IInv
<1>d. \/ UNCHANGED <<made, intent>> /\ \A n \in Attempt : intent[n] \notin Live \ {"ACCEPTED"}
      \/ /\ hold' # "CLOSED" /\ \A n \in Attempt : intent[n] \in {"ABSENT", "FAILED", "BLOCKED"}
         /\ made + 1 \in Attempt /\ made' = made + 1 /\ intent'[made + 1] = "PENDING"
         /\ \A m \in Attempt : m # made + 1 => intent'[m] = intent[m]
  BY <1>c, NothingLives, AcceptedLives
<1>e. /\ made' \in 0 .. MaxAttempts /\ intent' \in [Attempt -> IntentState]
      /\ pinned' \in [Attempt -> 0 .. MaxRevisions]
      /\ hold' \in HoldState /\ cited' \in Attempt \cup {None}
  <2>1. CASE Reserve /\ hold' = "RESUMED" /\ cited' = made + 1
    BY <2>1, ReserveAdds DEF HoldState, IInv
  <2>2. CASE hold' = "CLOSED" /\ UNCHANGED <<made, pinned, intent, cited>>
    BY <2>2 DEF IInv, TypeOK, HoldState
  <2>. QED  BY <1>a, <2>1, <2>2
<1>f. version' \in Nat /\ review' \in [Review -> Evaluations \cup {Confirmed, None}]
  BY <1>a DEF IInv, TypeOK
<1>1. TypeOK'
  BY <1>a, <1>e, <1>f DEF IInv, TypeOK, IntentState
<1>2. Generations'
  BY <1>a, <1>d, LastLives DEF IInv, Generations
<1>3. OneWorks'
  BY <1>a, <1>d DEF IInv, TypeOK, OneWorks
<1>4. DeliveryIsKnown'
  BY <1>a, <1>d DEF IInv, TypeOK, DeliveryIsKnown
<1>5. ClosedIsClear'
  BY <1>a, <1>d DEF IInv, TypeOK, ClosedIsClear
<1>6. ReviewsDecide'
  BY <1>a, ConfirmedDiffers DEF IInv, TypeOK, ReviewsDecide
<1>7. QED  BY <1>1, <1>2, <1>3, <1>4, <1>5, <1>6 DEF IInv

(* A worker takes up a pending attempt: several may.                        *)
LEMMA StartKeeps ==
  ASSUME IInv, NEW w \in Worker, NEW n \in Attempt, Start(w, n)
  PROVE  IInv'
<1>a. /\ Typed /\ Alone(w) /\ at[w] = "idle" /\ at'[w] = "claim" /\ on'[w] # None
      /\ UNCHANGED <<policy, intents, delivered, holds, review, scan>>
  BY NoneApart DEF Start, Alone, Typed, Step, IInv, TypeOK
<1>1. TypeOK'
  BY <1>a DEF IInv, TypeOK, Alone, Typed, Step
<1>2. OneWorks'
  BY <1>a, WorkersHaveOne DEF IInv, OneWorks, Alone
<1>3. DeliveryIsKnown'
  BY <1>a, WorkersHaveOne DEF IInv, OneWorks, DeliveryIsKnown, Alone
<1>4. Generations' /\ ClosedIsClear' /\ ReviewsDecide'
  BY <1>a DEF IInv, Generations, ClosedIsClear, ReviewsDecide, Alone, Typed, Step
<1>5. QED  BY <1>1, <1>2, <1>3, <1>4 DEF IInv

(* Of the workers that took up an attempt one gets its lease.               *)
LEMMA ClaimKeeps ==
  ASSUME IInv, NEW w \in Worker, Claim(w)
  PROVE  IInv'
<1>a. /\ at[w] = "claim" /\ on[w] \in Attempt
      /\ UNCHANGED <<policy, made, pinned, delivered, holds, review, scan>>
      /\ \/ /\ intent[on[w]] = "PENDING" /\ Becomes(on[w], "SENDING")
            /\ owner' = [owner EXCEPT ![on[w]] = w] /\ Goto(w, "validate")
         \/ (Rest(w) \/ Goto(w, "hold")) /\ UNCHANGED <<intent, owner>>
  BY DEF Claim, IInv, TypeOK, OneWorks
<1>b. /\ Typed /\ Alone(w) /\ at'[w] \in {"idle", "hold", "validate"}
      /\ (at'[w] # "idle" => on'[w] = on[w])
  BY <1>a, GotoAlone, RestAlone DEF IInv, Step
<1>c. \/ /\ intent[on[w]] = "PENDING" /\ intent'[on[w]] = "SENDING" /\ owner'[on[w]] = w
         /\ intent' \in [Attempt -> IntentState] /\ owner' \in [Attempt -> Worker \cup {None}]
         /\ \A m \in Attempt : m # on[w] => intent'[m] = intent[m] /\ owner'[m] = owner[m]
      \/ UNCHANGED <<intent, owner>> /\ ~Works(w)'
  <2>1. CASE /\ intent[on[w]] = "PENDING" /\ Becomes(on[w], "SENDING")
             /\ owner' = [owner EXCEPT ![on[w]] = w]
    BY <1>a, <2>1, BecomesOne DEF IInv, TypeOK, IntentState
  <2>2. CASE (Rest(w) \/ Goto(w, "hold")) /\ UNCHANGED <<intent, owner>>
    BY <2>2, GotoAlone, RestAlone DEF IInv, Step
  <2>. QED  BY <1>a, <2>1, <2>2
<1>1. TypeOK'
  BY <1>b, <1>c, <1>a DEF IInv, TypeOK, Alone, Typed, Step
<1>2. Generations'
  BY <1>b, <1>c, <1>a DEF IInv, Generations
<1>3. OneWorks'
  BY <1>b, <1>c, <1>a, WorkersHaveOne DEF IInv, OneWorks, Alone
<1>4. DeliveryIsKnown'
  BY <1>b, <1>c, <1>a, WorkersHaveOne DEF IInv, OneWorks, DeliveryIsKnown, Alone
<1>5. ClosedIsClear'
  BY <1>b, <1>c, <1>a DEF IInv, ClosedIsClear
<1>6. ReviewsDecide'
  BY <1>a DEF IInv, ReviewsDecide, Alone, Typed, Step
<1>7. QED  BY <1>1, <1>2, <1>3, <1>4, <1>5, <1>6 DEF IInv

(* What is checked before the transmission changes nothing.                 *)
LEMMA ValidateKeeps ==
  ASSUME IInv, NEW w \in Worker, Validate(w)
  PROVE  IInv'
<1>a. /\ Typed /\ Alone(w) /\ at[w] = "validate" /\ at'[w] = "transmit" /\ on'[w] = on[w]
      /\ UNCHANGED <<policy, intents, delivered, holds, review, scan>>
  BY GotoAlone DEF Validate, IInv, Step
<1>1. TypeOK'
  BY <1>a DEF IInv, TypeOK, Alone, Typed, Step
<1>2. OneWorks'
  BY <1>a, WorkersHaveOne DEF IInv, OneWorks, Alone
<1>3. DeliveryIsKnown'
  BY <1>a, WorkersHaveOne DEF IInv, OneWorks, DeliveryIsKnown, Alone
<1>4. Generations' /\ ClosedIsClear' /\ ReviewsDecide'
  BY <1>a DEF IInv, Generations, ClosedIsClear, ReviewsDecide, Alone, Typed, Step
<1>5. QED  BY <1>1, <1>2, <1>3, <1>4 DEF IInv

(* An attempt refused before its transmission did not reach the provider.   *)
LEMMA RefuseKeeps ==
  ASSUME IInv, NEW w \in Worker, NEW result \in Result, Refuse(w, result)
  PROVE  IInv'
<1>a. /\ Typed /\ Alone(w) /\ at[w] \in {"validate", "transmit"}
      /\ at'[w] = "record" /\ on'[w] = on[w]
      /\ found'[w] \in Result
      /\ UNCHANGED <<policy, intents, delivered, holds, review, scan>>
  BY FailAlone DEF Refuse, IInv
<1>1. TypeOK'
  BY <1>a DEF IInv, TypeOK, Alone, Typed, Step
<1>2. OneWorks'
  BY <1>a, WorkersHaveOne DEF IInv, OneWorks, Alone
<1>3. DeliveryIsKnown'
  BY <1>a, WorkersHaveOne DEF IInv, OneWorks, DeliveryIsKnown, Alone
<1>4. Generations' /\ ClosedIsClear' /\ ReviewsDecide'
  BY <1>a DEF IInv, Generations, ClosedIsClear, ReviewsDecide, Alone, Typed, Step
<1>5. QED  BY <1>1, <1>2, <1>3, <1>4 DEF IInv

(* What the provider turned away did not reach the recipient.               *)
LEMMA RejectKeeps ==
  ASSUME IInv, NEW w \in Worker, NEW result \in Result, Reject(w, result)
  PROVE  IInv'
<1>a. /\ Typed /\ Alone(w) /\ at[w] \in {"validate", "transmit"}
      /\ at'[w] = "record" /\ on'[w] = on[w]
      /\ found'[w] \in Result
      /\ UNCHANGED <<policy, intents, delivered, holds, review, scan>>
  BY FailAlone DEF Reject, IInv
<1>1. TypeOK'
  BY <1>a DEF IInv, TypeOK, Alone, Typed, Step
<1>2. OneWorks'
  BY <1>a, WorkersHaveOne DEF IInv, OneWorks, Alone
<1>3. DeliveryIsKnown'
  BY <1>a, WorkersHaveOne DEF IInv, OneWorks, DeliveryIsKnown, Alone
<1>4. Generations' /\ ClosedIsClear' /\ ReviewsDecide'
  BY <1>a DEF IInv, Generations, ClosedIsClear, ReviewsDecide, Alone, Typed, Step
<1>5. QED  BY <1>1, <1>2, <1>3, <1>4 DEF IInv

(* The provider accepts an attempt once: only its worker transmits it.      *)
LEMMA DeliverKeeps ==
  ASSUME IInv, NEW w \in Worker, NEW heard \in BOOLEAN, Deliver(w, heard)
  PROVE  IInv'
<1>a. /\ at[w] = "transmit" /\ on[w] \in Attempt
      /\ delivered[on[w]] = 0 /\ intent[on[w]] \in {"SENDING", "LOST"}
      /\ UNCHANGED <<policy, intents, holds, review, scan>>
  BY DEF Deliver, IInv, TypeOK, OneWorks, DeliveryIsKnown
<1>b. /\ Typed /\ Alone(w) /\ on'[w] = on[w]
      /\ at'[w] = "commit" \/ (at'[w] = "record" /\ found'[w] = "UNCERTAIN" /\ found'[w] \in Result)
  BY GotoAlone, FailAlone DEF Deliver, IInv, Step, Result
<1>c. /\ delivered' \in [Attempt -> Nat] /\ delivered'[on[w]] = 1
      /\ \A m \in Attempt : m # on[w] => delivered'[m] = delivered[m]
  BY <1>a DEF Deliver, IInv, TypeOK
<1>1. TypeOK'
  BY <1>a, <1>b, <1>c DEF IInv, TypeOK, Alone, Typed, Step, Result
<1>2. OneWorks'
  BY <1>a, <1>b, WorkersHaveOne DEF IInv, OneWorks, Alone
<1>3. DeliveryIsKnown'
  BY <1>a, <1>b, <1>c, WorkersHaveOne DEF IInv, OneWorks, DeliveryIsKnown, Alone
<1>4. Generations' /\ ClosedIsClear' /\ ReviewsDecide'
  BY <1>a, <1>b DEF IInv, Generations, ClosedIsClear, ReviewsDecide, Alone, Typed, Step,
       Result
<1>5. QED  BY <1>1, <1>2, <1>3, <1>4 DEF IInv

(* An acceptance is recorded under the lease or after it was lost.          *)
LEMMA CommitKeeps ==
  ASSUME IInv, NEW w \in Worker, Commit(w)
  PROVE  IInv'
<1>a. /\ at[w] = "commit" /\ on[w] \in Attempt /\ delivered[on[w]] = 1
      /\ intent[on[w]] \in {"SENDING", "LOST"}
      /\ UNCHANGED <<policy, made, pinned, delivered, holds, review, scan>>
      /\ Becomes(on[w], "ACCEPTED") /\ Free(on[w]) /\ Rest(w)
  BY DEF Commit, Proven, Own, IInv, TypeOK, OneWorks, DeliveryIsKnown
<1>b. Typed /\ Alone(w) /\ at'[w] = "idle"
  BY <1>a, RestAlone DEF IInv
<1>c. /\ intent' \in [Attempt -> IntentState] /\ owner' \in [Attempt -> Worker \cup {None}]
      /\ intent'[on[w]] = "ACCEPTED"
      /\ \A m \in Attempt : m # on[w] => intent'[m] = intent[m] /\ owner'[m] = owner[m]
  BY <1>a, BecomesOne DEF Free, IInv, TypeOK, IntentState
<1>1. TypeOK'
  BY <1>a, <1>b, <1>c DEF IInv, TypeOK, Alone, Typed, Step
<1>2. Generations'
  BY <1>a, <1>b, <1>c DEF IInv, Generations
<1>3. OneWorks'
  BY <1>a, <1>b, <1>c, WorkersHaveOne DEF IInv, OneWorks, Alone
<1>4. DeliveryIsKnown'
  BY <1>a, <1>b, <1>c, WorkersHaveOne DEF IInv, OneWorks, DeliveryIsKnown, Alone
<1>5. ClosedIsClear'
  BY <1>a, <1>b, <1>c DEF IInv, ClosedIsClear
<1>6. ReviewsDecide'
  BY <1>a, <1>b, <1>c DEF IInv, ReviewsDecide, Alone, Typed, Step
<1>7. QED  BY <1>1, <1>2, <1>3, <1>4, <1>5, <1>6 DEF IInv

(* An acceptance that cannot be recorded is left as uncertain.              *)
LEMMA CommitFailsKeeps ==
  ASSUME IInv, NEW w \in Worker, CommitFails(w)
  PROVE  IInv'
<1>a. /\ Typed /\ Alone(w) /\ at[w] = "commit" /\ at'[w] = "record" /\ on'[w] = on[w]
      /\ found'[w] = "UNCERTAIN" /\ found'[w] \in Result
      /\ UNCHANGED <<policy, intents, delivered, holds, review, scan>>
  BY FailAlone DEF CommitFails, IInv, Result
<1>1. TypeOK'
  BY <1>a DEF IInv, TypeOK, Alone, Typed, Step, Result
<1>2. OneWorks'
  BY <1>a, WorkersHaveOne DEF IInv, OneWorks, Alone
<1>3. DeliveryIsKnown'
  BY <1>a, WorkersHaveOne DEF IInv, OneWorks, DeliveryIsKnown, Alone
<1>4. Generations' /\ ClosedIsClear' /\ ReviewsDecide'
  BY <1>a DEF IInv, Generations, ClosedIsClear, ReviewsDecide, Alone, Typed, Step,
       Result
<1>5. QED  BY <1>1, <1>2, <1>3, <1>4 DEF IInv

(* A failure is recorded under the lease, as what is known of the delivery. *)
LEMMA RecordKeeps ==
  ASSUME IInv, NEW w \in Worker, NEW written \in BOOLEAN, Record(w, written)
  PROVE  IInv'
<1>a. /\ at[w] = "record" /\ on[w] \in Attempt
      /\ Goto(w, "hold") \/ Rest(w)
      /\ UNCHANGED <<policy, made, pinned, delivered, holds, review, scan>>
      /\ \/ UNCHANGED <<intent, owner>>
         \/ /\ intent[on[w]] = "SENDING"
            /\ Becomes(on[w], Recorded(found[w])) /\ Free(on[w])
  BY DEF Record, Own, IInv, TypeOK, OneWorks
<1>b. Typed /\ Alone(w) /\ at'[w] \in {"idle", "hold"} /\ (at'[w] # "idle" => on'[w] = on[w])
  BY <1>a, GotoAlone, RestAlone DEF IInv, Step
<1>c. /\ Recorded(found[w]) \in {"UNCERTAIN", "PENDING", "FAILED"}
      /\ Recorded(found[w]) # "UNCERTAIN" => delivered[on[w]] = 0
  <2>1. CASE found[w] = "UNCERTAIN"
    BY <2>1 DEF Recorded
  <2>2. CASE found[w] = "WAIT"
    BY <1>a, <2>2 DEF Recorded, IInv, DeliveryIsKnown
  <2>3. CASE found[w] \notin {"UNCERTAIN", "WAIT"}
    BY <1>a, <2>3 DEF Recorded, IInv, DeliveryIsKnown
  <2>. QED  BY <2>1, <2>2, <2>3
<1>d. \/ UNCHANGED <<intent, owner>>
      \/ /\ intent[on[w]] = "SENDING" /\ intent'[on[w]] \in {"UNCERTAIN", "PENDING", "FAILED"}
         /\ intent'[on[w]] # "UNCERTAIN" => delivered[on[w]] = 0
         /\ intent' \in [Attempt -> IntentState] /\ owner' \in [Attempt -> Worker \cup {None}]
         /\ \A m \in Attempt : m # on[w] => intent'[m] = intent[m] /\ owner'[m] = owner[m]
  <2>1. Recorded(found[w]) \in IntentState
    BY <1>c DEF IntentState
  <2>2. CASE Becomes(on[w], Recorded(found[w])) /\ Free(on[w]) /\ intent[on[w]] = "SENDING"
    <3>1. /\ owner' \in [Attempt -> Worker \cup {None}]
          /\ \A m \in Attempt : m # on[w] => owner'[m] = owner[m]
      BY <1>a, <2>2 DEF Free, IInv, TypeOK
    <3>. QED  BY <1>a, <1>c, <2>1, <2>2, <3>1, BecomesOne DEF IInv
  <2>. QED  BY <1>a, <2>2
<1>1. TypeOK'
  BY <1>a, <1>b, <1>d DEF IInv, TypeOK, Alone, Typed, Step
<1>2. Generations'
  BY <1>a, <1>b, <1>d, LastLives DEF IInv, Generations
<1>3. OneWorks'
  BY <1>a, <1>b, <1>d, WorkersHaveOne DEF IInv, OneWorks, Alone
<1>4. DeliveryIsKnown'
  BY <1>a, <1>b, <1>d, WorkersHaveOne DEF IInv, OneWorks, DeliveryIsKnown, Alone
<1>5. ClosedIsClear'
  BY <1>a, <1>b, <1>d DEF IInv, ClosedIsClear
<1>6. ReviewsDecide'
  BY <1>a, <1>b, <1>d DEF IInv, ReviewsDecide, Alone, Typed, Step
<1>7. QED  BY <1>1, <1>2, <1>3, <1>4, <1>5, <1>6 DEF IInv

(* A refused template holds only an attempt known not sent.                 *)
LEMMA HoldKeeps ==
  ASSUME IInv, NEW w \in Worker, Hold(w)
  PROVE  IInv'
<1>a. /\ \/ UNCHANGED intent
         \/ \E n \in Attempt : intent[n] \in NotSent /\ intent' = [intent EXCEPT ![n] = "BLOCKED"]
      /\ hold' \in HoldState /\ version' \in Nat /\ cited' \in Attempt \cup {None}
      /\ hold' = "CLOSED" <=> hold = "CLOSED"
  BY BlockHolds DEF Hold, IInv, TypeOK
<1>b. at[w] = "hold" /\ Rest(w) /\ UNCHANGED <<policy, made, pinned, owner, delivered, review, scan>>
  BY DEF Hold
<1>c. Typed /\ Alone(w) /\ at'[w] = "idle"
  BY <1>b, RestAlone DEF IInv
<1>d. /\ intent' \in [Attempt -> IntentState]
      /\ \A m \in Attempt : intent'[m] = intent[m] \/ (intent[m] \in NotSent /\ intent'[m] = "BLOCKED")
  BY <1>a DEF IInv, TypeOK, IntentState
<1>1. TypeOK'
  BY <1>b, <1>c, <1>d, <1>a DEF IInv, TypeOK, Alone, Typed, Step
<1>2. Generations'
  BY <1>b, <1>c, <1>d DEF IInv, Generations
<1>3. OneWorks'
  BY <1>b, <1>c, <1>d, WorkersHaveOne DEF IInv, OneWorks, Alone
<1>4. DeliveryIsKnown'
  BY <1>b, <1>c, <1>d, WorkersHaveOne DEF IInv, OneWorks, DeliveryIsKnown, Alone
<1>5. ClosedIsClear'
  BY <1>b, <1>c, <1>d, <1>a DEF IInv, ClosedIsClear
<1>6. ReviewsDecide'
  BY <1>b, <1>c, <1>d DEF IInv, ReviewsDecide, Alone, Typed, Step
<1>7. QED  BY <1>1, <1>2, <1>3, <1>4, <1>5, <1>6 DEF IInv

(* A worker that stops leaves its attempt to the expiry of its lease.       *)
LEMMA CrashKeeps ==
  ASSUME IInv, NEW w \in Worker, Crash(w)
  PROVE  IInv'
<1>a. Typed /\ Alone(w) /\ at'[w] = "idle" /\ UNCHANGED <<policy, intents, delivered, holds, review, scan>>
  BY RestAlone DEF Crash, IInv
<1>1. TypeOK'
  BY <1>a DEF IInv, TypeOK, Alone, Typed, Step
<1>2. OneWorks'
  BY <1>a, WorkersHaveOne DEF IInv, OneWorks, Alone
<1>3. DeliveryIsKnown'
  BY <1>a, WorkersHaveOne DEF IInv, OneWorks, DeliveryIsKnown, Alone
<1>4. Generations' /\ ClosedIsClear' /\ ReviewsDecide'
  BY <1>a DEF IInv, Generations, ClosedIsClear, ReviewsDecide, Alone, Typed, Step
<1>5. QED  BY <1>1, <1>2, <1>3, <1>4 DEF IInv

(* A lost lease leaves the attempt to its worker only.                      *)
LEMMA ExpireLeaseKeeps ==
  ASSUME IInv, NEW n \in Attempt, ExpireLease(n)
  PROVE  IInv'
<1>1. TypeOK'
  BY DEF IInv, TypeOK, Becomes, Free, ExpireLease, IntentState
<1>2. Generations'
  BY DEF IInv, TypeOK, Generations, Becomes, Free, ExpireLease
<1>3. OneWorks'
  BY DEF IInv, TypeOK, OneWorks, Becomes, Free, ExpireLease
<1>4. DeliveryIsKnown'
  BY DEF IInv, TypeOK, DeliveryIsKnown, Becomes, Free, ExpireLease
<1>5. ClosedIsClear'
  BY DEF IInv, TypeOK, ClosedIsClear, Becomes, Free, ExpireLease
<1>6. ReviewsDecide'
  BY DEF IInv, ReviewsDecide, Becomes, Free, ExpireLease
<1>7. QED  BY <1>1, <1>2, <1>3, <1>4, <1>5, <1>6 DEF IInv

-----------------------------------------------------------------------------
(* Nothing was prepared yet: the inductive invariant holds.                 *)
LEMMA InitKeeps == Init => IInv
<1>. SUFFICES ASSUME Init PROVE IInv
  OBVIOUS
<1>1. TypeOK
  BY BoundsAssumption DEF Init, TypeOK, IntentState, HoldState
<1>2. Generations /\ OneWorks /\ DeliveryIsKnown
  BY BoundsAssumption DEF Init, Generations, OneWorks, DeliveryIsKnown
<1>3. ClosedIsClear /\ ReviewsDecide
  BY NoneAssumption DEF Init, ClosedIsClear, ReviewsDecide
<1>. QED  BY <1>1, <1>2, <1>3 DEF IInv

(* Every step preserves it.                                                 *)
LEMMA StepKeeps == IInv /\ [Next]_vars => IInv'
<1>. SUFFICES ASSUME IInv, [Next]_vars PROVE IInv'
  OBVIOUS
<1>1. CASE UNCHANGED vars
  BY <1>1 DEF vars, IInv, TypeOK, Generations, OneWorks, DeliveryIsKnown, ClosedIsClear,
     ReviewsDecide
<1>2. CASE Prepare \/ Settle \/ Reconcile
  BY <1>2, PrepareKeeps, SettleKeeps, ReconcileKeeps
<1>3. CASE \E allows \in BOOLEAN : Change(allows)
  BY <1>3, ChangeKeeps
<1>4. CASE \E n \in Attempt : Scan(n) \/ ExpireLease(n)
  BY <1>4, ScanKeeps, ExpireLeaseKeeps
<1>5. CASE \E r \in Review : Preview(r) \/ Confirm(r)
  BY <1>5, PreviewKeeps, ConfirmKeeps
<1>6. ASSUME NEW w \in Worker, Sending(w) PROVE IInv'
  BY <1>6, StartKeeps, ClaimKeeps, ValidateKeeps, RefuseKeeps, DeliverKeeps, RejectKeeps,
     CommitKeeps, CommitFailsKeeps, RecordKeeps, HoldKeeps, CrashKeeps DEF Sending
<1>. QED  BY <1>1, <1>2, <1>3, <1>4, <1>5, <1>6 DEF Next

THEOREM Invariant == Spec => []IInv
BY InitKeeps, StepKeeps, PTL DEF Spec

-----------------------------------------------------------------------------
(* Every state is one the schema has, and references are to real rows.      *)
THEOREM TypeCorrect == Spec => []TypeOK
<1>1. IInv => TypeOK
  BY DEF IInv
<1>. QED  BY <1>1, Invariant, PTL

(* A retry can never produce a second transmission: over every generation,  *)
(* worker, lost lease and review, the recipient gets the message at most    *)
(* once, and one generation at most is in flight or unclear.                *)
THEOREM GoesOutOnce == Spec => []SentOnce
<1>1. IInv => SentOnce
  <2>. SUFFICES ASSUME IInv, NEW n \in Attempt, NEW m \in Attempt
       PROVE  /\ delivered[n] <= 1
              /\ delivered[n] = 1 /\ delivered[m] = 1 => n = m
              /\ intent[n] \in Live /\ intent[m] \in Live => n = m
    BY DEF SentOnce
  <2>1. \A k \in Attempt : intent[k] \in Live => k = made
    BY LastLives
  <2>2. \A k \in Attempt : delivered[k] = 1 => intent[k] \in Live
    BY DEF IInv, TypeOK, IntentState, DeliveryIsKnown
  <2>. QED  BY <2>1, <2>2 DEF IInv, DeliveryIsKnown
<1>. QED  BY <1>1, Invariant, PTL

(* What is recorded of an attempt is true of what the provider did, and an  *)
(* acceptance can be recorded however late it is heard.                     *)
THEOREM RecordsAreTrue == Spec => []StatesAreTrue
<1>1. IInv => StatesAreTrue
  <2>. SUFFICES ASSUME IInv PROVE StatesAreTrue
    OBVIOUS
  <2>1. \A n \in Attempt :
          /\ intent[n] \in NotSent => delivered[n] = 0
          /\ intent[n] = "ACCEPTED" => delivered[n] = 1
    BY DEF IInv, DeliveryIsKnown
  <2>2. \A w \in Worker : at[w] = "commit" => Proven(w, on[w])
    BY DEF IInv, OneWorks, Proven, Own
  <2>3. hold = "CLOSED" => LiveStates \subseteq {"ACCEPTED"}
    BY BoundsAssumption DEF IInv, TypeOK, ClosedIsClear, LiveStates
  <2>. QED  BY <2>1, <2>2, <2>3 DEF StatesAreTrue
<1>. QED  BY <1>1, Invariant, PTL

-----------------------------------------------------------------------------
(***************************************************************************)
(* The channel: its recipients are within a limit of those who reserved.   *)
(***************************************************************************)
(* A message is sent on a unit of the window.                               *)
UnitTaken == \A i \in Intent : sending[i] = "sends" => reserved[i] < Window

(* Of any recipients that have a unit, one, the last to take its own, took  *)
(* it under a limit that allows for all of them.                            *)
Shared ==
  \A S \in SUBSET C!Recent : S # {} =>
    \E r \in S : unit[r] = Unlimited \/ Cardinality(S) <= unit[r]

ChannelInv == C!TypeOK /\ UnitTaken /\ Shared

LEMMA Numbers ==
  /\ Window \in Nat /\ Window > 0
  /\ Limits \cup {Fallback} \subseteq Nat
BY ChannelAssumption

LEMMA SameCount == ASSUME NEW S PROVE C!Cardinality(S) = Cardinality(S)
BY DEF C!Cardinality, Cardinality

(* The recipients with a unit are finitely many.                            *)
LEMMA FewRecent == IsFiniteSet(C!Recent) /\ C!Recent \subseteq C!Recipient
<1>. DEFINE T == {j \in Intent : reserved[j] < Window}
            f == [i \in T |-> To[i]]
<1>1. IsFiniteSet(T)
  BY ChannelAssumption, FS_Subset
<1>2. f \in Surjection(T, C!Recent)
  BY DEF C!Recent, Surjection
<1>. QED  BY <1>1, <1>2, FS_Surjection DEF C!Recent, C!Recipient

LEMMA RecentOnes ==
  /\ \A i \in Intent : reserved[i] < Window => To[i] \in C!Recent
  /\ \A r \in C!Recent : \E i \in Intent : To[i] = r /\ reserved[i] < Window
BY DEF C!Recent

LEMMA RecentOnesNext ==
  /\ \A i \in Intent : reserved'[i] < Window => To[i] \in C!Recent'
  /\ \A r \in C!Recent' : \E i \in Intent : To[i] = r /\ reserved'[i] < Window
BY DEF C!Recent

LEMMA ChannelBegins == C!Init => ChannelInv
<1>. SUFFICES ASSUME C!Init PROVE ChannelInv
  OBVIOUS
<1>1. C!TypeOK
  BY Numbers DEF C!Init, C!TypeOK, C!NoTier, C!Ages
<1>2. UnitTaken
  BY DEF C!Init, UnitTaken
<1>3. C!Recent = {}
  BY Numbers DEF C!Init, C!Recent
<1>. QED  BY <1>1, <1>2, <1>3 DEF ChannelInv, Shared

(* A subset of what had units shares them as before.                        *)
LEMMA FewerShare ==
  ASSUME Shared, C!Recent' \subseteq C!Recent, unit' = unit
  PROVE  Shared'
BY DEF Shared

LEMMA AskKeeps ==
  ASSUME ChannelInv, NEW i \in Intent, C!Ask(i)
  PROVE  ChannelInv'
<1>1. /\ sending' = [sending EXCEPT ![i] = "asks"] /\ UNCHANGED <<tier, reserved, unit>>
      /\ read'[i] \in Limits \cup {Fallback} /\ read' = [read EXCEPT ![i] = read'[i]]
  BY DEF C!Ask, C!ChannelLimit, ChannelInv, C!TypeOK
<1>2. C!TypeOK'
  BY <1>1 DEF ChannelInv, C!TypeOK
<1>3. UnitTaken'
  BY <1>1 DEF ChannelInv, C!TypeOK, UnitTaken
<1>4. Shared'
  BY <1>1, FewerShare DEF ChannelInv, C!Recent
<1>. QED  BY <1>2, <1>3, <1>4 DEF ChannelInv

LEMMA ReserveUnitKeeps ==
  ASSUME ChannelInv, NEW i \in Intent, C!Reserve(i)
  PROVE  ChannelInv'
<1>1. /\ sending[i] = "asks"
      /\ read' = [read EXCEPT ![i] = Fallback] /\ UNCHANGED tier
      /\ \/ sending' = [sending EXCEPT ![i] = "sends"] /\ reserved[i] < Window /\ UNCHANGED <<reserved, unit>>
         \/ sending' = [sending EXCEPT ![i] = "waits"] /\ UNCHANGED <<reserved, unit>>
         \/ /\ sending' = [sending EXCEPT ![i] = "sends"]
            /\ reserved[i] = Window /\ reserved' = [reserved EXCEPT ![i] = 0]
            /\ C!Free(i)
            /\ unit' = IF To[i] \in C!Recent THEN unit ELSE [unit EXCEPT ![To[i]] = read[i]]
  BY DEF C!Reserve
<1>2. C!TypeOK'
  <2>1. unit' \in [C!Recipient -> Limits \cup {Fallback}]
    BY <1>1 DEF ChannelInv, C!TypeOK, C!Recipient
  <2>2. reserved' \in [Intent -> C!Ages]
    BY <1>1, Numbers DEF ChannelInv, C!TypeOK, C!Ages
  <2>. QED  BY <1>1, <2>1, <2>2 DEF ChannelInv, C!TypeOK
<1>3. UnitTaken'
  BY <1>1, Numbers DEF ChannelInv, C!TypeOK, UnitTaken, C!Ages
<1>4. CASE UNCHANGED <<reserved, unit>>
  <2>1. Shared'
    BY <1>4, FewerShare DEF ChannelInv, C!Recent
  <2>. QED  BY <1>2, <1>3, <2>1 DEF ChannelInv
<1>5. CASE /\ reserved[i] = Window /\ reserved' = [reserved EXCEPT ![i] = 0]
           /\ C!Free(i)
           /\ unit' = IF To[i] \in C!Recent THEN unit ELSE [unit EXCEPT ![To[i]] = read[i]]
  <2>1. C!Recent' = C!Recent \cup {To[i]}
    <3>1. \A j \in Intent : reserved'[j] < Window <=> (j = i \/ reserved[j] < Window)
      BY <1>5, Numbers DEF ChannelInv, C!TypeOK
    <3>. QED  BY <3>1, RecentOnes, RecentOnesNext
  <2>2. CASE To[i] \in C!Recent
    <3>1. Shared'
      BY <1>5, <2>1, <2>2, FewerShare DEF ChannelInv
    <3>. QED  BY <1>2, <1>3, <3>1 DEF ChannelInv
  <2>3. CASE To[i] \notin C!Recent
    <3>0. /\ read[i] \in Nat /\ To[i] \in C!Recipient
          /\ unit \in [C!Recipient -> Limits \cup {Fallback}]
      BY Numbers DEF ChannelInv, C!TypeOK, C!Recipient
    <3>1. unit'[To[i]] = read[i] /\ \A r \in C!Recent : unit'[r] = unit[r]
      BY <1>5, <2>3, <3>0, FewRecent
    <3>2. IsFiniteSet(C!Recent') /\ Cardinality(C!Recent') = Cardinality(C!Recent) + 1
          /\ Cardinality(C!Recent) \in Nat
      BY <2>1, <2>3, FewRecent, FS_AddElement, FS_CardinalityType
    <3>3. read[i] = Unlimited \/ Cardinality(C!Recent') <= read[i]
      BY <1>5, <2>3, <3>0, <3>2, SameCount DEF C!Free
    <3>4. ASSUME NEW S \in SUBSET C!Recent', S # {}
          PROVE  \E r \in S : unit'[r] = Unlimited \/ Cardinality(S) <= unit'[r]
      <4>1. CASE To[i] \in S
        <5>1. Cardinality(S) <= Cardinality(C!Recent') /\ Cardinality(S) \in Nat
          BY <3>2, FS_Subset, FS_CardinalityType
        <5>. QED  BY <4>1, <5>1, <3>0, <3>1, <3>2, <3>3
      <4>2. CASE To[i] \notin S
        <5>1. S \in SUBSET C!Recent
          BY <2>1, <4>2
        <5>. QED  BY <3>1, <3>4, <5>1 DEF ChannelInv, Shared
      <4>. QED  BY <4>1, <4>2
    <3>5. Shared'
      BY <3>4 DEF Shared
    <3>. QED  BY <1>2, <1>3, <3>5 DEF ChannelInv
  <2>. QED  BY <2>2, <2>3
<1>. QED  BY <1>1, <1>4, <1>5

LEMMA TransmitKeeps ==
  ASSUME ChannelInv, NEW i \in Intent, C!Transmit(i) \/ C!TransmitFails(i)
  PROVE  ChannelInv'
<1>1. /\ UNCHANGED <<tier, reserved, read, unit>>
      /\ \/ sending' = [sending EXCEPT ![i] = "sent"]
         \/ sending' = [sending EXCEPT ![i] = "waits"]
  BY DEF C!Transmit, C!TransmitFails
<1>2. C!TypeOK'
  BY <1>1 DEF ChannelInv, C!TypeOK
<1>3. UnitTaken'
  BY <1>1 DEF ChannelInv, C!TypeOK, UnitTaken
<1>4. Shared'
  BY <1>1, FewerShare DEF ChannelInv, C!Recent
<1>. QED  BY <1>2, <1>3, <1>4 DEF ChannelInv

LEMMA TickKeeps == ASSUME ChannelInv, C!Tick PROVE ChannelInv'
<1>1. ASSUME NEW age \in C!Ages
      PROVE  C!Older(age) \in C!Ages /\ C!Older(age) >= age
  BY Numbers DEF C!Older, C!Ages
<1>2. /\ \A i \in Intent : /\ reserved[i] \in C!Ages /\ reserved'[i] = C!Older(reserved[i])
                           /\ sending'[i] # "sends"
      /\ UNCHANGED <<sending, read, unit>>
  BY DEF ChannelInv, C!TypeOK, C!Tick
<1>3. C!TypeOK'
  <2>1. reserved' \in [Intent -> C!Ages]
    BY <1>1 DEF C!Tick, ChannelInv, C!TypeOK
  <2>2. tier' \in [limit : Limits \cup {Fallback}, age : C!Ages]
    BY <1>1 DEF C!Tick, ChannelInv, C!TypeOK
  <2>. QED  BY <1>2, <2>1, <2>2 DEF ChannelInv, C!TypeOK
<1>4. UnitTaken'
  BY <1>2 DEF UnitTaken
<1>5. C!Recent' \subseteq C!Recent
  <2>1. \A i \in Intent : reserved'[i] < Window => reserved[i] < Window
    BY <1>1, <1>2, Numbers DEF C!Ages
  <2>. QED  BY <2>1, RecentOnes, RecentOnesNext
<1>6. Shared'
  BY <1>2, <1>5, FewerShare DEF ChannelInv
<1>. QED  BY <1>3, <1>4, <1>6 DEF ChannelInv

LEMMA ChannelKeeps == ASSUME ChannelInv, C!Next PROVE ChannelInv'
<1>1. ASSUME NEW limit \in Limits, C!Sync(limit) PROVE ChannelInv'
  <2>1. UNCHANGED <<reserved, sending, read, unit>> /\ tier' \in [limit : Limits \cup {Fallback}, age : C!Ages]
    BY <1>1, Numbers DEF C!Sync, C!Ages
  <2>2. C!TypeOK' /\ UnitTaken'
    BY <2>1 DEF ChannelInv, C!TypeOK, UnitTaken
  <2>3. Shared'
    BY <2>1, FewerShare DEF ChannelInv, C!Recent
  <2>. QED  BY <2>2, <2>3 DEF ChannelInv
<1>. QED  BY <1>1, AskKeeps, ReserveUnitKeeps, TransmitKeeps, TickKeeps DEF C!Next

LEMMA ChannelRests == ASSUME ChannelInv, UNCHANGED capacityVars PROVE ChannelInv'
<1>1. C!TypeOK' /\ UnitTaken'
  BY DEF capacityVars, ChannelInv, C!TypeOK, UnitTaken
<1>2. Shared'
  BY FewerShare DEF capacityVars, ChannelInv, C!Recent
<1>. QED  BY <1>1, <1>2 DEF ChannelInv

LEMMA ChannelIsShared == ChannelInv => LimitIsKept
<1>. SUFFICES ASSUME ChannelInv PROVE LimitIsKept
  OBVIOUS
<1>1. \A i \in Intent : sending[i] = "sends" => To[i] \in C!Recent
  BY RecentOnes DEF ChannelInv, UnitTaken
<1>2. C!Recent = {} \/ \E r \in C!Recent : unit[r] = Unlimited \/ Cardinality(C!Recent) <= unit[r]
  BY DEF ChannelInv, Shared
<1>. QED  BY <1>1, <1>2, SameCount DEF LimitIsKept, C!LimitIsKept

-----------------------------------------------------------------------------
(***************************************************************************)
(* The notices of Datafy: whatever their order, what was told of a message *)
(* has come to the latest of its statuses.                                 *)
(***************************************************************************)
Happening == {"sent", "delivered", "read", "failed"}
MessageRow == [known : BOOLEAN, status : Happening \cup {"sending", "accepted"}, since : Nat]

\* The statuses that were told and found the message.
Told == {e \in N!Status : event[e] \in {"APPLIED", "STALE"}}

\* Of two in one second: x leaves the message as e says.
Yields(x, e) ==
  \/ N!Rank(story[x].status) <= N!Rank(story[e].status)
  \/ story[x].status = "sent" /\ story[e].status = "failed"

(* The message is as e says, and none of the events is later.               *)
LastIs(m, events, e) ==
  /\ m.since = story[e].second /\ m.status = story[e].status
  /\ \A x \in events :
       /\ story[x].second <= m.since
       /\ story[x].second = m.since => Yields(x, e)

(* The message is as the latest of the events says, or as it was accepted.  *)
StandsAt(m, events) ==
  /\ m \in MessageRow /\ m.known
  /\ events = {} => m.since = 0 /\ m.status = "accepted"
  /\ events # {} => \E e \in events : LastIs(m, events, e)

(* A transaction under way: its delivery is stored, and what it found was   *)
(* there.                                                                   *)
Writes(x) == row[x.of].state # "NONE" /\ (x.found => came)

(* What came is recorded and counted together.                              *)
NoticeInv ==
  /\ N!TypeOK
  /\ row \in [Delivery -> N!Row \cup {[state |-> "NONE"]}]
  /\ message \in MessageRow
  /\ IF message.known THEN StandsAt(message, Told) ELSE Told = {} /\ message.since = 0
  /\ inbox = IF came THEN 1 ELSE 0
  /\ \A d \in Delivery : row[d].state = "PROCESSED" /\ N!Brings(d) => came
  /\ \A w \in Reader : job[w].does = "write" => Writes(job[w])

(* Induction on the natural numbers, as a fact about sets.                  *)
LEMMA Climbing ==
  ASSUME NEW T, 0 \in T, \A n \in Nat : n \in T => n + 1 \in T
  PROVE  Nat \subseteq T
<1>. SUFFICES ASSUME Nat \ T # {} PROVE FALSE
  OBVIOUS
<1>0. \E n \in Nat \ T : \A m \in Nat \ T : ~(m < n)
  <2>1. PICK n \in Nat \ T : \A m \in Nat \ T : <<m, n>> \notin OpToRel(<, Nat)
    BY WFMin, NatLessThanWellFounded
  <2>. QED  BY <2>1 DEF OpToRel
<1>1. PICK n \in Nat \ T : \A m \in Nat \ T : ~(m < n)
  BY <1>0
<1>2. n # 0 /\ n - 1 \in Nat
  BY <1>1
<1>3. n - 1 \in T
  BY <1>1, <1>2
<1>4. (n - 1) + 1 = n
  BY <1>1
<1>. QED  BY <1>1, <1>2, <1>3, <1>4

(* The events of the places up to one.                                      *)
LEMMA UpToIs ==
  ASSUME NEW es, NEW T, \A k \in T : k \in Nat /\ 1 <= k
  PROVE  /\ {es[k] : k \in {j \in T : j <= 0}} = {}
         /\ \A n \in Nat :
              /\ n + 1 \notin T =>
                   {es[k] : k \in {j \in T : j <= n + 1}} = {es[k] : k \in {j \in T : j <= n}}
              /\ n + 1 \in T =>
                   {es[k] : k \in {j \in T : j <= n + 1}}
                     = {es[k] : k \in {j \in T : j <= n}} \cup {es[n + 1]}
<1>1. {j \in T : j <= 0} = {}
  OBVIOUS
<1>2. ASSUME NEW n \in Nat
      PROVE  /\ n + 1 \notin T => {j \in T : j <= n + 1} = {j \in T : j <= n}
             /\ n + 1 \in T => {j \in T : j <= n + 1} = {j \in T : j <= n} \cup {n + 1}
  OBVIOUS
<1>. QED  BY <1>1, <1>2

(* What may become of a message.                                            *)
LEMMA Stories1 ==
  ASSUME NoticeInv
  PROVE  /\ Len(story) \in Nat /\ N!Status = 1 .. Len(story)
         /\ \A e \in N!Status :
              story[e].status \in Happening /\ story[e].second \in Nat /\ story[e].second >= 1
         /\ \A a, e \in N!Status : a < e =>
              /\ story[a].second <= story[e].second
              /\ story[e].status \in {"sent", "failed"} => story[a].status \in {"sent", "failed"}
              /\ story[e].status = "delivered" => story[a].status # "read"
<1>1. story \in Story
  BY DEF NoticeInv, N!TypeOK
<1>2. story \in Seq([status : Happening, second : Nat \ {0}])
  BY <1>1, StoryAssumption DEF Happening
<1>3. \A e \in N!Status : story[e] \in [status : Happening, second : Nat \ {0}]
  <2>. DEFINE S == [status : Happening, second : Nat \ {0}]
  <2>1. story \in Seq(S)
    BY <1>2
  <2>. HIDE DEF S
  <2>2. \A e \in DOMAIN story : story[e] \in S
    BY <2>1
  <2>. QED  BY <2>2 DEF S, N!Status
<1>. QED  BY <1>1, <1>2, <1>3, StoryAssumption DEF N!Status

LEMMA RankIs ==
  /\ N!Rank("sent") = 1 /\ N!Rank("delivered") = 2 /\ N!Rank("read") = 3
  /\ N!Rank("failed") = 0 /\ N!Rank("accepted") = 0
BY DEF N!Rank

(* One event more: stale, it yields to the one the message stands at, and   *)
(* applied, that one and those that yielded to it yield.                    *)
LEMMA OneMore ==
  ASSUME NoticeInv, NEW T \in SUBSET N!Status, NEW m, StandsAt(m, T), NEW e \in N!Status \ T
  PROVE  StandsAt(N!Applied(m, e), T \cup {e})
<1>0. /\ m \in MessageRow /\ m.known /\ m.since \in Nat
      /\ story[e].status \in Happening /\ story[e].second \in Nat /\ story[e].second >= 1
      /\ N!Rank(story[e].status) \in Nat
      /\ \A x \in T : /\ story[x].status \in Happening /\ story[x].second \in Nat
                      /\ N!Rank(story[x].status) \in Nat
  BY Stories1, RankIs DEF StandsAt, MessageRow, Happening
<1>1. Yields(e, e)
  BY <1>0 DEF Yields
<1>2. ASSUME ~N!Stale(m, e), \A x \in T : /\ story[x].second <= story[e].second
                                          /\ story[x].second = story[e].second => Yields(x, e)
      PROVE  StandsAt(N!Applied(m, e), T \cup {e})
  <2>1. N!Applied(m, e) = [m EXCEPT !.status = story[e].status, !.since = story[e].second]
    BY <1>0, <1>2 DEF N!Applied
  <2>2. /\ N!Applied(m, e) \in MessageRow /\ N!Applied(m, e).known
        /\ N!Applied(m, e).since = story[e].second /\ N!Applied(m, e).status = story[e].status
    BY <1>0, <2>1 DEF MessageRow
  <2>3. LastIs(N!Applied(m, e), T \cup {e}, e)
    BY <1>0, <1>1, <1>2, <2>2 DEF LastIs
  <2>. QED  BY <2>2, <2>3 DEF StandsAt
<1>3. CASE T = {}
  <2>1. m.since = 0 /\ m.status = "accepted"
    BY <1>3 DEF StandsAt
  <2>2. ~N!Stale(m, e)
    BY <1>0, <2>1, RankIs DEF N!Stale, Happening
  <2>. QED  BY <1>2, <1>3, <2>2
<1>4. CASE T # {}
  <2>1. PICK w \in T : LastIs(m, T, w)
    BY <1>4 DEF StandsAt
  <2>2. /\ w \in N!Status /\ m.since = story[w].second /\ m.status = story[w].status
        /\ m.status \in Happening /\ N!Rank(m.status) \in Nat
        /\ \A x \in T : /\ story[x].second <= m.since
                        /\ story[x].second = m.since => Yields(x, w)
    BY <1>0, <2>1 DEF LastIs
  <2>3. ASSUME story[e].second > m.since PROVE ~N!Stale(m, e)
    <3>1. w < e
      <4>1. w \in Nat /\ e \in Nat /\ w # e
        BY <2>2, Stories1
      <4>2. ~(e < w)
        BY <1>0, <2>2, <2>3, Stories1
      <4>. QED  BY <4>1, <4>2
    <3>2. /\ story[e].status \in {"sent", "failed"} => m.status \in {"sent", "failed"}
          /\ story[e].status = "delivered" => m.status # "read"
      BY <2>2, <3>1, Stories1
    <3>. QED  BY <1>0, <2>2, <2>3, <3>2, RankIs DEF N!Stale, Happening
  <2>4. CASE N!Stale(m, e)
    <3>1. story[e].second <= m.since
      BY <1>0, <2>3, <2>4
    <3>2. N!Applied(m, e) = m
      BY <2>4 DEF N!Applied
    <3>3. story[e].second = m.since => Yields(e, w)
      BY <1>0, <2>2, <2>4, RankIs DEF N!Stale, Yields, Happening
    <3>4. LastIs(m, T \cup {e}, w)
      BY <2>2, <3>1, <3>3 DEF LastIs
    <3>. QED  BY <1>0, <1>4, <3>2, <3>4 DEF StandsAt
  <2>5. CASE ~N!Stale(m, e)
    <3>1. m.since <= story[e].second
      BY <1>0, <2>5 DEF N!Stale
    <3>2. ASSUME NEW x \in T, story[x].second = story[e].second PROVE Yields(x, e)
      <4>1. story[x].second = m.since
        BY <1>0, <2>2, <3>1, <3>2
      <4>2. Yields(x, w)
        BY <2>2, <4>1
      <4>3. story[x].status \in Happening
        BY <1>0
      <4>. QED  BY <1>0, <2>2, <2>5, <4>2, <4>3, RankIs DEF N!Stale, Yields, Happening
    <3>3. \A x \in T : story[x].second <= story[e].second
      BY <1>0, <2>2, <3>1
    <3>. QED  BY <1>2, <2>5, <3>2, <3>3
  <2>. QED  BY <2>4, <2>5
<1>. QED  BY <1>3, <1>4

(* The message after each event, as the recursion says.                     *)
LEMMA AfterSteps ==
  ASSUME NEW es, Len(es) \in Nat, NEW todo
  PROVE  /\ N!After(es, todo)[0] = message
         /\ \A n \in 1 .. Len(es) :
              N!After(es, todo)[n] = IF n \in todo THEN N!Applied(N!After(es, todo)[n - 1], es[n])
                                     ELSE N!After(es, todo)[n - 1]
<1>. DEFINE Body(g, n) == IF n = 0 THEN message
                          ELSE IF n \in todo THEN N!Applied(g[n - 1], es[n]) ELSE g[n - 1]
            UpTo == {n \in Nat : \E g : g = [k \in 0 .. n |-> Body(g, k)]}
<1>1. 0 \in UpTo
  <2>1. \E g : g = [k \in 0 .. 0 |-> Body(g, k)]
    <3>1. [k \in 0 .. 0 |-> message] = [k \in 0 .. 0 |-> Body([f \in 0 .. 0 |-> message], k)]
      OBVIOUS
    <3>. HIDE DEF Body
    <3>. QED  BY <3>1
  <2>. HIDE DEF Body
  <2>. QED  BY <2>1
<1>2. ASSUME NEW n \in Nat, n \in UpTo PROVE n + 1 \in UpTo
  <2>1. PICK f : f = [k \in 0 .. n |-> Body(f, k)]
    BY <1>2
  <2>. DEFINE g == [k \in 0 .. n + 1 |-> IF k <= n THEN f[k] ELSE Body(f, k)]
  <2>2. ASSUME NEW k \in 0 .. n + 1 PROVE g[k] = Body(g, k)
    <3>1. k # 0 => k - 1 \in 0 .. n /\ g[k - 1] = f[k - 1]
      OBVIOUS
    <3>2. Body(g, k) = Body(f, k)
      BY <3>1
    <3>3. k <= n => k \in 0 .. n /\ f[k] = Body(f, k)
      BY <2>1
    <3>. QED  BY <3>2, <3>3
  <2>3. g = [k \in 0 .. n + 1 |-> g[k]]
    OBVIOUS
  <2>. HIDE DEF g, Body
  <2>4. g = [k \in 0 .. n + 1 |-> Body(g, k)]
    BY <2>2, <2>3
  <2>5. \E h : h = [k \in 0 .. n + 1 |-> Body(h, k)]
    BY <2>4
  <2>. QED  BY <2>5
<1>3. Len(es) \in UpTo
  <2>. HIDE DEF UpTo
  <2>. QED  BY <1>1, <1>2, Climbing
<1>4. N!After(es, todo) = CHOOSE g : g = [k \in 0 .. Len(es) |-> Body(g, k)]
  BY DEF N!After
<1>5. N!After(es, todo) = [k \in 0 .. Len(es) |-> Body(N!After(es, todo), k)]
  BY <1>3, <1>4
<1>6. \A k \in 0 .. Len(es) : N!After(es, todo)[k] = Body(N!After(es, todo), k)
  BY <1>5
<1>. QED  BY <1>6

\* Events of which none comes twice.
Distinct(es) == es \in Seq(Nat) /\ \A m, n \in DOMAIN es : es[m] = es[n] => m = n

(* After all of its events, the message stands at the latest of them and of *)
(* those that were told; one that is not known is left as it is.            *)
LEMMA AfterStands ==
  ASSUME NoticeInv, NEW es, Distinct(es), NEW todo \in SUBSET DOMAIN es,
         \A n \in todo : es[n] \in N!Status \ Told
  PROVE  /\ \A n \in 0 .. Len(es) : N!After(es, todo)[n].known = message.known
         /\ message.known => StandsAt(N!After(es, todo)[Len(es)], Told \cup {es[n] : n \in todo})
         /\ ~message.known => N!After(es, todo)[Len(es)] = message
<1>. DEFINE Seen(n) == {es[k] : k \in {j \in todo : j <= n}}
            Known == {n \in Nat : n <= Len(es) =>
                        /\ message.known => StandsAt(N!After(es, todo)[n], Told \cup Seen(n))
                        /\ ~message.known => N!After(es, todo)[n] = message}
<1>0. /\ Len(es) \in Nat /\ DOMAIN es = 1 .. Len(es)
      /\ \A n \in todo : n \in Nat /\ 1 <= n /\ n <= Len(es)
  BY DEF Distinct
<1>k. /\ Seen(0) = {}
      /\ \A n \in Nat : /\ n + 1 \notin todo => Seen(n + 1) = Seen(n)
                        /\ n + 1 \in todo => Seen(n + 1) = Seen(n) \cup {es[n + 1]}
  <2>1. \A n \in todo : n \in Nat /\ 1 <= n
    BY <1>0
  <2>. QED  BY <2>1, UpToIs, SMTT(30)
<1>s. ASSUME NEW n \in Nat, n + 1 \in todo PROVE es[n + 1] \notin Seen(n)
  <2>1. \A k \in todo : k <= n => k # n + 1
    BY <1>0
  <2>2. \A k \in todo : es[k] = es[n + 1] => k = n + 1
    BY <1>s DEF Distinct
  <2>. QED  BY <2>1, <2>2
<1>d. \A n \in Nat : Seen(n) \subseteq N!Status
  OBVIOUS
<1>e. Seen(Len(es)) = {es[n] : n \in todo}
  BY <1>0
<1>. HIDE DEF Seen
<1>1. 0 \in Known
  <2>1. N!After(es, todo)[0] = message
    BY <1>0, AfterSteps
  <2>2. message.known => StandsAt(message, Told)
    BY DEF NoticeInv
  <2>. QED  BY <1>k, <2>1, <2>2
<1>2. ASSUME NEW n \in Nat, n \in Known PROVE n + 1 \in Known
  <2>. SUFFICES ASSUME n + 1 <= Len(es)
       PROVE  /\ message.known => StandsAt(N!After(es, todo)[n + 1], Told \cup Seen(n + 1))
              /\ ~message.known => N!After(es, todo)[n + 1] = message
    OBVIOUS
  <2>0. n + 1 \in 1 .. Len(es) /\ (n + 1) - 1 = n /\ n <= Len(es)
    BY <1>0
  <2>5. /\ message.known => StandsAt(N!After(es, todo)[n], Told \cup Seen(n))
        /\ ~message.known => N!After(es, todo)[n] = message
    BY <1>2, <2>0
  <2>. HIDE DEF Known
  <2>1. N!After(es, todo)[n + 1] = IF n + 1 \in todo THEN N!Applied(N!After(es, todo)[n], es[n + 1])
                                   ELSE N!After(es, todo)[n]
    BY <1>0, <2>0, AfterSteps
  <2>2. ~message.known => N!After(es, todo)[n + 1] = message
    BY <2>5, <2>1 DEF N!Applied
  <2>3. CASE message.known /\ n + 1 \notin todo
    BY <1>k, <2>5, <2>1, <2>3
  <2>4. CASE message.known /\ n + 1 \in todo
    <3>1. Told \cup Seen(n + 1) = (Told \cup Seen(n)) \cup {es[n + 1]}
      BY <1>k, <2>4
    <3>2. es[n + 1] \in N!Status \ (Told \cup Seen(n))
      BY <1>s, <2>4
    <3>3. StandsAt(N!After(es, todo)[n], Told \cup Seen(n))
      BY <2>5, <2>4
    <3>4. (Told \cup Seen(n)) \in SUBSET N!Status
      BY <1>d DEF Told
    <3>. QED  BY <2>1, <2>4, <3>1, <3>2, <3>3, <3>4, OneMore
  <2>. QED  BY <2>2, <2>3, <2>4
<1>3. Nat \subseteq Known
  <2>. HIDE DEF Known
  <2>. QED  BY <1>1, <1>2, Climbing
<1>5. \A n \in 0 .. Len(es) : N!After(es, todo)[n].known = message.known
  <2>. SUFFICES ASSUME NEW n \in 0 .. Len(es) PROVE N!After(es, todo)[n].known = message.known
    OBVIOUS
  <2>0. n \in Nat /\ n <= Len(es)
    BY <1>0
  <2>1. /\ message.known => StandsAt(N!After(es, todo)[n], Told \cup Seen(n))
        /\ ~message.known => N!After(es, todo)[n] = message
    BY <2>0, <1>3
  <2>2. message.known \in BOOLEAN
    BY DEF NoticeInv, MessageRow
  <2>3. message.known => N!After(es, todo)[n].known /\ N!After(es, todo)[n] \in MessageRow
    BY <2>1 DEF StandsAt
  <2>4. N!After(es, todo)[n] \in MessageRow => N!After(es, todo)[n].known \in BOOLEAN
    BY DEF MessageRow
  <2>. QED  BY <2>1, <2>2, <2>3, <2>4
<1>6. Len(es) \in Known
  BY <1>0, <1>3
<1>7. /\ message.known => StandsAt(N!After(es, todo)[Len(es)], Told \cup Seen(Len(es)))
      /\ ~message.known => N!After(es, todo)[Len(es)] = message
  BY <1>0, <1>6
<1>. QED  BY <1>e, <1>5, <1>7

(* What a delivery, or a pass over the events, does.                        *)
LEMMA EffectsStand ==
  ASSUME NoticeInv, NEW es, Distinct(es), NEW again, N!StatusEffects(es, again),
         UNCHANGED story
  PROVE  /\ message' \in MessageRow
         /\ event' \in [N!Status -> {"NONE", "WAITING", "APPLIED", "STALE", "CONTEXT_NOT_FOUND"}]
         /\ IF message'.known THEN StandsAt(message, Told)' ELSE Told' = {} /\ message'.since = 0
<1>. DEFINE todo == N!Todo(es, again)
            seen == {es[n] : n \in todo}
            place(e) == CHOOSE n \in todo : es[n] = e
<1>1. /\ message' = N!After(es, todo)[Len(es)]
      /\ event' = [e \in N!Status |->
           IF \E n \in todo : es[n] = e
           THEN N!Resolved(N!After(es, todo)[place(e) - 1], e) ELSE event[e]]
  BY DEF N!StatusEffects
<1>2. /\ todo \in SUBSET DOMAIN es /\ \A n \in todo : es[n] \in N!Status \ Told
      /\ seen \subseteq N!Status /\ seen \cap Told = {}
  BY DEF N!Todo, N!Open, Told
<1>3. /\ Len(es) \in Nat /\ DOMAIN es = 1 .. Len(es) /\ N!Status' = N!Status
      /\ MessageRow' = MessageRow
  BY DEF Distinct, N!Status, MessageRow
<1>. HIDE DEF todo
<1>4. /\ \A n \in todo : N!After(es, todo)[n - 1].known = message.known
      /\ message.known => StandsAt(message', Told \cup seen)
      /\ ~message.known => message' = message
  <2>1. /\ \A n \in 0 .. Len(es) : N!After(es, todo)[n].known = message.known
        /\ message.known => StandsAt(N!After(es, todo)[Len(es)], Told \cup seen)
        /\ ~message.known => N!After(es, todo)[Len(es)] = message
    BY <1>2, AfterStands
  <2>2. \A n \in todo : n - 1 \in 0 .. Len(es)
    BY <1>2, <1>3
  <2>. QED  BY <1>1, <2>1, <2>2
<1>p. \A e \in seen : place(e) \in todo /\ e \in N!Status
  BY <1>2
<1>e. \A e \in N!Status : (\E n \in todo : es[n] = e) <=> e \in seen
  OBVIOUS
<1>. HIDE DEF place
<1>5. \A e \in seen : IF message.known THEN event'[e] \in {"APPLIED", "STALE"}
                      ELSE event'[e] \in {"WAITING", "CONTEXT_NOT_FOUND"}
  BY <1>1, <1>2, <1>4, <1>p, <1>e DEF N!Resolved
<1>6. \A e \in N!Status \ seen : event'[e] = event[e]
  BY <1>1, <1>e
<1>. HIDE DEF seen
<1>7. Told' = IF message.known THEN Told \cup seen ELSE Told
  BY <1>2, <1>3, <1>5, <1>6 DEF Told
<1>8. event' \in [N!Status -> {"NONE", "WAITING", "APPLIED", "STALE", "CONTEXT_NOT_FOUND"}]
  BY <1>1, <1>5, <1>6 DEF NoticeInv, N!TypeOK
<1>9. CASE message.known
  <2>1. StandsAt(message', Told')
    BY <1>4, <1>7, <1>9
  <2>2. StandsAt(message, Told)'
    BY <2>1, <1>3 DEF StandsAt, LastIs, Yields
  <2>. QED  BY <1>8, <2>1, <2>2 DEF StandsAt
<1>10. CASE ~message.known
  BY <1>4, <1>7, <1>8, <1>10 DEF NoticeInv
<1>. QED  BY <1>9, <1>10

LEMMA NoticesBegin == N!Init => NoticeInv
<1>. SUFFICES ASSUME N!Init PROVE NoticeInv
  OBVIOUS
<1>1. message \in MessageRow /\ ~message.known /\ message.since = 0 /\ Told = {}
  BY DEF N!Init, MessageRow, Told
<1>2. N!TypeOK
  <2>1. job \in [Reader -> {N!Idle}] /\ 0 \in 0 .. MaxTroubles
    BY BoundedAssumption DEF N!Init
  <2>2. /\ story \in Story /\ past \subseteq N!Status /\ message.since \in Nat
        /\ event \in [N!Status -> {"NONE"}] /\ \A d \in Delivery : row[d].state = "NONE"
        /\ came = FALSE /\ inbox = 0 /\ troubles = 0
    BY DEF N!Init
  <2>. QED  BY <2>1, <2>2 DEF N!TypeOK
<1>3. /\ inbox = 0 /\ ~came /\ row = [d \in Delivery |-> [state |-> "NONE"]]
      /\ \A w \in Reader : job[w].does = "nothing"
  BY DEF N!Init, N!Idle
<1>. QED  BY <1>1, <1>2, <1>3 DEF NoticeInv

(* Deliveries, leases and workers move; what was told stays.                *)
Rows == N!Row \cup {[state |-> "NONE"]}
Jobs == [Reader -> {N!Idle} \cup [does : {"apply", "putBack"}, of : Delivery]
                            \cup [does : {"write"}, of : Delivery, found : BOOLEAN]]

LEMMA RowsMove ==
  ASSUME NoticeInv, UNCHANGED <<story, event, message, came, inbox>>,
         row' \in [Delivery -> Rows], job' \in Jobs,
         past' \subseteq N!Status, troubles' \in 0 .. MaxTroubles,
         \A d \in Delivery : row'[d].state = "PROCESSED" => row[d].state = "PROCESSED",
         \A d \in Delivery : row[d].state # "NONE" => row'[d].state # "NONE",
         \A w \in Reader : job'[w].does = "write" => Writes(job'[w])
  PROVE  NoticeInv'
<1>1. \A d \in Delivery : row'[d].state = "NONE" \/ row'[d] \in N!Row
  BY DEF Rows
<1>2. N!TypeOK'
  BY <1>1 DEF NoticeInv, N!TypeOK, N!Status, Jobs, N!Idle, N!Row
<1>3. Told' = Told /\ StandsAt(message, Told)' = StandsAt(message, Told)
  BY DEF Told, N!Status, StandsAt, LastIs, Yields
<1>4. \A w \in Reader : job'[w].does = "write" => Writes(job[w])'
  <2>1. \A w \in Reader : job'[w].does = "write" => job'[w].of \in Delivery
    BY DEF Jobs, N!Idle
  <2>. QED  BY <2>1 DEF Writes
<1>. QED  BY <1>2, <1>3, <1>4 DEF NoticeInv, Rows, N!Row, N!Brings, N!Came, MessageRow

LEMMA RowsStand ==
  ASSUME NoticeInv
  PROVE  /\ row \in [Delivery -> Rows] /\ job \in Jobs
         /\ \A d \in Delivery : row[d].state # "NONE" => row[d] \in N!Row
         /\ \A w \in Reader : job[w].does \in {"apply", "putBack", "write"} => job[w].of \in Delivery
BY DEF NoticeInv, N!TypeOK, Rows, Jobs, N!Idle

LEMMA DeliveriesKeep ==
  ASSUME NoticeInv, NEW d \in Delivery,
         N!Receive(d) \/ N!GiveUp(d) \/ N!Purge(d) \/ N!Replay(d) \/ N!LeaseEnds(d)
  PROVE  NoticeInv'
<1>1. /\ UNCHANGED <<story, event, message, came, inbox, job, past>>
      /\ troubles' \in 0 .. MaxTroubles
  BY BoundedAssumption
  DEF N!Receive, N!GiveUp, N!Purge, N!Replay, N!LeaseEnds, N!effectVars, N!Trouble, NoticeInv, N!TypeOK
<1>2. PICK r \in N!Row : /\ row' = [row EXCEPT ![d] = r]
                         /\ r.state = "PROCESSED" => row[d].state = "PROCESSED"
  <2>1. CASE N!Receive(d)
    <3>. DEFINE r == [state |-> "PENDING", tries |-> 0, owner |-> None, leased |-> FALSE,
                      review |-> FALSE, replayed |-> FALSE, payload |-> TRUE]
    <3>1. r \in N!Row /\ r.state = "PENDING"
      BY BoundedAssumption DEF N!Row
    <3>2. row' = [row EXCEPT ![d] = r]
      BY <2>1 DEF N!Receive
    <3>. QED  BY <3>1, <3>2
  <2>2. CASE N!GiveUp(d)
    <3>. DEFINE r == [row[d] EXCEPT !.state = "FAILED", !.owner = None, !.leased = FALSE, !.review = TRUE]
    <3>1. row[d] \in N!Row
      BY <2>2, RowsStand DEF N!GiveUp, N!Exhausted
    <3>2. r \in N!Row /\ r.state = "FAILED"
      BY <3>1 DEF N!Row
    <3>3. row' = [row EXCEPT ![d] = r]
      BY <2>2 DEF N!GiveUp
    <3>. QED  BY <3>2, <3>3
  <2>3. CASE N!Purge(d)
    <3>. DEFINE r == [row[d] EXCEPT !.payload = FALSE]
    <3>1. row[d] \in N!Row /\ row[d].state = "PROCESSED"
      BY <2>3, RowsStand DEF N!Purge
    <3>2. r \in N!Row
      BY <3>1 DEF N!Row
    <3>3. row' = [row EXCEPT ![d] = r]
      BY <2>3 DEF N!Purge
    <3>. QED  BY <3>1, <3>2, <3>3
  <2>4. CASE N!Replay(d)
    <3>. DEFINE r == [row[d] EXCEPT !.state = "PENDING", !.tries = 0, !.owner = None, !.leased = FALSE,
                                    !.replayed = TRUE]
    <3>1. row[d] \in N!Row
      BY <2>4, RowsStand DEF N!Replay
    <3>4. 0 \in 0 .. MaxTries /\ None \in Reader \cup {None}
      BY BoundedAssumption
    <3>5. [row[d] EXCEPT !.state = "PENDING", !.tries = 0, !.owner = None] \in N!Row
      BY <3>1, <3>4 DEF N!Row
    <3>2. r \in N!Row /\ r.state = "PENDING"
      BY <3>1, <3>4 DEF N!Row
    <3>3. row' = [row EXCEPT ![d] = r]
      BY <2>4 DEF N!Replay
    <3>. QED  BY <3>2, <3>3
  <2>5. CASE N!LeaseEnds(d)
    <3>. DEFINE r == [row[d] EXCEPT !.leased = FALSE]
    <3>1. row[d] \in N!Row /\ row[d].state = "PROCESSING"
      BY <2>5, RowsStand DEF N!LeaseEnds
    <3>2. r \in N!Row /\ r.state = "PROCESSING"
      BY <3>1 DEF N!Row
    <3>3. row' = [row EXCEPT ![d] = r]
      BY <2>5 DEF N!LeaseEnds
    <3>. QED  BY <3>2, <3>3
  <2>. QED  BY <2>1, <2>2, <2>3, <2>4, <2>5
<1>3. /\ row' \in [Delivery -> Rows]
      /\ \A c \in Delivery : /\ row'[c].state = "PROCESSED" => row[c].state = "PROCESSED"
                             /\ row[c].state # "NONE" => row'[c].state # "NONE"
  <2>1. r.state # "NONE"
    BY DEF N!Row
  <2>. QED  BY <1>2, <2>1, RowsStand DEF Rows
<1>4. /\ past' \subseteq N!Status /\ job' \in Jobs
      /\ \A w \in Reader : job'[w].does = "write" => Writes(job'[w])
  BY <1>1, RowsStand DEF NoticeInv, N!TypeOK
<1>. QED  BY <1>1, <1>3, <1>4, RowsMove

LEMMA ReadersKeep ==
  ASSUME NoticeInv, NEW w \in Reader,
         N!Begin(w) \/ N!ApplyFails(w) \/ N!PutBack(w) \/ N!Stop(w) \/ \E d \in Delivery : N!Claim(w, d)
  PROVE  NoticeInv'
<1>1. /\ UNCHANGED <<story, event, message, came, inbox, past>>
      /\ troubles' \in 0 .. MaxTroubles
  <2>1. CASE N!ApplyFails(w) \/ N!Stop(w)
    BY <2>1, BoundedAssumption
    DEF N!ApplyFails, N!Stop, N!effectVars, N!Trouble, NoticeInv, N!TypeOK
  <2>2. ASSUME NEW d \in Delivery, N!Claim(w, d) PROVE <1>1!1 /\ <1>1!2
    BY <2>2 DEF N!Claim, N!effectVars, NoticeInv, N!TypeOK
  <2>3. CASE N!PutBack(w)
    <3>1. UNCHANGED <<story, event, message, came, inbox, past, troubles>>
      BY <2>3, Zenon DEF N!PutBack, N!effectVars
    <3>. QED  BY <3>1 DEF NoticeInv, N!TypeOK
  <2>4. CASE N!Begin(w)
    BY <2>4 DEF N!Begin, N!effectVars, NoticeInv, N!TypeOK
  <2>. QED  BY <2>1, <2>2, <2>3, <2>4
<1>2. job' \in Jobs /\ \A v \in Reader : job'[v].does = "write" => Writes(job'[v])
  <2>. DEFINE Job == {N!Idle} \cup [does : {"apply", "putBack"}, of : Delivery]
                              \cup [does : {"write"}, of : Delivery, found : BOOLEAN]
  <2>s. ASSUME NEW x \in Job, job' = [job EXCEPT ![w] = x], x.does = "write" => Writes(x)
        PROVE  <1>2!1 /\ <1>2!2
    <3>1. job \in [Reader -> Job] /\ \A v \in Reader : job[v].does = "write" => Writes(job[v])
      BY RowsStand DEF Jobs, NoticeInv
    <3>2. job' \in [Reader -> Job]
      BY <2>s, <3>1
    <3>3. \A v \in Reader : job'[v] = IF v = w THEN x ELSE job[v]
      BY <2>s, <3>1
    <3>. QED  BY <2>s, <3>1, <3>2, <3>3 DEF Jobs
  <2>0. N!Idle \in Job /\ N!Idle.does = "nothing"
    BY DEF N!Idle
  <2>d. job[w].does \in {"apply", "putBack", "write"} => job[w].of \in Delivery
    BY RowsStand
  <2>1. CASE N!ApplyFails(w)
    <3>. DEFINE x == [does |-> "putBack", of |-> job[w].of]
    <3>1. x \in Job /\ x.does = "putBack" /\ job' = [job EXCEPT ![w] = x]
      BY <2>1, <2>d DEF N!ApplyFails
    <3>. HIDE DEF x, Job
    <3>. QED  BY <3>1, <2>s
  <2>2. CASE N!PutBack(w) \/ N!Stop(w)
    <3>1. job' = [job EXCEPT ![w] = N!Idle]
      BY <2>2 DEF N!PutBack, N!Stop
    <3>. HIDE DEF Job
    <3>. QED  BY <3>1, <2>0, <2>s
  <2>3. ASSUME NEW d \in Delivery, N!Claim(w, d) PROVE <1>2!1 /\ <1>2!2
    <3>. DEFINE x == [does |-> "apply", of |-> d]
    <3>1. x \in Job /\ x.does = "apply" /\ job' = [job EXCEPT ![w] = x]
      BY <2>3 DEF N!Claim
    <3>. HIDE DEF x, Job
    <3>. QED  BY <3>1, <2>s
  <2>4. CASE N!Begin(w)
    <3>. DEFINE x == [does |-> "write", of |-> job[w].of, found |-> came]
    <3>1. \/ job' = [job EXCEPT ![w] = x] /\ row[job[w].of].state # "NONE"
          \/ job' = [job EXCEPT ![w] = N!Idle]
      BY <2>4 DEF N!Begin, N!Owns
    <3>2. x \in Job /\ x.does = "write" /\ x.found = came /\ x.of = job[w].of
      BY <2>4, <2>d DEF N!Begin, NoticeInv, N!TypeOK
    <3>. HIDE DEF x
    <3>3. CASE job' = [job EXCEPT ![w] = x] /\ row[job[w].of].state # "NONE"
      <4>1. Writes(x)
        BY <3>2, <3>3 DEF Writes
      <4>. HIDE DEF Job
      <4>. QED  BY <3>2, <3>3, <4>1, <2>s
    <3>4. CASE job' = [job EXCEPT ![w] = N!Idle]
      <4>. HIDE DEF Job
      <4>. QED  BY <3>4, <2>0, <2>s
    <3>. QED  BY <3>1, <3>3, <3>4
  <2>. QED  BY <2>1, <2>2, <2>3, <2>4
<1>3. /\ row' \in [Delivery -> Rows]
      /\ \A c \in Delivery : /\ row'[c].state = "PROCESSED" => row[c].state = "PROCESSED"
                             /\ row[c].state # "NONE" => row'[c].state # "NONE"
  <2>1. CASE UNCHANGED row
    BY <2>1, RowsStand
  <2>2. ASSUME NEW d \in Delivery, N!Claim(w, d) PROVE <1>3!1 /\ <1>3!2
    <3>. DEFINE r == [row[d] EXCEPT !.state = "PROCESSING", !.owner = w, !.leased = TRUE,
                                    !.tries = row[d].tries + 1]
    <3>1. row[d] \in N!Row /\ row[d].tries < MaxTries
      BY <2>2, RowsStand DEF N!Claim, N!Claimable
    <3>4. row[d].tries + 1 \in 0 .. MaxTries
      BY <3>1, BoundedAssumption DEF N!Row
    <3>2. r \in N!Row /\ r.state \notin {"PROCESSED", "NONE"}
      BY <3>1, <3>4 DEF N!Row
    <3>3. row' = [row EXCEPT ![d] = r]
      BY <2>2 DEF N!Claim
    <3>. HIDE DEF r
    <3>. QED  BY <3>2, <3>3, RowsStand DEF Rows
  <2>3. CASE N!PutBack(w) /\ row' # row
    <3>. DEFINE d == job[w].of
                over == row[d].tries >= MaxTries
                r == [row[d] EXCEPT !.state = IF over THEN "FAILED" ELSE "PENDING", !.owner = None,
                                    !.leased = FALSE, !.review = over]
    <3>0. d \in Delivery
      BY <2>3, RowsStand DEF N!PutBack
    <3>1. row[d] \in N!Row
      BY <2>3, <3>0, RowsStand DEF N!PutBack, N!Owns
    <3>3. row' = [row EXCEPT ![d] = r]
      BY <2>3 DEF N!PutBack
    <3>4. over \in BOOLEAN /\ (IF over THEN "FAILED" ELSE "PENDING") \in {"FAILED", "PENDING"}
      OBVIOUS
    <3>. HIDE DEF over, d
    <3>2. r \in N!Row /\ r.state \notin {"PROCESSED", "NONE"}
      BY <3>1, <3>4 DEF N!Row
    <3>. HIDE DEF r
    <3>. QED  BY <3>0, <3>2, <3>3, RowsStand DEF Rows
  <2>. QED  BY <2>1, <2>2, <2>3 DEF N!Begin, N!ApplyFails, N!Stop
<1>4. past' \subseteq N!Status
  BY <1>1 DEF NoticeInv, N!TypeOK
<1>. QED  BY <1>1, <1>2, <1>3, <1>4, RowsMove

(* The transaction of a delivery.                                           *)
LEMMA ApplyKeeps ==
  ASSUME NoticeInv, NEW w \in Reader, N!Apply(w)
  PROVE  NoticeInv'
<1>. DEFINE d == job[w].of
            b == \E n \in DOMAIN Carries[d] :
                   Carries[d][n] \in N!Status /\ event'[Carries[d][n]] = "CONTEXT_NOT_FOUND"
            r == [row[d] EXCEPT !.state = "PROCESSED", !.owner = None, !.leased = FALSE, !.review = b]
<1>1. /\ d \in Delivery /\ UNCHANGED <<story, past, troubles>>
      /\ job' = [job EXCEPT ![w] = N!Idle]
      /\ row' = [row EXCEPT ![d] = r]
      /\ N!StatusEffects(Carries[d], row[d].replayed)
      /\ N!Brings(d) => N!Count(job[w].found)
      /\ ~N!Brings(d) => UNCHANGED <<came, inbox>>
  BY RowsStand DEF N!Apply, N!Effects
<1>2. r \in N!Row /\ r.state = "PROCESSED"
  <2>1. row[d].state # "NONE"
    BY DEF N!Apply, NoticeInv, Writes
  <2>2. row[d] \in N!Row /\ b \in BOOLEAN
    BY <1>1, <2>1, RowsStand
  <2>. HIDE DEF b, d
  <2>. QED  BY <2>2 DEF N!Row
<1>. HIDE DEF r
<1>3. /\ came' \in BOOLEAN /\ (came => came') /\ (N!Brings(d) => came')
      /\ inbox' = IF came' THEN 1 ELSE 0
  <2>1. came \in BOOLEAN /\ inbox = IF came THEN 1 ELSE 0
    BY DEF NoticeInv, N!TypeOK
  <2>2. job[w].found => came
    BY DEF N!Apply, NoticeInv, Writes
  <2>3. CASE ~N!Brings(d)
    BY <1>1, <2>1, <2>3
  <2>4. CASE N!Brings(d)
    <3>1. came' = TRUE /\ inbox' = IF job[w].found \/ came THEN inbox ELSE inbox + 1
      BY <1>1, <2>4 DEF N!Count
    <3>2. (job[w].found \/ came) <=> came
      BY <2>2
    <3>3. inbox' = IF came THEN inbox ELSE inbox + 1
      BY <3>1, <3>2, Zenon
    <3>. QED  BY <2>1, <3>1, <3>3
  <2>. QED  BY <2>3, <2>4
<1>4. Distinct(Carries[d])
  BY <1>1, CarriesAssumption DEF Distinct
<1>5. /\ message' \in MessageRow
      /\ event' \in [N!Status -> {"NONE", "WAITING", "APPLIED", "STALE", "CONTEXT_NOT_FOUND"}]
      /\ IF message'.known THEN StandsAt(message, Told)' ELSE Told' = {} /\ message'.since = 0
  BY <1>1, <1>4, EffectsStand
<1>. HIDE DEF d
<1>6. row' \in [Delivery -> Rows] /\ \A c \in Delivery : row'[c] = IF c = d THEN r ELSE row[c]
  BY <1>1, <1>2, RowsStand DEF Rows
<1>7. job' \in Jobs /\ \A v \in Reader : v # w => job'[v] = job[v]
  BY <1>1, RowsStand DEF Jobs
<1>8. \A v \in Reader : job'[v].does = "write" => v # w
  BY <1>1, RowsStand DEF Jobs, N!Idle
<1>9. \A v \in Reader : job'[v].does = "write" => Writes(job[v])'
  <2>. SUFFICES ASSUME NEW v \in Reader, job'[v].does = "write" PROVE Writes(job[v])'
    OBVIOUS
  <2>1. /\ job'[v] = job[v] /\ Writes(job[v]) /\ job[v].of \in Delivery
    BY <1>7, <1>8, RowsStand DEF NoticeInv
  <2>2. r.state # "NONE"
    BY <1>2
  <2>. QED  BY <1>3, <1>6, <2>1, <2>2 DEF Writes
<1>10. \A c \in Delivery : row'[c].state = "PROCESSED" /\ N!Brings(c) => came'
  BY <1>3, <1>6 DEF NoticeInv
<1>11. N!Status' = N!Status
  BY <1>1 DEF N!Status
<1>12. N!TypeOK'
  <2>1. \A c \in Delivery : row'[c].state = "NONE" \/ row'[c] \in N!Row
    BY <1>6 DEF Rows
  <2>2. message'.since \in Nat /\ inbox' \in Nat
    BY <1>3, <1>5 DEF MessageRow
  <2>. QED  BY <1>1, <1>3, <1>5, <1>7, <1>11, <2>1, <2>2 DEF NoticeInv, N!TypeOK, Jobs, N!Idle, N!Row
<1>. QED
  BY <1>3, <1>5, <1>6, <1>9, <1>10, <1>12
  DEF NoticeInv, Rows, N!Row, N!Brings, N!Came, MessageRow

LEMMA ReconcileEventKeeps ==
  ASSUME NoticeInv, NEW e \in N!Status, N!Reconcile(e)
  PROVE  NoticeInv'
<1>1. /\ UNCHANGED <<story, job, came, inbox, past, troubles>> /\ N!StatusEffects(<<e>>, FALSE)
  BY DEF N!Reconcile
<1>2. PICK d \in Delivery : /\ row[d].state # "NONE"
                            /\ row' = [row EXCEPT ![d].review = @ \/ event'[e] = "CONTEXT_NOT_FOUND"]
  BY DEF N!Reconcile, N!Carriers
<1>. DEFINE b == row[d].review \/ event'[e] = "CONTEXT_NOT_FOUND"
            r == [row[d] EXCEPT !.review = b]
<1>3. row[d] \in N!Row
  BY <1>2, RowsStand
<1>5. row' = [row EXCEPT ![d] = r] /\ b \in BOOLEAN
  BY <1>2
<1>. HIDE DEF b
<1>4. r \in N!Row /\ r.state = row[d].state
  BY <1>3, <1>5 DEF N!Row
<1>. HIDE DEF r
<1>6. /\ row' \in [Delivery -> Rows]
      /\ \A c \in Delivery : row'[c].state = row[c].state
  BY <1>4, <1>5, RowsStand DEF Rows
<1>d. Distinct(<<e>>)
  BY Stories1 DEF Distinct
<1>7. /\ message' \in MessageRow
      /\ event' \in [N!Status -> {"NONE", "WAITING", "APPLIED", "STALE", "CONTEXT_NOT_FOUND"}]
      /\ IF message'.known THEN StandsAt(message, Told)' ELSE Told' = {} /\ message'.since = 0
  BY <1>1, <1>d, EffectsStand
<1>8. N!Status' = N!Status
  BY <1>1 DEF N!Status
<1>9. N!TypeOK'
  <2>1. \A c \in Delivery : row'[c].state = "NONE" \/ row'[c] \in N!Row
    BY <1>6 DEF Rows
  <2>2. message'.since \in Nat
    BY <1>7 DEF MessageRow
  <2>. QED  BY <1>1, <1>7, <1>8, <2>1, <2>2 DEF NoticeInv, N!TypeOK, N!Idle, N!Row
<1>10. \A w \in Reader : job'[w].does = "write" => Writes(job[w])'
  <2>1. \A w \in Reader : job[w].does = "write" => Writes(job[w]) /\ job[w].of \in Delivery
    BY RowsStand DEF NoticeInv
  <2>. QED  BY <1>1, <1>6, <2>1 DEF Writes
<1>. QED
  BY <1>1, <1>6, <1>7, <1>8, <1>9, <1>10 DEF NoticeInv, Rows, N!Row, N!Brings, N!Came, MessageRow

LEMMA AcceptKeeps == ASSUME NoticeInv, N!Accept PROVE NoticeInv'
<1>1. /\ ~message.known /\ message' = [message EXCEPT !.known = TRUE, !.status = "accepted"]
      /\ UNCHANGED <<story, row, job, event, came, inbox, past, troubles>>
  BY DEF N!Accept, N!rowVars
<1>2. message' \in MessageRow /\ message'.known /\ message'.since = 0 /\ message'.status = "accepted"
  BY <1>1 DEF NoticeInv, MessageRow
<1>3. Told' = {} /\ N!Status' = N!Status
  BY <1>1 DEF Told, N!Status, NoticeInv
<1>4. StandsAt(message, Told)'
  BY <1>2, <1>3 DEF StandsAt, MessageRow
<1>5. N!TypeOK'
  BY <1>1, <1>2, <1>3 DEF NoticeInv, N!TypeOK, N!Idle, N!Row, MessageRow
<1>. QED  BY <1>1, <1>2, <1>3, <1>4, <1>5 DEF NoticeInv, N!Row, N!Brings, N!Came, MessageRow, Writes

LEMMA NoticesKeep == ASSUME NoticeInv, N!Next PROVE NoticeInv'
<1>1. ASSUME NEW e \in N!Status, N!RetentionEnds(e) PROVE NoticeInv'
  <2>1. /\ UNCHANGED <<story, row, job, event, message, came, inbox, troubles>> /\ past' \subseteq N!Status
    BY <1>1 DEF N!RetentionEnds, N!rowVars, N!effectVars, NoticeInv, N!TypeOK
  <2>2. troubles' \in 0 .. MaxTroubles /\ \A w \in Reader : job'[w].does = "write" => Writes(job'[w])
    BY <2>1 DEF NoticeInv, N!TypeOK
  <2>. QED  BY <2>1, <2>2, RowsStand, RowsMove
<1>. QED
  BY <1>1, DeliveriesKeep, ReadersKeep, ApplyKeeps, ReconcileEventKeeps, AcceptKeeps DEF N!Next

LEMMA NoticesRest == ASSUME NoticeInv, UNCHANGED noticeVars PROVE NoticeInv'
<1>1. /\ past' \subseteq N!Status /\ troubles' \in 0 .. MaxTroubles
      /\ \A w \in Reader : job'[w].does = "write" => Writes(job'[w])
  BY DEF noticeVars, NoticeInv, N!TypeOK
<1>. QED  BY <1>1, RowsStand, RowsMove DEF noticeVars

LEMMA NoticesSum == NoticeInv => NoticesAddUp
<1>. SUFFICES ASSUME NoticeInv PROVE NoticesAddUp
  OBVIOUS
<1>. DEFINE latest == {e \in Told : \A x \in Told : story[x].second <= story[e].second}
<1>1. ASSUME Told # {}
      PROVE  \E e \in latest : /\ message.status = story[e].status
                               /\ \A x \in latest : Yields(x, e)
  <2>1. PICK e \in Told : LastIs(message, Told, e)
    BY <1>1 DEF NoticeInv, StandsAt
  <2>2. \A x \in Told : story[x].second \in Nat
    BY Stories1 DEF Told
  <2>3. e \in latest
    BY <2>1 DEF LastIs
  <2>4. \A x \in latest : story[x].second = story[e].second
    BY <2>1, <2>2 DEF LastIs
  <2>. QED  BY <2>1, <2>3, <2>4 DEF LastIs
<1>. QED  BY <1>1 DEF NoticeInv, NoticesAddUp, N!NoticesAddUp, Told, Yields

-----------------------------------------------------------------------------
(***************************************************************************)
(* The parts together: while one moves, the others are at rest.            *)
(***************************************************************************)
LEMMA SendingStands == MCSpec => []IInv
<1>1. MCInit => IInv
  BY InitKeeps DEF MCInit
<1>2. IInv /\ [MCNext]_parts => IInv'
  BY StepKeeps DEF MCNext, parts
<1>. QED  BY <1>1, <1>2, PTL DEF MCSpec

LEMMA ChannelStands == MCSpec => []ChannelInv
<1>1. MCInit => ChannelInv
  BY ChannelBegins DEF MCInit
<1>2. ChannelInv /\ [MCNext]_parts => ChannelInv'
  BY ChannelKeeps, ChannelRests DEF MCNext, parts
<1>. QED  BY <1>1, <1>2, PTL DEF MCSpec

LEMMA NoticesStand == MCSpec => []NoticeInv
<1>1. MCInit => NoticeInv
  BY NoticesBegin DEF MCInit
<1>2. NoticeInv /\ [MCNext]_parts => NoticeInv'
  BY NoticesKeep, NoticesRest DEF MCNext, parts
<1>. QED  BY <1>1, <1>2, PTL DEF MCSpec

(* The variables of the three parts keep their types.                       *)
THEOREM PartsAreTyped == MCSpec => []PartsTypeOK
<1>1. IInv /\ ChannelInv /\ NoticeInv => PartsTypeOK
  BY DEF IInv, ChannelInv, NoticeInv, PartsTypeOK
<1>. QED  BY <1>1, SendingStands, ChannelStands, NoticesStand, PTL

(* Whatever becomes of the tier, and however many ask at once: a message is *)
(* sent while its unit is counted, and there are no more recipients with a  *)
(* unit in the window than a limit under which one of them took its own.    *)
THEOREM LimitIsRespected == MCSpec => []LimitIsKept
BY ChannelIsShared, ChannelStands, PTL

(* Whatever the order, the repetitions and the failures of its notices, and *)
(* however many are applied at a time: what was told of a message has come  *)
(* to the latest of its statuses, in one second to the furthest of them but *)
(* for a failure beside a sending, and the message that came is recorded    *)
(* and counts once.                                                         *)
THEOREM NoticesAreSummed == MCSpec => []NoticesAddUp
BY NoticesSum, NoticesStand, PTL
=============================================================================
