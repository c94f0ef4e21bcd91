----------------------- MODULE DisbursementApprovalProofs -----------------------
(***************************************************************************)
(* Proofs about DisbursementApproval, for any number of batches, requests, *)
(* taps and changes: one request at most is open for a batch, and only     *)
(* what the approver saw is released.                                      *)
(***************************************************************************)
EXTENDS DisbursementApproval, FiniteSetTheorems, WellFoundedInduction, TLAPS

(* Requests are made in order, each of a batch, for an approver.            *)
Numbered ==
  \A r \in Request :
    /\ state[r] = "ABSENT" <=> r > asked
    /\ r <= asked => of[r] \in Batch /\ shown[r] \in Content /\ to[r] \in Approver

(* Nothing was done of a request that is not made.                          *)
Fresh ==
  \A r \in Request : r > asked =>
    sender[r] = "none" /\ message[r] = "none" /\ ~linked[r] /\ day[r] = "open"

(* The current request of a batch is the latest one made for it.            *)
Latest ==
  /\ \A r \in 1 .. asked : current[of[r]] \in 1 .. asked /\ r <= current[of[r]]
  /\ \A b \in Batch : batch[b] = "AWAITING_APPROVAL" => of[current[b]] = b

(* What the worker is to decide was read from a tap that still answers.     *)
Working ==
  worker.at = "apply" =>
    /\ worker.on \in worker.todo /\ worker.on <= asked
    /\ worker.tap \in DOMAIN taps /\ ValidTap(worker.on, worker.tap)

IInv ==
  /\ TypeOK
  /\ Numbered
  /\ Fresh
  /\ Latest
  /\ OneOpenRequest
  /\ Working

-----------------------------------------------------------------------------
(* The bounds, and the range of the requests.                               *)
LEMMA Bounds ==
  /\ MaxRequests \in Nat /\ MaxTaps \in Nat /\ MaxChanges \in Nat /\ PageSize \in Nat
  /\ Request \subseteq Nat \ {0}
BY BoundsAssumption DEF Request

(* What a request is when it ends, and a batch when it stops waiting.       *)
Ending == {"APPROVED", "REJECTED", "EXPIRED", "INVALIDATED", "HELD"}
Leaving == BatchStatus \ {"AWAITING_APPROVAL"}

(* Closing a request moves its batch if it still waits, and no other.       *)
LEMMA ClosingKeeps ==
  ASSUME IInv, NEW r \in Request, NEW becomes \in Ending, NEW status \in Leaving,
         Close(r, becomes, status), UNCHANGED <<current, asked, of, shown, to>>
  PROVE  /\ state' \in [Request -> ApprovalState] /\ batch' \in [Batch -> BatchStatus]
         /\ Numbered' /\ Latest' /\ OneOpenRequest'
<1>1. /\ \A q \in Request : state'[q] = IF q = r /\ state[q] = "AWAITING" THEN becomes ELSE state[q]
      /\ \A b \in Batch : batch'[b] = batch[b] \/ (b = of[r] /\ state[r] = "AWAITING" /\ batch'[b] = status)
      /\ state[r] = "AWAITING" => of[r] \in Batch /\ batch'[of[r]] = status
  <2>1. state[r] = "AWAITING" => of[r] \in Batch /\ batch[of[r]] = "AWAITING_APPROVAL" /\ current[of[r]] = r
    BY Bounds DEF IInv, TypeOK, Numbered, OneOpenRequest, Awaiting
  <2>. QED  BY <2>1 DEF Close, End, IInv, TypeOK
<1>2. state' \in [Request -> ApprovalState]
  BY DEF Close, End, IInv, TypeOK, Ending, ApprovalState
<1>3. batch' \in [Batch -> BatchStatus]
  BY DEF Close, IInv, TypeOK, Leaving
<1>4. Numbered'
  BY <1>1 DEF IInv, Numbered, Ending
<1>5. Latest'
  BY <1>1 DEF IInv, Latest, Leaving
<1>6. OneOpenRequest'
  <2>1. \A q \in Request : state'[q] = "AWAITING" => q # r /\ state[q] = "AWAITING"
    BY <1>1 DEF Ending
  <2>2. \A b \in Batch : batch'[b] = "AWAITING_APPROVAL" =>
          batch[b] = "AWAITING_APPROVAL" /\ (state[r] = "AWAITING" => b # of[r])
    BY <1>1 DEF Leaving
  <2>3. ASSUME NEW q \in Request, state'[q] = "AWAITING"
        PROVE  batch'[of[q]] = "AWAITING_APPROVAL" /\ current[of[q]] = q
    <3>1. of[q] \in Batch /\ batch[of[q]] = "AWAITING_APPROVAL" /\ current[of[q]] = q
      BY <2>1, <2>3, Bounds DEF IInv, TypeOK, Numbered, OneOpenRequest, Awaiting
    <3>2. state[r] = "AWAITING" => of[q] # of[r]
      BY <2>1, <2>3, <3>1 DEF IInv, OneOpenRequest, Awaiting
    <3>. QED  BY <1>1, <3>1, <3>2
  <2>4. ASSUME NEW b \in Batch, batch'[b] = "AWAITING_APPROVAL"
        PROVE  current[b] \in Request /\ state'[current[b]] = "AWAITING"
    <3>1. current[b] \in Request /\ state[current[b]] = "AWAITING" /\ of[current[b]] = b
      BY <2>2, <2>4 DEF IInv, OneOpenRequest, Latest, Awaiting
    <3>2. current[b] # r
      BY <2>2, <2>4, <3>1
    <3>. QED  BY <1>1, <3>1, <3>2
  <2>. QED  BY <2>3, <2>4 DEF OneOpenRequest, Awaiting
<1>. QED  BY <1>2, <1>3, <1>4, <1>5, <1>6

(* Storing a tap changes nothing else of it, and nothing of the others.     *)
LEMMA StoredTap ==
  ASSUME IInv, NEW k \in DOMAIN taps, Store(k)
  PROVE  /\ taps' \in Seq([on : Request, by : Approver, says : {"approve", "reject"},
                           inTime : BOOLEAN, stored : {"no", "early", "late"}])
         /\ DOMAIN taps' = DOMAIN taps
         /\ \A j \in DOMAIN taps : j # k => taps'[j] = taps[j]
         /\ taps'[k].on = taps[k].on /\ taps'[k].by = taps[k].by
         /\ taps'[k].says = taps[k].says /\ taps'[k].inTime = taps[k].inTime
         /\ taps[k].stored = "no"
         /\ taps'[k].stored = "early" => day[taps[k].on] = "open"
<1>. DEFINE Rec == [on : Request, by : Approver, says : {"approve", "reject"},
                    inTime : BOOLEAN, stored : {"no", "early", "late"}]
            tap == [taps[k] EXCEPT !.stored = IF day[taps[k].on] = "open" THEN "early" ELSE "late"]
<1>0. taps \in Seq(Rec)
  BY DEF IInv, TypeOK
<1>1. taps \in Seq(Rec) /\ taps[k] \in Rec
  <2>. HIDE DEF Rec
  <2>. QED  BY <1>0
<1>2. tap \in Rec
  BY <1>1
<1>3. taps' = [taps EXCEPT ![k] = tap] /\ taps[k].stored = "no"
  BY DEF Store
<1>4. /\ tap.on = taps[k].on /\ tap.by = taps[k].by
      /\ tap.says = taps[k].says /\ tap.inTime = taps[k].inTime
      /\ tap.stored = "early" => day[taps[k].on] = "open"
  BY <1>1
<1>. HIDE DEF tap, Rec
<1>5. taps' \in Seq(Rec) /\ DOMAIN taps' = DOMAIN taps
  BY <1>1, <1>2, <1>3
<1>6. taps'[k] = tap /\ \A j \in DOMAIN taps : j # k => taps'[j] = taps[j]
  BY <1>1, <1>3
<1>. QED  BY <1>3, <1>4, <1>5, <1>6 DEF Rec

(* A tap stays as it was made, and is stored once.                          *)
LEMMA TapsStay ==
  ASSUME IInv, \/ \E r \in Request, who \in Approver, answer \in {"approve", "reject"} : Tap(r, who, answer)
               \/ \E k \in DOMAIN taps : Store(k)
  PROVE  \A k \in DOMAIN taps :
           /\ k \in DOMAIN taps'
           /\ taps'[k].on = taps[k].on /\ taps'[k].by = taps[k].by
           /\ taps'[k].says = taps[k].says /\ taps'[k].inTime = taps[k].inTime
           /\ taps[k].stored # "no" => taps'[k].stored = taps[k].stored
<1>1. CASE \E r \in Request, who \in Approver, answer \in {"approve", "reject"} : Tap(r, who, answer)
  BY <1>1 DEF Tap, IInv, TypeOK
<1>2. ASSUME NEW j \in DOMAIN taps, Store(j)
      PROVE  \A k \in DOMAIN taps :
               /\ k \in DOMAIN taps'
               /\ taps'[k].on = taps[k].on /\ taps'[k].by = taps[k].by
               /\ taps'[k].says = taps[k].says /\ taps'[k].inTime = taps[k].inTime
               /\ taps[k].stored # "no" => taps'[k].stored = taps[k].stored
  BY <1>2, StoredTap
<1>. QED  BY <1>1, <1>2

(* A set of numbers has a least one.                                        *)
LEMMA LeastExists ==
  ASSUME NEW S, S \subseteq Nat, S # {}
  PROVE  \E k \in S : \A j \in S : k <= j
<1>1. PICK k \in S : \A j \in S : <<j, k>> \notin OpToRel(<, Nat)
  BY WFMin, NatLessThanWellFounded
<1>2. \A j \in S : ~(j < k)
  BY <1>1 DEF OpToRel
<1>. QED  BY <1>2

(* The first answer to a request is one of its answers.                     *)
LEMMA FirstAnswers ==
  ASSUME IInv, NEW r \in Request, Answers(r) # {}
  PROVE  First(Answers(r)) \in DOMAIN taps /\ ValidTap(r, First(Answers(r)))
<1>1. Answers(r) \subseteq Nat
  BY DEF Answers, IInv, TypeOK
<1>2. \E k \in Answers(r) : \A j \in Answers(r) : k <= j
  BY <1>1, LeastExists
<1>3. First(Answers(r)) \in Answers(r)
  BY <1>2 DEF First
<1>. QED  BY <1>3 DEF Answers

-----------------------------------------------------------------------------
(* No request is made at first.                                             *)
LEMMA InitKeeps == Init => IInv
<1>. SUFFICES ASSUME Init PROVE IInv
  OBVIOUS
<1>1. TypeOK
  BY Bounds DEF Init, TypeOK, BatchStatus, ApprovalState, Day, Idle
<1>2. Numbered /\ Fresh /\ Latest /\ OneOpenRequest /\ Working
  BY Bounds DEF Init, Numbered, Fresh, Latest, OneOpenRequest, Awaiting, Working, Idle
<1>. QED  BY <1>1, <1>2 DEF IInv

(* What a batch pays may change while it is a draft.                        *)
LEMMA UpdateKeeps ==
  ASSUME IInv, NEW b \in Batch, NEW c \in Content, Update(b, c)
  PROVE  IInv'
<1>1. TypeOK'
  BY Bounds DEF IInv, TypeOK, Update, settings, batches, requests, delivery
<1>2. Numbered' /\ Fresh' /\ Latest' /\ OneOpenRequest' /\ Working'
  BY DEF IInv, Numbered, Fresh, Latest, OneOpenRequest, Working, Awaiting, ValidTap,
       Update, settings, batches, requests, delivery
<1>3. QED  BY <1>1, <1>2 DEF IInv

(* A request is made beside no open one of its batch.                       *)
LEMMA AskKeeps ==
  ASSUME IInv, NEW b \in Batch, Ask(b)
  PROVE  IInv'
<1>a. /\ asked + 1 \in Request /\ asked \in Nat /\ batch[b] = "DRAFT"
      /\ asked' = asked + 1
      /\ state' = [state EXCEPT ![asked + 1] = "AWAITING"]
      /\ of' = [of EXCEPT ![asked + 1] = b]
      /\ shown' = [shown EXCEPT ![asked + 1] = content[b]]
      /\ to' = [to EXCEPT ![asked + 1] = approver]
      /\ sender' = [sender EXCEPT ![asked + 1] = "prepare"]
      /\ current' = [current EXCEPT ![b] = asked + 1]
      /\ batch' = [batch EXCEPT ![b] = "AWAITING_APPROVAL"]
      /\ UNCHANGED <<settings, content, linked, day, message, taps, worker>>
  BY Bounds DEF Ask, Lock, IInv, TypeOK, Request
<1>b. \A q \in Request : q <= asked => /\ q # asked + 1 /\ of[q] \in Batch
                                   /\ of'[q] = of[q] /\ to'[q] = to[q] /\ state'[q] = state[q]
  BY <1>a, Bounds DEF IInv, TypeOK, Numbered
<1>c. \A q \in Request : (q <= asked <=> state[q] # "ABSENT") /\ (q <= asked + 1 <=> q <= asked \/ q = asked + 1)
  BY <1>a, Bounds DEF IInv, Numbered, TypeOK
<1>d. \A q \in Awaiting : q <= asked /\ of[q] # b
  BY <1>a, <1>c DEF Awaiting, IInv, OneOpenRequest
<1>1. TypeOK'
  <2>1. enabled' \in BOOLEAN /\ approver' \in Approver /\ changes' \in 0 .. MaxChanges
    BY <1>a DEF IInv, TypeOK, settings
  <2>2. batch' \in [Batch -> BatchStatus] /\ state' \in [Request -> ApprovalState]
    BY <1>a DEF IInv, TypeOK, BatchStatus, ApprovalState
  <2>3. content' \in [Batch -> Content] /\ current' \in [Batch -> Request \cup {None}] /\ asked' \in 0 .. MaxRequests
    BY <1>a, Bounds DEF IInv, TypeOK, Request
  <2>4. /\ of' \in [Request -> Batch \cup {None}] /\ shown' \in [Request -> Content \cup {None}]
        /\ to' \in [Request -> Approver \cup {None}]
        /\ sender' \in [Request -> {"none", "prepare", "link", "dispatch", "done"}]
    BY <1>a DEF IInv, TypeOK
  <2>. QED  BY <1>a, <2>1, <2>2, <2>3, <2>4 DEF IInv, TypeOK
<1>2. Numbered'
  BY <1>a, <1>b, <1>c, Bounds DEF IInv, TypeOK, Numbered, settings, batches, requests,
       delivery
<1>3. Fresh'
  BY <1>a, <1>b, <1>c, Bounds DEF IInv, TypeOK, Fresh, settings, batches, requests,
       delivery
<1>4. Latest'
  <2>1. ASSUME NEW r \in 1 .. asked + 1
        PROVE  current'[of'[r]] \in 1 .. asked + 1 /\ r <= current'[of'[r]]
    <3>1. CASE r = asked + 1
      <4>1. of'[r] = b /\ current'[b] = asked + 1
        BY <1>a, <3>1 DEF IInv, TypeOK
      <4>. QED  BY <1>a, <3>1, <4>1
    <3>2. CASE r # asked + 1
      <4>1. r \in 1 .. asked /\ r \in Request /\ of'[r] = of[r] /\ of[r] \in Batch
        BY <1>a, <1>b, <3>2, Bounds DEF IInv, TypeOK, Request
      <4>2. current[of[r]] \in 1 .. asked /\ r <= current[of[r]]
        BY <4>1 DEF IInv, Latest
      <4>3. current'[of[r]] = asked + 1 \/ current'[of[r]] = current[of[r]]
        BY <1>a, <4>1 DEF IInv, TypeOK
      <4>. QED  BY <1>a, <4>1, <4>2, <4>3
    <3>. QED  BY <3>1, <3>2
  <2>2. ASSUME NEW c \in Batch, batch'[c] = "AWAITING_APPROVAL" PROVE of'[current'[c]] = c
    <3>1. CASE c = b
      BY <1>a, <3>1 DEF IInv, TypeOK
    <3>2. CASE c # b
      <4>1. batch[c] = "AWAITING_APPROVAL" /\ current'[c] = current[c]
        BY <1>a, <2>2, <3>2 DEF IInv, TypeOK
      <4>2. of[current[c]] = c /\ current[c] \in Awaiting
        BY <4>1 DEF IInv, Latest, OneOpenRequest
      <4>3. current[c] \in Request /\ current[c] <= asked
        BY <1>d, <4>2 DEF Awaiting
      <4>. QED  BY <1>b, <4>1, <4>2, <4>3
    <3>. QED  BY <3>1, <3>2
  <2>. QED  BY <1>a, <2>1, <2>2 DEF Latest
<1>5. OneOpenRequest'
  BY <1>a, <1>b, <1>c, Bounds DEF IInv, TypeOK, OneOpenRequest, Awaiting, settings,
       batches, requests, delivery
<1>6. Working'
  BY <1>a, <1>b, <1>c, Bounds DEF IInv, TypeOK, Working, ValidTap, settings, batches,
       requests, delivery
<1>7. QED  BY <1>1, <1>2, <1>3, <1>4, <1>5, <1>6 DEF IInv

(* A batch canceled takes its requests with it.                             *)
LEMMA CancelKeeps ==
  ASSUME IInv, NEW b \in Batch, Cancel(b)
  PROVE  IInv'
<1>a. /\ batch' = [batch EXCEPT ![b] = "CANCELED"]
      /\ state' = [q \in Request |-> IF of[q] = b /\ state[q] = "AWAITING" THEN "INVALIDATED" ELSE state[q]]
      /\ UNCHANGED <<settings, content, current, asked, of, shown, to, linked, day, delivery, taps, worker>>
  BY DEF Cancel, Lock, End
<1>1. TypeOK'
  BY <1>a DEF IInv, TypeOK, settings, batches, requests, delivery, BatchStatus,
       ApprovalState
<1>2. Numbered'
  BY <1>a DEF IInv, TypeOK, Numbered, settings, batches, requests, delivery
<1>3. Latest'
  BY <1>a DEF IInv, TypeOK, Latest, settings, batches, requests, delivery
<1>4. OneOpenRequest'
  <2>1. ASSUME NEW r \in Request, state'[r] = "AWAITING"
        PROVE  batch'[of[r]] = "AWAITING_APPROVAL" /\ current[of[r]] = r
    <3>1. state[r] = "AWAITING" /\ of[r] # b
      BY <1>a, <2>1
    <3>2. batch[of[r]] = "AWAITING_APPROVAL" /\ current[of[r]] = r /\ of[r] \in Batch
      BY <3>1, Bounds DEF IInv, OneOpenRequest, Awaiting, Numbered, TypeOK
    <3>. QED  BY <1>a, <3>1, <3>2 DEF IInv, TypeOK
  <2>2. ASSUME NEW c \in Batch, batch'[c] = "AWAITING_APPROVAL"
        PROVE  current[c] \in Request /\ state'[current[c]] = "AWAITING"
    <3>1. c # b /\ batch[c] = "AWAITING_APPROVAL"
      BY <1>a, <2>2 DEF IInv, TypeOK
    <3>2. current[c] \in Request /\ state[current[c]] = "AWAITING" /\ of[current[c]] = c
      BY <3>1 DEF IInv, OneOpenRequest, Awaiting, Latest
    <3>. QED  BY <1>a, <3>1, <3>2
  <2>. QED  BY <1>a, <2>1, <2>2 DEF OneOpenRequest, Awaiting
<1>5. Fresh' /\ Working'
  BY <1>a DEF IInv, Fresh, Working, Awaiting, ValidTap, settings, batches, requests,
       delivery
<1>6. QED  BY <1>1, <1>2, <1>3, <1>4, <1>5 DEF IInv

(* New settings end every request.                                          *)
LEMMA ConfigureKeeps ==
  ASSUME IInv, NEW on \in BOOLEAN, NEW who \in Approver, Configure(on, who)
  PROVE  IInv'
<1>a. /\ changes' \in 0 .. MaxChanges /\ enabled' = on /\ approver' = who
      /\ UNCHANGED <<content, current, asked, of, shown, to, linked, day, delivery, taps, worker>>
  BY Bounds DEF Configure, IInv, TypeOK
<1>b. state' \in [Request -> ApprovalState] /\ batch' \in [Batch -> BatchStatus]
  BY DEF Configure, End, IInv, TypeOK, ApprovalState, BatchStatus
<1>c. \/ UNCHANGED <<batch, state>>
      \/ /\ \A q \in Request : state'[q] = IF state[q] = "AWAITING" THEN "INVALIDATED" ELSE state[q]
         /\ \A b \in Batch : batch'[b] # "AWAITING_APPROVAL"
  BY DEF Configure, End
<1>1. TypeOK'
  BY <1>a, <1>b, <1>c DEF IInv, TypeOK, settings, batches, requests, delivery
<1>2. Numbered'
  BY <1>a, <1>b, <1>c DEF IInv, TypeOK, Numbered, settings, batches, requests, delivery
<1>3. Latest'
  BY <1>a, <1>b, <1>c DEF IInv, TypeOK, Latest, settings, batches, requests, delivery
<1>4. OneOpenRequest'
  BY <1>a, <1>b, <1>c DEF IInv, TypeOK, OneOpenRequest, Awaiting, settings, batches,
       requests, delivery
<1>5. Fresh' /\ Working'
  BY <1>a, <1>b, <1>c DEF IInv, Fresh, Working, Awaiting, ValidTap, settings, batches,
       requests, delivery
<1>6. QED  BY <1>1, <1>2, <1>3, <1>4, <1>5 DEF IInv

(* A message is prepared for a request made.                                *)
LEMMA PrepareKeeps ==
  ASSUME IInv, NEW r \in Request, Prepare(r)
  PROVE  IInv'
<1>1. TypeOK'
  BY Bounds DEF IInv, TypeOK, Prepare, settings, batches, requests, delivery
<1>2. Fresh'
  BY Bounds DEF IInv, TypeOK, Fresh, Prepare, settings, batches, requests, delivery
<1>3. Numbered' /\ Latest' /\ OneOpenRequest' /\ Working'
  BY DEF IInv, Numbered, Latest, OneOpenRequest, Working, Awaiting, ValidTap, Prepare,
       settings, batches, requests, delivery
<1>4. QED  BY <1>1, <1>2, <1>3 DEF IInv

(* A held template ends the request.                                        *)
LEMMA PrepareBlockedKeeps ==
  ASSUME IInv, NEW r \in Request, PrepareBlocked(r)
  PROVE  IInv'
<1>a. /\ state' \in [Request -> ApprovalState] /\ batch' \in [Batch -> BatchStatus]
      /\ Numbered' /\ Latest' /\ OneOpenRequest'
  BY ClosingKeeps DEF PrepareBlocked, Ending, Leaving, BatchStatus
<1>1. TypeOK'
  BY <1>a DEF IInv, TypeOK, PrepareBlocked, settings, batches, requests, delivery
<1>2. Numbered'
  BY <1>a
<1>3. Fresh'
  BY <1>a DEF IInv, TypeOK, Fresh, PrepareBlocked, settings, batches, requests, delivery
<1>4. Latest'
  BY <1>a
<1>5. OneOpenRequest'
  BY <1>a
<1>6. Working'
  BY DEF IInv, Working, Awaiting, ValidTap, PrepareBlocked, settings, batches, requests,
       delivery
<1>7. QED  BY <1>1, <1>2, <1>3, <1>4, <1>5, <1>6 DEF IInv

(* A message is linked before anybody answers it.                           *)
LEMMA LinkKeeps ==
  ASSUME IInv, NEW r \in Request, Link(r)
  PROVE  IInv'
<1>1. TypeOK'
  BY Bounds DEF IInv, TypeOK, Link, settings, batches, requests, delivery
<1>2. Fresh'
  BY Bounds DEF IInv, TypeOK, Fresh, Link, settings, batches, requests, delivery
<1>3. Working'
  BY Bounds DEF IInv, TypeOK, Working, ValidTap, Link, settings, batches, requests,
       delivery
<1>4. Numbered' /\ Latest' /\ OneOpenRequest'
  BY DEF IInv, Numbered, Latest, OneOpenRequest, Awaiting, ValidTap, Link, settings,
       batches, requests, delivery
<1>5. QED  BY <1>1, <1>2, <1>3, <1>4 DEF IInv

(* A message refused ends its request.                                      *)
LEMMA DispatchKeeps ==
  ASSUME IInv, NEW r \in Request, NEW refused \in BOOLEAN, Dispatch(r, refused)
  PROVE  IInv'
<1>a. /\ state' \in [Request -> ApprovalState] /\ batch' \in [Batch -> BatchStatus]
      /\ Numbered' /\ Latest' /\ OneOpenRequest'
  <2>1. CASE refused
    BY <2>1, ClosingKeeps DEF Dispatch, Ending, Leaving, BatchStatus
  <2>2. CASE ~refused
    BY <2>2 DEF Dispatch, IInv, TypeOK, Numbered, Latest, OneOpenRequest, Awaiting
  <2>. QED  BY <2>1, <2>2
<1>1. TypeOK'
  BY <1>a DEF IInv, TypeOK, Dispatch, settings, batches, requests, delivery
<1>2. Numbered'
  BY <1>a
<1>3. Fresh'
  BY <1>a DEF IInv, TypeOK, Fresh, Dispatch, settings, batches, requests, delivery
<1>4. Latest'
  BY <1>a
<1>5. OneOpenRequest'
  BY <1>a
<1>6. Working'
  BY DEF IInv, Working, Awaiting, ValidTap, Dispatch, settings, batches, requests,
       delivery
<1>7. QED  BY <1>1, <1>2, <1>3, <1>4, <1>5, <1>6 DEF IInv

(* A message goes out as it was prepared.                                   *)
LEMMA DeliverKeeps ==
  ASSUME IInv, NEW r \in Request, Deliver(r)
  PROVE  IInv'
<1>1. TypeOK'
  BY DEF IInv, TypeOK, Deliver, settings, batches, requests, delivery
<1>2. Fresh'
  BY DEF IInv, TypeOK, Fresh, Deliver, settings, batches, requests, delivery
<1>3. Numbered' /\ Latest' /\ OneOpenRequest' /\ Working'
  BY DEF IInv, Numbered, Latest, OneOpenRequest, Working, Awaiting, ValidTap, Deliver,
       settings, batches, requests, delivery
<1>4. QED  BY <1>1, <1>2, <1>3 DEF IInv

(* A tap comes after those before it.                                       *)
LEMMA TapKeeps ==
  ASSUME IInv, NEW r \in Request, NEW who \in Approver, NEW answer \in {"approve", "reject"}, Tap(r, who, answer)
  PROVE  IInv'
<1>b. taps' \in Seq([on : Request, by : Approver, says : {"approve", "reject"},
                     inTime : BOOLEAN, stored : {"no", "early", "late"}])
  BY DEF Tap, IInv, TypeOK
<1>c. UNCHANGED <<settings, batches, requests, delivery, worker>>
  BY DEF Tap
<1>d. \A k \in DOMAIN taps :
        /\ k \in DOMAIN taps'
        /\ taps'[k].on = taps[k].on /\ taps'[k].by = taps[k].by
        /\ taps'[k].inTime = taps[k].inTime
        /\ taps[k].stored # "no" => taps'[k].stored = taps[k].stored
  BY TapsStay
<1>1. TypeOK'
  BY <1>b, <1>c, <1>d DEF IInv, TypeOK, settings, batches, requests, delivery
<1>2. Working'
  BY <1>b, <1>c, <1>d DEF IInv, TypeOK, Working, ValidTap, settings, batches, requests,
       delivery
<1>3. Numbered' /\ Fresh' /\ Latest' /\ OneOpenRequest'
  BY <1>b, <1>c, <1>d DEF IInv, Numbered, Fresh, Latest, OneOpenRequest, Awaiting,
       ValidTap, settings, batches, requests, delivery
<1>4. QED  BY <1>1, <1>2, <1>3 DEF IInv

(* A tap is stored once.                                                    *)
LEMMA StoreKeeps ==
  ASSUME IInv, NEW k \in DOMAIN taps, Store(k)
  PROVE  IInv'
<1>b. taps' \in Seq([on : Request, by : Approver, says : {"approve", "reject"},
                     inTime : BOOLEAN, stored : {"no", "early", "late"}])
  BY StoredTap
<1>c. UNCHANGED <<settings, batches, requests, delivery, worker>>
  BY DEF Store
<1>d. \A j \in DOMAIN taps :
        /\ j \in DOMAIN taps'
        /\ taps'[j].on = taps[j].on /\ taps'[j].by = taps[j].by
        /\ taps'[j].inTime = taps[j].inTime
        /\ taps[j].stored # "no" => taps'[j].stored = taps[j].stored
  BY TapsStay
<1>1. TypeOK'
  BY <1>b, <1>c, <1>d DEF IInv, TypeOK, settings, batches, requests, delivery
<1>2. Working'
  BY <1>b, <1>c, <1>d DEF IInv, TypeOK, Working, ValidTap, settings, batches, requests,
       delivery
<1>3. Numbered' /\ Fresh' /\ Latest' /\ OneOpenRequest'
  BY <1>b, <1>c, <1>d DEF IInv, Numbered, Fresh, Latest, OneOpenRequest, Awaiting,
       ValidTap, settings, batches, requests, delivery
<1>4. QED  BY <1>1, <1>2, <1>3 DEF IInv

(* A day ends once.                                                         *)
LEMMA DayEndsKeeps ==
  ASSUME IInv, NEW r \in Request, DayEnds(r)
  PROVE  IInv'
<1>1. TypeOK'
  BY DEF IInv, TypeOK, DayEnds, settings, batches, requests, delivery, Day
<1>2. Fresh'
  BY DEF IInv, TypeOK, Fresh, DayEnds, settings, batches, requests, delivery, Numbered
<1>3. Numbered' /\ Latest' /\ OneOpenRequest' /\ Working'
  BY DEF IInv, Numbered, Latest, OneOpenRequest, Working, Awaiting, ValidTap, DayEnds,
       settings, batches, requests, delivery
<1>4. QED  BY <1>1, <1>2, <1>3 DEF IInv

(* The grace ends once.                                                     *)
LEMMA GraceEndsKeeps ==
  ASSUME IInv, NEW r \in Request, GraceEnds(r)
  PROVE  IInv'
<1>1. TypeOK'
  BY DEF IInv, TypeOK, GraceEnds, settings, batches, requests, delivery, Day
<1>2. Fresh'
  BY DEF IInv, TypeOK, Fresh, GraceEnds, settings, batches, requests, delivery
<1>3. Numbered' /\ Latest' /\ OneOpenRequest' /\ Working'
  BY DEF IInv, Numbered, Latest, OneOpenRequest, Working, Awaiting, ValidTap, GraceEnds,
       settings, batches, requests, delivery
<1>4. QED  BY <1>1, <1>2, <1>3 DEF IInv

(* A tick begins with nothing read.                                         *)
LEMMA StartTickKeeps ==
  ASSUME IInv, StartTick
  PROVE  IInv'
<1>1. TypeOK'
  BY DEF IInv, TypeOK, StartTick, settings, batches, requests, delivery, Idle,
       OldestPage, Answerable, Awaiting
<1>2. Working'
  BY DEF IInv, TypeOK, Working, ValidTap, StartTick, settings, batches, requests,
       delivery, Idle
<1>3. Numbered' /\ Fresh' /\ Latest' /\ OneOpenRequest'
  BY DEF IInv, Numbered, Fresh, Latest, OneOpenRequest, Awaiting, ValidTap, StartTick,
       settings, batches, requests, delivery
<1>4. QED  BY <1>1, <1>2, <1>3 DEF IInv

(* A tap read answers its request.                                          *)
LEMMA ReadTapsKeeps ==
  ASSUME IInv, NEW r \in Request, ReadTaps(r)
  PROVE  IInv'
<1>a. UNCHANGED <<settings, batches, requests, delivery, taps>> /\ r \in worker.todo
  BY DEF ReadTaps
<1>b. \/ worker' = [worker EXCEPT !.todo = @ \ {r}] /\ worker.at = "decide"
      \/ \E k \in DOMAIN taps : /\ worker' = [worker EXCEPT !.at = "apply", !.on = r, !.tap = k]
                                /\ ValidTap(r, k) /\ state[r] = "AWAITING"
  <2>1. Answers(r) # {} => First(Answers(r)) \in DOMAIN taps /\ ValidTap(r, First(Answers(r)))
    BY FirstAnswers
  <2>. QED  BY <2>1 DEF ReadTaps
<1>c. state[r] = "AWAITING" => r <= asked
  BY Bounds DEF IInv, Numbered, TypeOK
<1>d. DOMAIN taps \subseteq Nat
  BY DEF IInv, TypeOK
<1>1. TypeOK'
  BY <1>a, <1>b, <1>d DEF IInv, TypeOK, settings, batches, requests, delivery
<1>2. Working'
  BY <1>a, <1>b, <1>c DEF IInv, TypeOK, Working, ValidTap, settings, batches, requests,
       delivery
<1>3. Numbered' /\ Fresh' /\ Latest' /\ OneOpenRequest'
  BY <1>a, <1>b DEF IInv, Numbered, Fresh, Latest, OneOpenRequest, Awaiting, ValidTap,
       settings, batches, requests, delivery
<1>4. QED  BY <1>1, <1>2, <1>3 DEF IInv

(* A request that still holds is decided with its batch.                    *)
LEMMA DecideKeeps ==
  ASSUME IInv, Decide
  PROVE  IInv'
<1>a. /\ state' \in [Request -> ApprovalState] /\ batch' \in [Batch -> BatchStatus]
      /\ Numbered' /\ Latest' /\ OneOpenRequest'
  <2>1. worker.on \in Request /\ worker.on <= asked
    BY DEF Decide, IInv, TypeOK, Working
  <2>2. CASE state[worker.on] # "AWAITING"
    BY <2>2 DEF Decide, IInv, TypeOK, Numbered, Latest, OneOpenRequest, Awaiting
  <2>3. CASE state[worker.on] = "AWAITING" /\ ~StillAsRequested(worker.on)
    BY <2>1, <2>3, ClosingKeeps DEF Decide, Ending, Leaving, BatchStatus
  <2>4. CASE state[worker.on] = "AWAITING" /\ StillAsRequested(worker.on)
    <3>1. PICK becomes \in Ending, status \in Leaving :
            End({worker.on}, becomes) /\ Lock(of[worker.on], status)
      BY <2>4 DEF Decide, Ending, Leaving, BatchStatus
    <3>2. of[worker.on] \in Batch
      BY <2>1 DEF IInv, Numbered
    <3>3. Close(worker.on, becomes, status)
      <4>1. \A b \in Batch : batch'[b] = IF b = of[worker.on] THEN status ELSE batch[b]
        BY <3>1, <3>2 DEF Lock, IInv, TypeOK
      <4>2. batch' = [b \in Batch |-> batch'[b]]
        BY <3>1 DEF Lock, IInv, TypeOK
      <4>. QED  BY <2>4, <3>1, <4>1, <4>2 DEF Close, StillAsRequested
    <3>4. UNCHANGED <<current, asked, of, shown, to>>
      BY DEF Decide
    <3>. QED  BY <2>1, <3>1, <3>3, <3>4, ClosingKeeps
  <2>. QED  BY <2>2, <2>3, <2>4
<1>1. TypeOK'
  BY <1>a DEF IInv, TypeOK, Decide, settings, batches, requests, delivery, Decided
<1>2. Numbered'
  BY <1>a
<1>3. Latest'
  BY <1>a
<1>4. OneOpenRequest'
  BY <1>a
<1>5. Working'
  BY <1>a DEF IInv, TypeOK, Working, ValidTap, Decide, settings, batches, requests,
       delivery, Decided
<1>6. Fresh'
  BY DEF IInv, Fresh, Awaiting, ValidTap, Decide, settings, batches, requests, delivery
<1>7. QED  BY <1>1, <1>2, <1>3, <1>4, <1>5, <1>6 DEF IInv

(* A failure decides nothing.                                               *)
LEMMA DecideFailsKeeps ==
  ASSUME IInv, DecideFails
  PROVE  IInv'
<1>1. TypeOK'
  BY DEF IInv, TypeOK, Decided, DecideFails, settings, batches, requests, delivery
<1>2. Working'
  BY DEF IInv, TypeOK, Working, ValidTap, Decided, DecideFails, settings, batches,
       requests, delivery
<1>3. Numbered' /\ Fresh' /\ Latest' /\ OneOpenRequest'
  BY DEF IInv, Numbered, Fresh, Latest, OneOpenRequest, Awaiting, ValidTap, DecideFails,
       settings, batches, requests, delivery
<1>4. QED  BY <1>1, <1>2, <1>3 DEF IInv

(* What is overdue is listed.                                               *)
LEMMA StartExpiringKeeps ==
  ASSUME IInv, StartExpiring
  PROVE  IInv'
<1>1. TypeOK'
  BY DEF IInv, TypeOK, StartExpiring, settings, batches, requests, delivery
<1>2. Working'
  BY DEF IInv, TypeOK, Working, ValidTap, StartExpiring, settings, batches, requests,
       delivery
<1>3. Numbered' /\ Fresh' /\ Latest' /\ OneOpenRequest'
  BY DEF IInv, Numbered, Fresh, Latest, OneOpenRequest, Awaiting, ValidTap,
       StartExpiring, settings, batches, requests, delivery
<1>4. QED  BY <1>1, <1>2, <1>3 DEF IInv

(* A request expires with its batch.                                        *)
LEMMA ExpireKeeps ==
  ASSUME IInv, NEW r \in Request, Expire(r)
  PROVE  IInv'
<1>a. /\ state' \in [Request -> ApprovalState] /\ batch' \in [Batch -> BatchStatus]
      /\ Numbered' /\ Latest' /\ OneOpenRequest'
  BY ClosingKeeps DEF Expire, Ending, Leaving, BatchStatus
<1>1. TypeOK'
  BY <1>a DEF IInv, TypeOK, Expire, settings, batches, requests, delivery
<1>2. Numbered'
  BY <1>a
<1>3. Latest'
  BY <1>a
<1>4. OneOpenRequest'
  BY <1>a
<1>5. Working'
  BY <1>a DEF IInv, TypeOK, Working, ValidTap, Expire, settings, batches, requests,
       delivery
<1>6. Fresh'
  BY DEF IInv, Fresh, Awaiting, ValidTap, Expire, settings, batches, requests, delivery
<1>7. QED  BY <1>1, <1>2, <1>3, <1>4, <1>5, <1>6 DEF IInv

(* A request whose message is not linked is released.                       *)
LEMMA ReleaseUnsentKeeps ==
  ASSUME IInv, NEW r \in Request, ReleaseUnsent(r)
  PROVE  IInv'
<1>a. /\ state' \in [Request -> ApprovalState] /\ batch' \in [Batch -> BatchStatus]
      /\ Numbered' /\ Latest' /\ OneOpenRequest'
  BY ClosingKeeps DEF ReleaseUnsent, Ending, Leaving, BatchStatus
<1>1. TypeOK'
  BY <1>a DEF IInv, TypeOK, ReleaseUnsent, settings, batches, requests, delivery
<1>2. Numbered'
  BY <1>a
<1>3. Latest'
  BY <1>a
<1>4. OneOpenRequest'
  BY <1>a
<1>5. Fresh' /\ Working'
  BY DEF IInv, Fresh, Working, Awaiting, ValidTap, ReleaseUnsent, settings, batches,
       requests, delivery
<1>6. QED  BY <1>1, <1>2, <1>3, <1>4, <1>5 DEF IInv

(* A tick ends with nothing in hand.                                        *)
LEMMA EndTickKeeps ==
  ASSUME IInv, EndTick
  PROVE  IInv'
<1>1. TypeOK'
  BY DEF IInv, TypeOK, Idle, EndTick, settings, batches, requests, delivery
<1>2. Working'
  BY DEF IInv, TypeOK, Working, ValidTap, Idle, EndTick, settings, batches, requests,
       delivery
<1>3. Numbered' /\ Fresh' /\ Latest' /\ OneOpenRequest'
  BY DEF IInv, Numbered, Fresh, Latest, OneOpenRequest, Awaiting, ValidTap, EndTick,
       settings, batches, requests, delivery
<1>4. QED  BY <1>1, <1>2, <1>3 DEF IInv

(* Every step preserves the inductive invariant.                            *)
LEMMA StepKeeps == IInv /\ [Next]_vars => IInv'
<1>. SUFFICES ASSUME IInv, [Next]_vars PROVE IInv'
  OBVIOUS
<1>1. CASE Company
  BY <1>1, UpdateKeeps, AskKeeps, CancelKeeps, ConfigureKeeps DEF Company
<1>2. CASE Asking
  BY <1>2, PrepareKeeps, PrepareBlockedKeeps, LinkKeeps, DeliverKeeps, DispatchKeeps DEF Asking
<1>3. CASE Outside
  BY <1>3, TapKeeps, StoreKeeps, DayEndsKeeps, GraceEndsKeeps DEF Outside
<1>4. CASE Worker
  BY <1>4, StartTickKeeps, DecideKeeps, DecideFailsKeeps, StartExpiringKeeps, EndTickKeeps,
     ReadTapsKeeps, ExpireKeeps, ReleaseUnsentKeeps DEF Worker
<1>5. CASE UNCHANGED vars
  <2>1. TypeOK' /\ Numbered' /\ Fresh' /\ Latest'
    BY <1>5 DEF vars, settings, batches, requests, delivery, IInv, TypeOK, Numbered, Fresh, Latest
  <2>2. OneOpenRequest' /\ Working'
    BY <1>5 DEF vars, settings, batches, requests, delivery, IInv, OneOpenRequest, Awaiting,
                Working, ValidTap
  <2>. QED  BY <2>1, <2>2 DEF IInv
<1>. QED  BY <1>1, <1>2, <1>3, <1>4, <1>5 DEF Next

(* The inductive invariant holds of every behaviour.                        *)
THEOREM Invariant == Spec => []IInv
BY InitKeeps, StepKeeps, PTL DEF Spec

-----------------------------------------------------------------------------
(* Every state is one the schema has, and references are to real rows.      *)
THEOREM TypeCorrect == Spec => []TypeOK
<1>1. IInv => TypeOK
  BY DEF IInv
<1>. QED  BY <1>1, Invariant, PTL

(* Whatever the company, the admin and the worker do at the same time, a    *)
(* batch awaits approval exactly while its current request does.            *)
THEOREM OneIsOpen == Spec => []OneOpenRequest
<1>1. IInv => OneOpenRequest
  BY DEF IInv
<1>. QED  BY <1>1, Invariant, PTL

(* The batch released is the one whose approver tapped, in time, on its     *)
(* latest request, for what that request showed.                            *)
Authorized(b) ==
  /\ enabled
  /\ \E k \in DOMAIN taps :
       /\ taps[k].says = "approve" /\ taps[k].inTime
       /\ taps[k].by = approver
       /\ of[taps[k].on] = b
       /\ \A r \in 1 .. asked : of[r] = b => r <= taps[k].on
       /\ shown[taps[k].on] = content[b]

Release ==
  \A b \in Batch : batch[b] # "PROCESSING" /\ batch'[b] = "PROCESSING" => Authorized(b)

(* Only a decision releases a batch.                                        *)
LEMMA ReleaseKeeps == IInv /\ [Next]_vars => [Release]_vars
<1>1. ASSUME IInv, Next PROVE Release
  <2>. SUFFICES ASSUME NEW b \in Batch, batch[b] # "PROCESSING", batch'[b] = "PROCESSING"
       PROVE  Authorized(b)
    BY DEF Release
  <2>1. CASE Decide
    <3>1. /\ worker.on \in Request /\ worker.on \in 1 .. asked
          /\ worker.tap \in DOMAIN taps /\ ValidTap(worker.on, worker.tap)
      <4>1. /\ worker.on \in worker.todo /\ worker.on <= asked
            /\ worker.tap \in DOMAIN taps /\ ValidTap(worker.on, worker.tap)
        BY <1>1, <2>1 DEF Decide, IInv, Working
      <4>2. worker.todo \subseteq Request /\ asked \in Nat
        BY <1>1 DEF IInv, TypeOK
      <4>3. worker.on \in Request /\ worker.on \in Nat \ {0}
        BY <4>1, <4>2, Bounds
      <4>. QED  BY <4>1, <4>2, <4>3
    <3>2. /\ b = of[worker.on] /\ StillAsRequested(worker.on)
          /\ taps[worker.tap].says = "approve"
      <4>1. ~Close(worker.on, "INVALIDATED", "DRAFT") /\ batch' # batch
        BY DEF Close
      <4>2. /\ state[worker.on] = "AWAITING" /\ StillAsRequested(worker.on)
            /\ Lock(of[worker.on], IF taps[worker.tap].says = "approve" THEN "PROCESSING" ELSE "REJECTED")
        BY <2>1, <4>1 DEF Decide
      <4>3. batch \in [Batch -> BatchStatus]
        BY <1>1 DEF IInv, TypeOK
      <4>. QED  BY <4>2, <4>3 DEF Lock
    <3>3. \A r \in 1 .. asked : of[r] = b => r <= worker.on
      <4>1. current[b] = worker.on
        BY <3>2 DEF StillAsRequested
      <4>. QED  BY <1>1, <4>1 DEF IInv, Latest
    <3>. QED  BY <3>1, <3>2, <3>3 DEF Authorized, ValidTap, StillAsRequested
  <2>2. ASSUME NEW r \in Request, NEW becomes, NEW status \in {"DRAFT", "EXPIRED"},
               Close(r, becomes, status)
        PROVE  FALSE
    BY <1>1, <2>2 DEF Close, IInv, TypeOK
  <2>3. ~Company
    <3>1. batch \in [Batch -> BatchStatus]
      BY <1>1 DEF IInv, TypeOK
    <3>2. \A c \in Batch : ~Ask(c) /\ ~Cancel(c) /\ \A x \in Content : ~Update(c, x)
      BY <3>1 DEF Ask, Cancel, Update, Lock
    <3>3. \A on \in BOOLEAN, who \in Approver : ~Configure(on, who)
      BY DEF Configure
    <3>. QED  BY <3>2, <3>3 DEF Company
  <2>4. ~Asking
    BY <2>2 DEF Asking, Prepare, PrepareBlocked, Link, Deliver, Dispatch, batches
  <2>5. ~Outside
    BY DEF Outside, Tap, Store, DayEnds, GraceEnds, batches
  <2>6. CASE Worker /\ ~Decide
    BY <2>2, <2>6 DEF Worker, StartTick, DecideFails, StartExpiring, EndTick, ReadTaps, Expire,
       ReleaseUnsent, batches
  <2>. QED  BY <1>1, <2>1, <2>3, <2>4, <2>5, <2>6 DEF Next
<1>. QED  BY <1>1

(* Money leaves only for what its approver saw, for any number of batches,  *)
(* requests, taps and changes of what is asked.                             *)
THEOREM OnlyApprovedLeaves == Spec => OnlyAuthorizedIsPaid
<1>1. IInv /\ [Next]_vars =>
        [\A b \in Batch : batch[b] # "PROCESSING" /\ batch'[b] = "PROCESSING" =>
           Authorized(b)]_vars
  BY ReleaseKeeps DEF Release
<1>. QED  BY <1>1, Invariant, PTL DEF Spec, OnlyAuthorizedIsPaid, Authorized

=============================================================================
