--------------------- MODULE DisbursementSendingProofs ---------------------
(***************************************************************************)
(* Proofs about DisbursementSending, for any number of batches, people,    *)
(* overlapping senders and checks.                                         *)
(***************************************************************************)
EXTENDS MCDisbursements, TLAPS

(* What a request at each stage works on. *)
Targets ==
  \A s \in Sender :
    /\ stage[s] # "idle" => job[s] \in Batch /\ batch[job[s]] \in {"PROCESSING"} \cup Completed
    /\ stage[s] \in {"claim", "send", "wait"} => payee[s] \in Person

(* Only the items of a batch that is being paid, or was, leave PENDING. *)
ItemsFitBatch ==
  \A i \in Payment :
    /\ batch[i[1]] = "ABSENT" => item[i] = "ABSENT"
    /\ batch[i[1]] \in {"DRAFT", "AWAITING_APPROVAL"} => item[i] \in {"ABSENT", "PENDING"}
    /\ batch[i[1]] = "CANCELED" => item[i] \in {"ABSENT", "CANCELED"}
    /\ batch[i[1]] \in Completed => item[i] \in {"ABSENT", "PAID", "FAILED", "CANCELED"}

(* What the item says of the Pix is true, wherever it says something. *)
ItemsAreTrue ==
  \A i \in Payment :
    /\ item[i] \in {"ABSENT", "PENDING", "CANCELED"} => pix[i] = "none"
    /\ item[i] = "FAILED" => pix[i] \in {"none", "refused"}
    /\ item[i] = "PAID" => pix[i] = "paid"

(* So are the answer a sender holds and the one a check holds. *)
AnswersAreTrue ==
  \A s \in Sender :
    /\ stage[s] = "send" =>
         item[Target(s)] \in {"SENDING", "UNCERTAIN"} /\ pix[Target(s)] = "none"
    /\ stage[s] = "wait" =>
         /\ item[Target(s)] \notin {"ABSENT", "PENDING", "CANCELED"}
         /\ answer[s] = "RATE_LIMITED" => pix[Target(s)] = "none"
         /\ answer[s] = "REFUSED" => pix[Target(s)] \in {"none", "refused"}
         /\ answer[s] = "PAID" => pix[Target(s)] = "paid"
    /\ stage[s] # "wait" => answer[s] = None

ChecksAreTrue ==
  \A c \in Checker : check[c].at = "write" =>
    /\ pix[check[c].of] \notin {"none", "sent"}
    /\ check[c].found \in {"paid", "refused"} => pix[check[c].of] = check[c].found

(* A payment is in the hands of one sender at a time. *)
OneSender ==
  \A s, t \in Sender :
    s # t /\ stage[s] \in {"send", "wait"} /\ stage[t] \in {"send", "wait"} =>
      Target(s) # Target(t)

(* Batches are numbered as they are created, and one repeats only a batch  *)
(* that ended.                                                             *)
Origins ==
  /\ \A b, c \in Batch : c < b /\ batch[b] # "ABSENT" => batch[c] # "ABSENT"
  /\ \A b \in Batch : batch[b] = "ABSENT" => origin[b] = b
  /\ \A b \in Batch : origin[b] # b => batch[origin[b]] \in Completed

(* Of two standing batches that repeat the same one, the earlier ended, a   *)
(* retry of it stands, and whom the later one pays it failed to pay.        *)
Lineage ==
  \A b, c \in Batch :
    b < c /\ origin[b] = origin[c] /\ Standing(b) /\ Standing(c) =>
      /\ batch[b] \in Completed
      /\ \E d \in Batch : retryOf[d] = b /\ Standing(d) /\ (d = c \/ batch[d] \in Completed)
      /\ \A p \in Person : item[<<c, p>>] # "ABSENT" => item[<<b, p>>] = "FAILED"

(* The ranges of the functions, the part of TypeOK most steps rest on. *)
Ranges ==
  /\ batch \in [Batch -> BatchStatus]
  /\ retryOf \in [Batch -> Batch \cup {None}]
  /\ origin \in [Batch -> Batch]
  /\ item \in [Payment -> ItemStatus]
  /\ pix \in [Payment -> PixStatus]
  /\ stage \in [Sender -> {"idle", "account", "next", "claim", "send", "wait"}]
  /\ job \in [Sender -> Batch \cup {None}]
  /\ payee \in [Sender -> Person \cup {None}]
  /\ answer \in [Sender -> Outcome \cup {None}]

(* The inductive invariant. *)
IInv ==
  /\ TypeOK
  /\ Targets
  /\ ItemsFitBatch
  /\ ItemsAreTrue
  /\ AnswersAreTrue
  /\ ChecksAreTrue
  /\ OneSender
  /\ Origins
  /\ Lineage

(* The inductive invariant gives the ranges.                                *)
LEMMA RangesOfInv == IInv => Ranges
BY DEF IInv, TypeOK, Ranges

(* Lineage survives a step that creates no batch, takes back no completion, *)
(* and adds no item and forgets no failure.                                 *)
LEMMA LineageKept ==
  ASSUME Lineage, UNCHANGED <<origin, retryOf>>,
         \A b \in Batch : batch'[b] \notin {"ABSENT", "CANCELED"} => Standing(b),
         \A b \in Batch : batch[b] \in Completed => batch'[b] \in Completed,
         \A b \in Batch, p \in Person : item[<<b, p>>] = "ABSENT" => item'[<<b, p>>] = "ABSENT",
         \A b \in Batch, p \in Person : item[<<b, p>>] = "FAILED" => item'[<<b, p>>] = "FAILED"
  PROVE  Lineage'
<1>. SUFFICES ASSUME NEW b \in Batch, NEW c \in Batch,
                     b < c, origin'[b] = origin'[c],
                     batch'[b] \notin {"ABSENT", "CANCELED"},
                     batch'[c] \notin {"ABSENT", "CANCELED"}
              PROVE  /\ batch'[b] \in Completed
                     /\ \E d \in Batch :
                          /\ retryOf'[d] = b
                          /\ batch'[d] \notin {"ABSENT", "CANCELED"}
                          /\ d = c \/ batch'[d] \in Completed
                     /\ \A p \in Person : item'[<<c, p>>] # "ABSENT" => item'[<<b, p>>] = "FAILED"
  BY MaxBatchesAssumption DEF Lineage, Standing, Batch
<1>1. Standing(b) /\ Standing(c)
  OBVIOUS
<1>2. batch[b] \in Completed
  BY <1>1, MaxBatchesAssumption DEF Lineage, Batch
<1>3. PICK d \in Batch : retryOf[d] = b /\ Standing(d) /\ (d = c \/ batch[d] \in Completed)
  BY <1>1, MaxBatchesAssumption DEF Lineage, Batch
<1>4. \A p \in Person : item[<<c, p>>] # "ABSENT" => item[<<b, p>>] = "FAILED"
  BY <1>1, MaxBatchesAssumption DEF Lineage, Batch
<1>5. batch'[d] \in Completed => batch'[d] \notin {"ABSENT", "CANCELED"}
  BY DEF Completed
<1>6. batch'[d] \notin {"ABSENT", "CANCELED"} /\ (d = c \/ batch'[d] \in Completed)
  BY <1>3, <1>5
<1>. QED  BY <1>2, <1>3, <1>4, <1>6

(* Create preserves the inductive invariant.                              *)
LEMMA CreateKeeps ==
  ASSUME IInv, NEW b \in Batch, NEW people \in SUBSET Person, Create(b, people)
  PROVE  IInv'
<1>0. Ranges
  BY RangesOfInv
<1>1. TypeOK'
  BY DEF IInv, TypeOK, InFlight, Outcome, ItemStatus, PixStatus, BatchStatus, Create,
       companyVars, batchVars, senderVars, Items, NextBatch
<1>2. Targets'
  BY <1>0 DEF Ranges, IInv, Targets, Create, senderVars, Items, NextBatch, Completed,
       Payment
<1>3. ItemsFitBatch'
  BY <1>0 DEF Ranges, IInv, ItemsFitBatch, Create, senderVars, Items, NextBatch,
       Completed, Payment
<1>4. ItemsAreTrue'
  BY <1>0 DEF Ranges, IInv, ItemsAreTrue, AnswersAreTrue, ChecksAreTrue, ItemsFitBatch,
       Create, batchVars, senderVars, Items, NextBatch, InFlight, Completed, Payment
<1>5. AnswersAreTrue'
  BY <1>0 DEF Ranges, IInv, AnswersAreTrue, ItemsAreTrue, OneSender, Targets, Target,
       ItemsFitBatch, ChecksAreTrue, Create, batchVars, senderVars, Items, NextBatch,
       InFlight, Completed, Payment
<1>6. Origins'
  BY <1>0 DEF Ranges, IInv, Origins, Create, senderVars, Items, NextBatch, Completed,
       Payment
<1>7. Lineage'
  BY <1>0 DEF Ranges, IInv, Lineage, Origins, ItemsFitBatch, Standing, Create,
       batchVars, senderVars, Items, NextBatch, InFlight, Completed, Payment
<1>8. ChecksAreTrue' /\ OneSender'
  BY DEF IInv, ChecksAreTrue, OneSender, Target, Create, senderVars
<1>9. QED  BY <1>1, <1>2, <1>3, <1>4, <1>5, <1>6, <1>7, <1>8 DEF IInv

(* Update preserves the inductive invariant.                              *)
LEMMA UpdateKeeps ==
  ASSUME IInv, NEW b \in Batch, NEW people \in SUBSET Person, Update(b, people)
  PROVE  IInv'
<1>0. Ranges
  BY RangesOfInv
<1>1. TypeOK'
  BY DEF IInv, TypeOK, InFlight, Outcome, ItemStatus, PixStatus, BatchStatus, Update,
       companyVars, batchVars, senderVars, Items, People
<1>2. ItemsFitBatch'
  BY <1>0 DEF Ranges, IInv, ItemsFitBatch, Update, senderVars, Items, People,
       Completed, Payment
<1>3. ItemsAreTrue'
  BY <1>0 DEF Ranges, IInv, ItemsAreTrue, AnswersAreTrue, ChecksAreTrue, ItemsFitBatch,
       Update, batchVars, senderVars, Items, People, InFlight, Completed, Payment
<1>4. AnswersAreTrue'
  BY <1>0 DEF Ranges, IInv, AnswersAreTrue, ItemsAreTrue, OneSender, Targets, Target,
       ItemsFitBatch, ChecksAreTrue, Update, batchVars, senderVars, Items, People,
       InFlight, Completed, Payment
<1>5. Origins'
  BY <1>0 DEF Ranges, IInv, Origins, Update, senderVars, Items, People, Completed,
       Payment
<1>6. Lineage'
  <2>. SUFFICES ASSUME NEW x \in Batch, NEW y \in Batch,
                       x < y, origin'[x] = origin'[y],
                       batch'[x] \notin {"ABSENT", "CANCELED"},
                       batch'[y] \notin {"ABSENT", "CANCELED"}
                PROVE  /\ batch'[x] \in Completed
                       /\ \E d \in Batch :
                            /\ retryOf'[d] = x
                            /\ batch'[d] \notin {"ABSENT", "CANCELED"}
                            /\ d = y \/ batch'[d] \in Completed
                       /\ \A p \in Person : item'[<<y, p>>] # "ABSENT" => item'[<<x, p>>] = "FAILED"
    BY DEF Lineage, Standing
  <2>1. batch[b] = "DRAFT" /\ batch[b] \notin Completed /\ UNCHANGED <<batch, retryOf>>
    BY DEF Update, Completed
  <2>2. \A z \in Batch : z # b => origin'[z] = origin[z] /\ \A p \in Person : item'[<<z, p>>] = item[<<z, p>>]
    BY <1>0 DEF Ranges, Update, Items, Payment
  <2>3. CASE origin'[b] = origin[b] /\ people \subseteq People(b, {"PENDING"})
    <3>1. origin[x] = origin[y] /\ Standing(x) /\ Standing(y)
      BY <2>1, <2>2, <2>3 DEF Standing
    <3>2. x # b
      BY <2>1, <3>1 DEF IInv, Lineage
    <3>3. \A p \in Person : item'[<<y, p>>] # "ABSENT" => item[<<y, p>>] # "ABSENT"
      BY <1>0, <2>2, <2>3 DEF Ranges, Update, Items, People, Payment
    <3>. QED  BY <2>1, <2>2, <3>1, <3>2, <3>3 DEF IInv, Lineage, Standing
  <2>4. CASE origin'[b] = b
    <3>1. \A z \in Batch : z # b => origin[z] # b
      BY <2>1 DEF IInv, Origins
    <3>2. x # b /\ y # b
      BY <2>2, <2>4, <3>1, MaxBatchesAssumption DEF Batch
    <3>. QED  BY <2>1, <2>2, <3>2 DEF IInv, Lineage, Standing
  <2>5. origin'[b] = b \/ (origin'[b] = origin[b] /\ people \subseteq People(b, {"PENDING"}))
    BY <1>0 DEF Ranges, Update
  <2>. QED  BY <2>3, <2>4, <2>5
<1>7. Targets' /\ ChecksAreTrue' /\ OneSender'
  BY DEF IInv, Targets, ChecksAreTrue, OneSender, Target, Update, senderVars
<1>8. QED  BY <1>1, <1>2, <1>3, <1>4, <1>5, <1>6, <1>7 DEF IInv

(* RetryFailed preserves the inductive invariant.                         *)
LEMMA RetryFailedKeeps ==
  ASSUME IInv, NEW b \in Batch, NEW new \in Batch, NEW people \in SUBSET Person, RetryFailed(b, new, people)
  PROVE  IInv'
<1>0. Ranges
  BY RangesOfInv
<1>1. TypeOK'
  BY DEF IInv, TypeOK, InFlight, Outcome, ItemStatus, PixStatus, BatchStatus,
       RetryFailed, companyVars, batchVars, senderVars, Items, NextBatch, People
<1>2. Targets'
  BY <1>0 DEF Ranges, IInv, Targets, RetryFailed, senderVars, Items, NextBatch, People,
       Completed, Payment
<1>3. ItemsFitBatch'
  BY <1>0 DEF Ranges, IInv, ItemsFitBatch, RetryFailed, senderVars, Items, NextBatch,
       People, Completed, Payment
<1>4. ItemsAreTrue'
  BY <1>0 DEF Ranges, IInv, ItemsAreTrue, AnswersAreTrue, ChecksAreTrue, ItemsFitBatch,
       RetryFailed, batchVars, senderVars, Items, NextBatch, People, InFlight,
       Completed, Payment
<1>5. AnswersAreTrue'
  BY <1>0 DEF Ranges, IInv, AnswersAreTrue, ItemsAreTrue, OneSender, Targets, Target,
       ItemsFitBatch, ChecksAreTrue, RetryFailed, batchVars, senderVars, Items,
       NextBatch, People, InFlight, Completed, Payment
<1>6. Origins'
  BY <1>0 DEF Ranges, IInv, Origins, RetryFailed, senderVars, Items, NextBatch, People,
       Completed, Payment
<1>7. Lineage'
  <2>. SUFFICES ASSUME NEW x \in Batch, NEW y \in Batch,
                       x < y, origin'[x] = origin'[y],
                       batch'[x] \notin {"ABSENT", "CANCELED"},
                       batch'[y] \notin {"ABSENT", "CANCELED"}
                PROVE  /\ batch'[x] \in Completed
                       /\ \E d \in Batch :
                            /\ retryOf'[d] = x
                            /\ batch'[d] \notin {"ABSENT", "CANCELED"}
                            /\ d = y \/ batch'[d] \in Completed
                       /\ \A p \in Person : item'[<<y, p>>] # "ABSENT" => item'[<<x, p>>] = "FAILED"
    BY DEF Lineage, Standing
  <2>1. /\ batch[new] = "ABSENT" /\ batch[b] \in Completed /\ Standing(b) /\ new # b
        /\ \A z \in Batch : retryOf[z] = b => ~Standing(z)
        /\ \A z \in Batch : z # new => batch'[z] = batch[z] /\ retryOf'[z] = retryOf[z] /\ origin'[z] = origin[z]
        /\ batch'[new] = "DRAFT" /\ retryOf'[new] = b /\ origin'[new] = origin[b]
    BY <1>0 DEF Ranges, RetryFailed, NextBatch, Standing, Completed
  <2>2. /\ \A z \in Batch, p \in Person : z # new => item'[<<z, p>>] = item[<<z, p>>]
        /\ \A p \in Person : item'[<<new, p>>] # "ABSENT" => item[<<b, p>>] = "FAILED"
    BY <1>0 DEF Ranges, RetryFailed, Items, People, Payment
  <2>3. \A z \in Batch : new < z => batch[z] = "ABSENT"
    BY <2>1 DEF IInv, Origins
  <2>4. b < new
    BY <2>1, <2>3, MaxBatchesAssumption DEF Batch, Standing
  <2>5. \A z \in Batch : b < z /\ Standing(z) => origin[z] # origin[b]
    BY <2>1 DEF IInv, Lineage
  <2>6. CASE x = new
    BY <2>1, <2>3, <2>6, MaxBatchesAssumption DEF Batch
  <2>7. CASE x = b /\ y = new
    BY <2>1, <2>2, <2>7
  <2>8. CASE x # b /\ x # new /\ y = new
    <3>1. Standing(x) /\ origin[x] = origin[b]
      BY <2>1, <2>8 DEF Standing
    <3>2. x < b
      BY <2>5, <2>8, <3>1, MaxBatchesAssumption DEF Batch
    <3>3. PICK d \in Batch : retryOf[d] = x /\ Standing(d) /\ (d = b \/ batch[d] \in Completed)
      BY <2>1, <3>1, <3>2 DEF IInv, Lineage
    <3>4. d # new /\ batch[d] \in Completed
      BY <2>1, <3>3 DEF Standing
    <3>5. batch[x] \in Completed /\ \A p \in Person : item[<<b, p>>] # "ABSENT" => item[<<x, p>>] = "FAILED"
      BY <2>1, <3>1, <3>2 DEF IInv, Lineage
    <3>6. retryOf'[d] = x /\ batch'[d] \in Completed /\ batch'[d] \notin {"ABSENT", "CANCELED"}
      BY <2>1, <3>3, <3>4 DEF Completed
    <3>7. \A p \in Person : item'[<<y, p>>] # "ABSENT" => item'[<<x, p>>] = "FAILED"
      BY <2>2, <2>8, <3>5
    <3>8. batch'[x] \in Completed
      BY <2>1, <2>8, <3>5
    <3>. QED  BY <3>6, <3>7, <3>8
  <2>9. CASE x # new /\ y # new
    <3>1. Standing(x) /\ Standing(y) /\ origin[x] = origin[y]
      BY <2>1, <2>9 DEF Standing
    <3>2. PICK d \in Batch : retryOf[d] = x /\ Standing(d) /\ (d = y \/ batch[d] \in Completed)
      BY <3>1 DEF IInv, Lineage
    <3>3. d # new
      BY <2>1, <3>2 DEF Standing
    <3>4. batch[x] \in Completed /\ \A p \in Person : item[<<y, p>>] # "ABSENT" => item[<<x, p>>] = "FAILED"
      BY <3>1 DEF IInv, Lineage
    <3>. QED  BY <2>1, <2>2, <2>9, <3>2, <3>3, <3>4 DEF Standing
  <2>. QED  BY <2>6, <2>7, <2>8, <2>9
<1>8. ChecksAreTrue' /\ OneSender'
  BY DEF IInv, ChecksAreTrue, OneSender, Target, RetryFailed, senderVars
<1>9. QED  BY <1>1, <1>2, <1>3, <1>4, <1>5, <1>6, <1>7, <1>8 DEF IInv

(* Request preserves the inductive invariant.                             *)
LEMMA RequestKeeps ==
  ASSUME IInv, NEW b \in Batch, Request(b)
  PROVE  IInv'
<1>0. Ranges
  BY RangesOfInv
<1>1. TypeOK'
  BY DEF IInv, TypeOK, InFlight, Outcome, ItemStatus, PixStatus, BatchStatus, Request,
       companyVars, batchVars, senderVars
<1>2. Targets'
  BY <1>0 DEF Ranges, IInv, Targets, Request, senderVars, Completed
<1>3. ItemsFitBatch'
  BY <1>0 DEF Ranges, IInv, ItemsFitBatch, Request, senderVars, Completed, Payment
<1>4. Origins'
  BY <1>0 DEF Ranges, IInv, Origins, Request, senderVars, Completed
<1>5. Lineage'
  BY <1>0 DEF Ranges, IInv, Lineage, Standing, Request, senderVars, Completed, Payment
<1>6. ItemsAreTrue' /\ AnswersAreTrue' /\ ChecksAreTrue' /\ OneSender'
  BY DEF IInv, ItemsAreTrue, AnswersAreTrue, ChecksAreTrue, OneSender, Target, Request,
       senderVars
<1>7. QED  BY <1>1, <1>2, <1>3, <1>4, <1>5, <1>6 DEF IInv

(* Approve preserves the inductive invariant.                             *)
LEMMA ApproveKeeps ==
  ASSUME IInv, NEW b \in Batch, Approve(b)
  PROVE  IInv'
<1>0. Ranges
  BY RangesOfInv
<1>1. TypeOK'
  BY DEF IInv, TypeOK, InFlight, Outcome, ItemStatus, PixStatus, BatchStatus, Approve,
       companyVars, batchVars, senderVars
<1>2. Targets'
  BY <1>0 DEF Ranges, IInv, Targets, Approve, senderVars, Completed
<1>3. ItemsFitBatch'
  BY <1>0 DEF Ranges, IInv, ItemsFitBatch, Approve, senderVars, Completed, Payment
<1>4. Origins'
  BY <1>0 DEF Ranges, IInv, Origins, Approve, senderVars, Completed
<1>5. Lineage'
  BY <1>0 DEF Ranges, IInv, Lineage, Standing, Approve, senderVars, Completed, Payment
<1>6. ItemsAreTrue' /\ AnswersAreTrue' /\ ChecksAreTrue' /\ OneSender'
  BY DEF IInv, ItemsAreTrue, AnswersAreTrue, ChecksAreTrue, OneSender, Target, Approve,
       senderVars
<1>7. QED  BY <1>1, <1>2, <1>3, <1>4, <1>5, <1>6 DEF IInv

(* Refuse preserves the inductive invariant.                              *)
LEMMA RefuseKeeps ==
  ASSUME IInv, NEW b \in Batch, Refuse(b)
  PROVE  IInv'
<1>0. Ranges
  BY RangesOfInv
<1>1. TypeOK'
  BY DEF IInv, TypeOK, InFlight, Outcome, ItemStatus, PixStatus, BatchStatus, Refuse,
       companyVars, batchVars, senderVars, Become
<1>2. Targets'
  BY <1>0 DEF Ranges, IInv, Targets, Refuse, senderVars, Become, Completed, Payment
<1>3. ItemsFitBatch'
  BY <1>0 DEF Ranges, IInv, ItemsFitBatch, Refuse, senderVars, Become, Completed,
       Payment
<1>4. ItemsAreTrue'
  BY <1>0 DEF Ranges, IInv, ItemsAreTrue, Refuse, senderVars, Become, Payment
<1>5. AnswersAreTrue'
  BY <1>0 DEF Ranges, IInv, AnswersAreTrue, ItemsAreTrue, OneSender, Targets, Target,
       ItemsFitBatch, ChecksAreTrue, Refuse, batchVars, senderVars, Become, InFlight,
       Completed, Payment
<1>6. Origins'
  BY <1>0 DEF Ranges, IInv, Origins, Refuse, senderVars, Become, Completed, Payment
<1>7. Lineage'
  <2>1. \A j \in Payment : (item[j] = "ABSENT" => item'[j] = "ABSENT") /\ (item[j] = "FAILED" => item'[j] = "FAILED")
    BY <1>0 DEF Ranges, Refuse, Become
  <2>2. \A x \in Batch, p \in Person : <<x, p>> \in Payment
    BY DEF Payment
  <2>. QED  BY <1>0, <2>1, <2>2, LineageKept DEF Ranges, IInv, Refuse, Standing,
       Completed
<1>8. ChecksAreTrue' /\ OneSender'
  BY DEF IInv, ChecksAreTrue, OneSender, Target, Refuse, senderVars
<1>9. QED  BY <1>1, <1>2, <1>3, <1>4, <1>5, <1>6, <1>7, <1>8 DEF IInv

(* ReturnToDraft preserves the inductive invariant.                       *)
LEMMA ReturnToDraftKeeps ==
  ASSUME IInv, NEW b \in Batch, ReturnToDraft(b)
  PROVE  IInv'
<1>0. Ranges
  BY RangesOfInv
<1>1. TypeOK'
  BY DEF IInv, TypeOK, InFlight, Outcome, ItemStatus, PixStatus, BatchStatus,
       ReturnToDraft, companyVars, batchVars, senderVars
<1>2. Targets'
  BY <1>0 DEF Ranges, IInv, Targets, ReturnToDraft, senderVars, Completed
<1>3. ItemsFitBatch'
  BY <1>0 DEF Ranges, IInv, ItemsFitBatch, ReturnToDraft, senderVars, Completed, Payment
<1>4. Origins'
  BY <1>0 DEF Ranges, IInv, Origins, ReturnToDraft, senderVars, Completed
<1>5. Lineage'
  BY <1>0 DEF Ranges, IInv, Lineage, Standing, ReturnToDraft, senderVars, Completed,
       Payment
<1>6. ItemsAreTrue' /\ AnswersAreTrue' /\ ChecksAreTrue' /\ OneSender'
  BY DEF IInv, ItemsAreTrue, AnswersAreTrue, ChecksAreTrue, OneSender, Target,
       ReturnToDraft, senderVars
<1>7. QED  BY <1>1, <1>2, <1>3, <1>4, <1>5, <1>6 DEF IInv

(* Cancel preserves the inductive invariant.                              *)
LEMMA CancelKeeps ==
  ASSUME IInv, NEW b \in Batch, Cancel(b)
  PROVE  IInv'
<1>0. Ranges
  BY RangesOfInv
<1>1. TypeOK'
  BY DEF IInv, TypeOK, InFlight, Outcome, ItemStatus, PixStatus, BatchStatus, Cancel,
       companyVars, batchVars, senderVars, Become
<1>2. Targets'
  BY <1>0 DEF Ranges, IInv, Targets, Cancel, senderVars, Become, Completed, Payment
<1>3. ItemsFitBatch'
  BY <1>0 DEF Ranges, IInv, ItemsFitBatch, Cancel, senderVars, Become, Completed,
       Payment
<1>4. ItemsAreTrue'
  BY <1>0 DEF Ranges, IInv, ItemsAreTrue, Cancel, senderVars, Become, Payment
<1>5. AnswersAreTrue'
  BY <1>0 DEF Ranges, IInv, AnswersAreTrue, ItemsAreTrue, OneSender, Targets, Target,
       ItemsFitBatch, ChecksAreTrue, Cancel, batchVars, senderVars, Become, InFlight,
       Completed, Payment
<1>6. Origins'
  BY <1>0 DEF Ranges, IInv, Origins, Cancel, senderVars, Become, Completed, Payment
<1>7. Lineage'
  <2>1. \A j \in Payment : (item[j] = "ABSENT" => item'[j] = "ABSENT") /\ (item[j] = "FAILED" => item'[j] = "FAILED")
    BY <1>0 DEF Ranges, Cancel, Become
  <2>2. \A x \in Batch, p \in Person : <<x, p>> \in Payment
    BY DEF Payment
  <2>. QED  BY <1>0, <2>1, <2>2, LineageKept DEF Ranges, IInv, Cancel, Standing,
       Completed
<1>8. ChecksAreTrue' /\ OneSender'
  BY DEF IInv, ChecksAreTrue, OneSender, Target, Cancel, senderVars
<1>9. QED  BY <1>1, <1>2, <1>3, <1>4, <1>5, <1>6, <1>7, <1>8 DEF IInv

(* TurnOff preserves the inductive invariant.                             *)
LEMMA TurnOffKeeps ==
  ASSUME IInv, TurnOff
  PROVE  IInv'
<1>0. Ranges
  BY RangesOfInv
<1>1. TypeOK'
  <2>1. batch' \in [Batch -> BatchStatus] /\ item' \in [Payment -> ItemStatus]
    BY <1>0 DEF Ranges, TurnOff, BatchStatus, ItemStatus
  <2>2. toggles' \in 0 .. MaxToggles /\ enabled' \in BOOLEAN
    <3>1. toggles < MaxToggles /\ toggles' = toggles + 1 /\ enabled' = FALSE
      BY DEF TurnOff
    <3>2. toggles \in 0 .. MaxToggles
      BY DEF IInv, TypeOK
    <3>3. toggles' \in 0 .. MaxToggles
      BY <3>1, <3>2, MaxTogglesAssumption
    <3>4. enabled' \in BOOLEAN
      BY <3>1
    <3>. QED  BY <3>3, <3>4
  <2>. QED  BY <2>1, <2>2 DEF IInv, TypeOK, TurnOff, senderVars
<1>2. Targets'
  BY <1>0 DEF Ranges, IInv, Targets, TurnOff, senderVars, Completed
<1>3. ItemsFitBatch'
  BY <1>0 DEF Ranges, IInv, ItemsFitBatch, TurnOff, senderVars, Completed, Payment
<1>4. ItemsAreTrue'
  BY <1>0 DEF Ranges, IInv, ItemsAreTrue, TurnOff, senderVars
<1>5. AnswersAreTrue'
  BY <1>0 DEF Ranges, IInv, AnswersAreTrue, ItemsAreTrue, OneSender, Targets, Target,
       ItemsFitBatch, ChecksAreTrue, TurnOff, batchVars, senderVars, InFlight,
       Completed, Payment
<1>6. Origins'
  BY <1>0 DEF Ranges, IInv, Origins, TurnOff, senderVars, Completed
<1>7. Lineage'
  <2>1. \A j \in Payment : (item[j] = "ABSENT" => item'[j] = "ABSENT") /\ (item[j] = "FAILED" => item'[j] = "FAILED")
    BY <1>0 DEF Ranges, TurnOff
  <2>2. \A x \in Batch, p \in Person : <<x, p>> \in Payment
    BY DEF Payment
  <2>. QED  BY <1>0, <2>1, <2>2, LineageKept DEF Ranges, IInv, TurnOff, Standing,
       Completed
<1>8. ChecksAreTrue' /\ OneSender'
  BY DEF IInv, ChecksAreTrue, OneSender, Target, TurnOff, senderVars
<1>9. QED  BY <1>1, <1>2, <1>3, <1>4, <1>5, <1>6, <1>7, <1>8 DEF IInv

(* TurnOn preserves the inductive invariant.                              *)
LEMMA TurnOnKeeps ==
  ASSUME IInv, TurnOn
  PROVE  IInv'
<1>0. Ranges
  BY RangesOfInv
<1>1. TypeOK'
  BY MaxTogglesAssumption DEF IInv, TypeOK, TurnOn, companyVars, batchVars, senderVars
<1>2. Targets' /\ ItemsFitBatch' /\ ItemsAreTrue' /\ AnswersAreTrue' /\ ChecksAreTrue' /\ OneSender' /\ Origins' /\ Lineage'
  BY DEF IInv, Targets, ItemsFitBatch, ItemsAreTrue, AnswersAreTrue, ChecksAreTrue,
       OneSender, Origins, Lineage, Target, Standing, TurnOn, batchVars, senderVars
<1>3. QED  BY <1>1, <1>2 DEF IInv

(* Begin preserves the inductive invariant.                               *)
LEMMA BeginKeeps ==
  ASSUME IInv, NEW s \in Sender, NEW b \in Batch, Begin(s, b)
  PROVE  IInv'
<1>0. Ranges
  BY RangesOfInv
<1>1. TypeOK'
  BY DEF IInv, TypeOK, InFlight, Outcome, ItemStatus, PixStatus, BatchStatus, Begin,
       companyVars, batchVars, senderVars, Goto
<1>2. Targets'
  BY <1>0 DEF Ranges, IInv, Targets, Begin, batchVars, Goto, Completed
<1>3. AnswersAreTrue'
  BY <1>0 DEF Ranges, IInv, AnswersAreTrue, Target, Begin, batchVars, Goto
<1>4. OneSender'
  BY <1>0 DEF Ranges, IInv, OneSender, Target, Begin, batchVars, Goto
<1>5. ItemsFitBatch' /\ ItemsAreTrue' /\ ChecksAreTrue' /\ Origins' /\ Lineage'
  BY DEF IInv, ItemsFitBatch, ItemsAreTrue, ChecksAreTrue, Origins, Lineage, Standing,
       Begin, batchVars
<1>6. QED  BY <1>1, <1>2, <1>3, <1>4, <1>5 DEF IInv

(* FailPending preserves the inductive invariant.                         *)
LEMMA FailPendingKeeps ==
  ASSUME IInv, NEW s \in Sender, FailPending(s)
  PROVE  IInv'
<1>0. Ranges
  BY RangesOfInv
<1>1. TypeOK'
  BY DEF IInv, TypeOK, InFlight, Outcome, ItemStatus, PixStatus, BatchStatus,
       FailPending, companyVars, batchVars, senderVars, Become, Stop
<1>2. Targets'
  BY <1>0 DEF Ranges, IInv, Targets, FailPending, batchVars, Become, Stop, Completed,
       Payment
<1>3. ItemsFitBatch'
  BY <1>0 DEF Ranges, IInv, ItemsFitBatch, Targets, FailPending, batchVars, senderVars,
       Become, Stop, InFlight, Completed, Payment
<1>4. ItemsAreTrue'
  BY <1>0 DEF Ranges, IInv, ItemsAreTrue, FailPending, batchVars, Become, Stop, Payment
<1>5. AnswersAreTrue'
  BY <1>0 DEF Ranges, IInv, AnswersAreTrue, ItemsAreTrue, OneSender, Targets, Target,
       ItemsFitBatch, ChecksAreTrue, FailPending, batchVars, senderVars, Become, Stop,
       InFlight, Completed, Payment
<1>6. OneSender'
  BY <1>0 DEF Ranges, IInv, OneSender, Target, FailPending, batchVars, Become, Stop,
       Payment
<1>7. Lineage'
  BY <1>0 DEF Ranges, IInv, Lineage, Standing, FailPending, batchVars, Become, Stop,
       Completed, Payment
<1>8. ChecksAreTrue' /\ Origins'
  BY DEF IInv, ChecksAreTrue, Origins, FailPending, batchVars
<1>9. QED  BY <1>1, <1>2, <1>3, <1>4, <1>5, <1>6, <1>7, <1>8 DEF IInv

(* AccountReady preserves the inductive invariant.                        *)
LEMMA AccountReadyKeeps ==
  ASSUME IInv, NEW s \in Sender, AccountReady(s)
  PROVE  IInv'
<1>0. Ranges
  BY RangesOfInv
<1>1. TypeOK'
  BY DEF IInv, TypeOK, InFlight, Outcome, ItemStatus, PixStatus, BatchStatus,
       AccountReady, companyVars, batchVars, senderVars, Goto
<1>2. Targets'
  BY <1>0 DEF Ranges, IInv, Targets, AccountReady, batchVars, Goto, Completed
<1>3. AnswersAreTrue'
  BY <1>0 DEF Ranges, IInv, AnswersAreTrue, Target, AccountReady, batchVars, Goto
<1>4. OneSender'
  BY <1>0 DEF Ranges, IInv, OneSender, Target, AccountReady, batchVars, Goto
<1>5. ItemsFitBatch' /\ ItemsAreTrue' /\ ChecksAreTrue' /\ Origins' /\ Lineage'
  BY DEF IInv, ItemsFitBatch, ItemsAreTrue, ChecksAreTrue, Origins, Lineage, Standing,
       AccountReady, batchVars
<1>6. QED  BY <1>1, <1>2, <1>3, <1>4, <1>5 DEF IInv

(* NextItem preserves the inductive invariant.                            *)
LEMMA NextItemKeeps ==
  ASSUME IInv, NEW s \in Sender, NextItem(s)
  PROVE  IInv'
<1>0. Ranges
  BY RangesOfInv
<1>a. \/ /\ stage' = [stage EXCEPT ![s] = "claim"]
         /\ \E p \in Person : payee' = [payee EXCEPT ![s] = p]
         /\ UNCHANGED <<job, answer>>
      \/ Stop(s)
  BY DEF NextItem, Goto, People
<1>b. stage[s] = "next" /\ UNCHANGED <<batch, item, pix>>
  BY DEF NextItem, batchVars
<1>1. TypeOK'
  <2>1. /\ stage' \in [Sender -> {"idle", "account", "next", "claim", "send", "wait"}]
        /\ job' \in [Sender -> Batch \cup {None}]
        /\ payee' \in [Sender -> Person \cup {None}]
        /\ answer' \in [Sender -> Outcome \cup {None}]
    <3>1. CASE Stop(s)
      BY <1>0, <3>1 DEF Ranges, Stop
    <3>2. CASE \E p \in Person : stage' = [stage EXCEPT ![s] = "claim"]
                 /\ payee' = [payee EXCEPT ![s] = p] /\ UNCHANGED <<job, answer>>
      BY <1>0, <3>2 DEF Ranges
    <3>. QED  BY <1>a, <3>1, <3>2
  <2>. QED  BY <2>1 DEF IInv, TypeOK, NextItem, companyVars, batchVars
<1>2. Targets'
  <2>1. CASE Stop(s)
    BY <1>0, <1>b, <2>1 DEF Ranges, IInv, Targets, Stop
  <2>2. CASE \E p \in Person : stage' = [stage EXCEPT ![s] = "claim"]
               /\ payee' = [payee EXCEPT ![s] = p] /\ UNCHANGED <<job, answer>>
    <3>1. PICK p \in Person : stage' = [stage EXCEPT ![s] = "claim"]
            /\ payee' = [payee EXCEPT ![s] = p] /\ UNCHANGED <<job, answer>>
      BY <2>2
    <3>. QED  BY <1>0, <1>b, <3>1 DEF Ranges, IInv, Targets, Stop
  <2>. QED  BY <1>a, <2>1, <2>2
<1>3. AnswersAreTrue'
  <2>1. CASE Stop(s)
    BY <1>0, <1>b, <2>1 DEF Ranges, IInv, AnswersAreTrue, Targets, Target, Stop
  <2>2. CASE \E p \in Person : stage' = [stage EXCEPT ![s] = "claim"]
               /\ payee' = [payee EXCEPT ![s] = p] /\ UNCHANGED <<job, answer>>
    <3>1. PICK p \in Person : stage' = [stage EXCEPT ![s] = "claim"]
            /\ payee' = [payee EXCEPT ![s] = p] /\ UNCHANGED <<job, answer>>
      BY <2>2
    <3>. QED  BY <1>0, <1>b, <3>1 DEF Ranges, IInv, AnswersAreTrue, Targets, Target,
         Stop
  <2>. QED  BY <1>a, <2>1, <2>2
<1>4. OneSender'
  <2>1. CASE Stop(s)
    BY <1>0, <1>b, <2>1 DEF Ranges, IInv, OneSender, Target, Stop
  <2>2. CASE \E p \in Person : stage' = [stage EXCEPT ![s] = "claim"]
               /\ payee' = [payee EXCEPT ![s] = p] /\ UNCHANGED <<job, answer>>
    <3>1. PICK p \in Person : stage' = [stage EXCEPT ![s] = "claim"]
            /\ payee' = [payee EXCEPT ![s] = p] /\ UNCHANGED <<job, answer>>
      BY <2>2
    <3>. QED  BY <1>0, <1>b, <3>1 DEF Ranges, IInv, OneSender, Target, Stop
  <2>. QED  BY <1>a, <2>1, <2>2
<1>5. ItemsFitBatch' /\ ItemsAreTrue' /\ ChecksAreTrue' /\ Origins' /\ Lineage'
  BY DEF IInv, ItemsFitBatch, ItemsAreTrue, ChecksAreTrue, Origins, Lineage, Standing,
       NextItem, batchVars
<1>6. QED  BY <1>1, <1>2, <1>3, <1>4, <1>5 DEF IInv

(* Claim preserves the inductive invariant.                               *)
LEMMA ClaimKeeps ==
  ASSUME IInv, NEW s \in Sender, Claim(s)
  PROVE  IInv'
<1>0. Ranges
  BY RangesOfInv
<1>a. stage[s] = "claim" /\ Target(s) \in Payment /\ UNCHANGED <<pix, job, answer>>
  BY DEF Claim, IInv, Targets, Target, Payment
<1>b. \/ /\ item[Target(s)] = "PENDING"
         /\ \A i \in Payment : item'[i] = IF i = Target(s) THEN "SENDING" ELSE item[i]
         /\ stage' = [stage EXCEPT ![s] = "send"] /\ payee' = payee
      \/ /\ item' = item
         /\ stage' = [stage EXCEPT ![s] = "next"] /\ payee' = [payee EXCEPT ![s] = None]
  BY <1>0, <1>a DEF Ranges, Claim, Goto
<1>1. TypeOK'
  BY DEF IInv, TypeOK, InFlight, Outcome, ItemStatus, PixStatus, BatchStatus, Claim,
       companyVars, batchVars, senderVars, Goto, Target
<1>2. Targets'
  BY <1>0 DEF Ranges, IInv, Targets, Claim, batchVars, Goto, Target, Completed
<1>3. ItemsFitBatch'
  BY <1>0 DEF Ranges, IInv, ItemsFitBatch, Targets, Claim, batchVars, senderVars, Goto,
       Target, InFlight, Completed, Payment
<1>4. ItemsAreTrue'
  BY <1>a, <1>b DEF IInv, ItemsAreTrue
<1>5. AnswersAreTrue'
  <2>. SUFFICES ASSUME NEW t \in Sender PROVE
        /\ stage'[t] = "send" => item'[Target(t)'] \in {"SENDING", "UNCERTAIN"} /\ pix[Target(t)'] = "none"
        /\ stage'[t] = "wait" =>
             /\ item'[Target(t)'] \notin {"ABSENT", "PENDING", "CANCELED"}
             /\ answer[t] = "RATE_LIMITED" => pix[Target(t)'] = "none"
             /\ answer[t] = "REFUSED" => pix[Target(t)'] \in {"none", "refused"}
             /\ answer[t] = "PAID" => pix[Target(t)'] = "paid"
        /\ stage'[t] # "wait" => answer[t] = None
    BY <1>a DEF AnswersAreTrue
  <2>1. CASE t = s
    BY <1>0, <1>a, <1>b, <2>1 DEF Ranges, IInv, AnswersAreTrue, ItemsAreTrue, Target
  <2>2. CASE t # s
    <3>1. stage'[t] = stage[t] /\ payee'[t] = payee[t] /\ Target(t)' = Target(t)
      BY <1>0, <1>a, <1>b, <2>2 DEF Ranges, Target
    <3>2. stage[t] \in {"send", "wait"} => Target(t) \in Payment
      BY DEF IInv, Targets, Target, Payment
    <3>3. \A i \in Payment : item[i] # "PENDING" => item'[i] = item[i]
      BY <1>b
    <3>. QED  BY <3>1, <3>2, <3>3 DEF IInv, AnswersAreTrue
  <2>. QED  BY <2>1, <2>2
<1>6. OneSender'
  <2>1. \A t \in Sender \ {s} : stage'[t] = stage[t] /\ Target(t)' = Target(t)
    BY <1>0, <1>a, <1>b DEF Ranges, Target
  <2>2. stage'[s] \in {"send", "wait"} => item[Target(s)] = "PENDING" /\ Target(s)' = Target(s)
    BY <1>0, <1>a, <1>b DEF Ranges, Target
  <2>3. \A t \in Sender : stage[t] \in {"send", "wait"} => item[Target(t)] # "PENDING"
    BY DEF IInv, AnswersAreTrue
  <2>. QED  BY <2>1, <2>2, <2>3 DEF IInv, OneSender
<1>7. Lineage'
  BY <1>0 DEF Ranges, IInv, Lineage, Standing, Claim, batchVars, Goto, Target,
       Completed, Payment
<1>8. ChecksAreTrue' /\ Origins'
  BY DEF IInv, ChecksAreTrue, Origins, Claim, batchVars
<1>9. QED  BY <1>1, <1>2, <1>3, <1>4, <1>5, <1>6, <1>7, <1>8 DEF IInv

(* Send preserves the inductive invariant.                                *)
LEMMA SendKeeps ==
  ASSUME IInv, NEW s \in Sender, Send(s)
  PROVE  IInv'
<1>0. Ranges
  BY RangesOfInv
<1>a. stage[s] = "send" /\ Target(s) \in Payment /\ pix[Target(s)] = "none"
  BY DEF Send, IInv, Targets, AnswersAreTrue, Target, Payment
<1>b. /\ \A i \in Payment : pix'[i] = IF i = Target(s) THEN "sent" ELSE pix[i]
      /\ stage' = [stage EXCEPT ![s] = "wait"]
      /\ UNCHANGED <<item, job, payee, answer, check>>
  BY <1>0, <1>a DEF Ranges, Send, Goto
<1>1. TypeOK'
  BY DEF IInv, TypeOK, InFlight, Outcome, ItemStatus, PixStatus, BatchStatus, Send,
       companyVars, batchVars, senderVars, Goto, Target
<1>2. Targets'
  BY <1>0 DEF Ranges, IInv, Targets, Send, batchVars, Goto, Target, Completed
<1>3. ItemsAreTrue'
  <2>1. item[Target(s)] \in {"SENDING", "UNCERTAIN"}
    BY <1>a DEF IInv, AnswersAreTrue
  <2>. QED  BY <1>b, <2>1 DEF IInv, ItemsAreTrue
<1>4. AnswersAreTrue'
  <2>. SUFFICES ASSUME NEW t \in Sender PROVE
        /\ stage'[t] = "send" => item[Target(t)] \in {"SENDING", "UNCERTAIN"} /\ pix'[Target(t)] = "none"
        /\ stage'[t] = "wait" =>
             /\ item[Target(t)] \notin {"ABSENT", "PENDING", "CANCELED"}
             /\ answer[t] = "RATE_LIMITED" => pix'[Target(t)] = "none"
             /\ answer[t] = "REFUSED" => pix'[Target(t)] \in {"none", "refused"}
             /\ answer[t] = "PAID" => pix'[Target(t)] = "paid"
        /\ stage'[t] # "wait" => answer[t] = None
    BY <1>b DEF AnswersAreTrue, Target
  <2>1. CASE t = s
    <3>1. answer[t] = None /\ None \notin {"RATE_LIMITED", "REFUSED", "PAID"}
      BY <1>a, <2>1, NoneAssumption DEF IInv, AnswersAreTrue, Outcome
    <3>. QED  BY <1>0, <1>a, <1>b, <2>1, <3>1 DEF Ranges, IInv, AnswersAreTrue
  <2>2. CASE t # s
    <3>1. stage'[t] = stage[t]
      BY <1>0, <1>b, <2>2 DEF Ranges
    <3>2. stage[t] \in {"send", "wait"} => Target(t) \in Payment /\ Target(t) # Target(s)
      BY <1>a, <2>2 DEF IInv, Targets, Target, Payment, OneSender
    <3>3. stage[t] \in {"send", "wait"} => pix'[Target(t)] = pix[Target(t)]
      BY <1>b, <3>2
    <3>. QED  BY <3>1, <3>3 DEF IInv, AnswersAreTrue
  <2>. QED  BY <2>1, <2>2
<1>5. ChecksAreTrue'
  <2>. SUFFICES ASSUME NEW c \in Checker, check[c].at = "write"
                PROVE  /\ pix'[check[c].of] \notin {"none", "sent"}
                       /\ check[c].found \in {"paid", "refused"} => pix'[check[c].of] = check[c].found
    BY <1>b DEF ChecksAreTrue
  <2>1. check[c].of \in Payment
    BY DEF IInv, TypeOK, NoCheck
  <2>2. /\ pix[check[c].of] \notin {"none", "sent"}
        /\ check[c].found \in {"paid", "refused"} => pix[check[c].of] = check[c].found
    BY DEF IInv, ChecksAreTrue
  <2>. QED  BY <1>a, <1>b, <2>1, <2>2
<1>6. OneSender'
  BY <1>0 DEF Ranges, IInv, OneSender, Target, Send, batchVars, Goto
<1>7. ItemsFitBatch' /\ Origins' /\ Lineage'
  BY DEF IInv, ItemsFitBatch, Origins, Lineage, Standing, Send, batchVars
<1>8. QED  BY <1>1, <1>2, <1>3, <1>4, <1>5, <1>6, <1>7 DEF IInv

(* TimeOut preserves the inductive invariant.                             *)
LEMMA TimeOutKeeps ==
  ASSUME IInv, NEW s \in Sender, TimeOut(s)
  PROVE  IInv'
<1>0. Ranges
  BY RangesOfInv
<1>1. TypeOK'
  BY DEF IInv, TypeOK, InFlight, Outcome, ItemStatus, PixStatus, BatchStatus, TimeOut,
       companyVars, batchVars, senderVars
<1>2. AnswersAreTrue'
  BY <1>0 DEF Ranges, IInv, AnswersAreTrue, Target, TimeOut, batchVars
<1>3. Targets' /\ ItemsFitBatch' /\ ItemsAreTrue' /\ ChecksAreTrue' /\ OneSender' /\ Origins' /\ Lineage'
  BY DEF IInv, Targets, ItemsFitBatch, ItemsAreTrue, ChecksAreTrue, OneSender, Origins,
       Lineage, Target, Standing, TimeOut, batchVars
<1>4. QED  BY <1>1, <1>2, <1>3 DEF IInv

(* Record preserves the inductive invariant.                              *)
LEMMA RecordKeeps ==
  ASSUME IInv, NEW s \in Sender, Record(s)
  PROVE  IInv'
<1>0. Ranges
  BY RangesOfInv
<1>a. stage[s] = "wait" /\ Target(s) \in Payment /\ UNCHANGED pix
  BY DEF Record, IInv, Targets, Target, Payment
<1>b. \A i \in Payment : item'[i] = IF i = Target(s) /\ item[i] = "SENDING"
                                     THEN Recorded(answer[s]) ELSE item[i]
  BY <1>0, <1>a DEF Ranges, Record, Write
<1>1. TypeOK'
  <2>1. Recorded(answer[s]) \in ItemStatus
    BY <1>0 DEF Ranges, Record, Recorded, Outcome, ItemStatus
  <2>2. item' \in [Payment -> ItemStatus]
    BY <1>0, <2>1 DEF Ranges, Record, Write
  <2>3. /\ stage' \in [Sender -> {"idle", "account", "next", "claim", "send", "wait"}]
        /\ job' \in [Sender -> Batch \cup {None}]
        /\ payee' \in [Sender -> Person \cup {None}]
        /\ answer' \in [Sender -> Outcome \cup {None}]
    BY <1>0 DEF Ranges, Record, Stop, Goto
  <2>. QED  BY <2>2, <2>3 DEF IInv, TypeOK, Record, companyVars, batchVars
<1>2. Targets'
  BY <1>0 DEF Ranges, IInv, Targets, Record, batchVars, Write, Recorded, Goto, Stop,
       Target, Completed
<1>3. ItemsFitBatch'
  BY <1>0 DEF Ranges, IInv, ItemsFitBatch, Record, batchVars, Write, Recorded, Goto,
       Stop, Target, Completed, Payment
<1>4. ItemsAreTrue'
  <2>1. answer[s] \in Outcome
    BY <1>0 DEF Ranges, Record
  <2>2. /\ Recorded(answer[s]) \in {"PENDING", "IN_PROCESSING", "PAID", "FAILED", "UNCERTAIN"}
        /\ Recorded(answer[s]) = "PENDING" => answer[s] = "RATE_LIMITED"
        /\ Recorded(answer[s]) = "FAILED" => answer[s] = "REFUSED"
        /\ Recorded(answer[s]) = "PAID" => answer[s] = "PAID"
    BY <2>1 DEF Recorded, Outcome
  <2>. QED  BY <1>a, <1>b, <2>2 DEF IInv, ItemsAreTrue, AnswersAreTrue
<1>5. AnswersAreTrue'
  BY <1>0 DEF Ranges, IInv, AnswersAreTrue, ItemsAreTrue, OneSender, Targets, Target,
       ItemsFitBatch, ChecksAreTrue, Record, batchVars, senderVars, Write, Recorded,
       Goto, Stop, InFlight, Completed, Payment
<1>6. OneSender'
  BY <1>0 DEF Ranges, IInv, OneSender, Target, Record, batchVars, Write, Recorded,
       Goto, Stop
<1>7. Lineage'
  BY <1>0 DEF Ranges, IInv, Lineage, Standing, Record, batchVars, Write, Recorded,
       Goto, Stop, Target, Completed, Payment
<1>8. ChecksAreTrue' /\ Origins'
  BY DEF IInv, ChecksAreTrue, Origins, Record, batchVars
<1>9. QED  BY <1>1, <1>2, <1>3, <1>4, <1>5, <1>6, <1>7, <1>8 DEF IInv

(* Crash preserves the inductive invariant.                               *)
LEMMA CrashKeeps ==
  ASSUME IInv, NEW s \in Sender, Crash(s)
  PROVE  IInv'
<1>0. Ranges
  BY RangesOfInv
<1>1. TypeOK'
  BY DEF IInv, TypeOK, InFlight, Outcome, ItemStatus, PixStatus, BatchStatus, Crash,
       companyVars, batchVars, senderVars, Stop
<1>2. Targets'
  BY <1>0 DEF Ranges, IInv, Targets, Crash, batchVars, Stop, Completed
<1>3. AnswersAreTrue'
  BY <1>0 DEF Ranges, IInv, AnswersAreTrue, Target, Crash, batchVars, Stop
<1>4. OneSender'
  BY <1>0 DEF Ranges, IInv, OneSender, Target, Crash, batchVars, Stop
<1>5. ItemsFitBatch' /\ ItemsAreTrue' /\ ChecksAreTrue' /\ Origins' /\ Lineage'
  BY DEF IInv, ItemsFitBatch, ItemsAreTrue, ChecksAreTrue, Origins, Lineage, Standing,
       Crash, batchVars
<1>6. QED  BY <1>1, <1>2, <1>3, <1>4, <1>5 DEF IInv

(* MarkLost preserves the inductive invariant.                            *)
LEMMA MarkLostKeeps ==
  ASSUME IInv, NEW i \in Payment, MarkLost(i)
  PROVE  IInv'
<1>0. Ranges
  BY RangesOfInv
<1>1. TypeOK'
  BY DEF IInv, TypeOK, InFlight, Outcome, ItemStatus, PixStatus, BatchStatus, MarkLost,
       companyVars, batchVars, senderVars
<1>2. ItemsFitBatch'
  BY <1>0 DEF Ranges, IInv, ItemsFitBatch, MarkLost, batchVars, senderVars, Completed,
       Payment
<1>3. ItemsAreTrue'
  BY <1>0 DEF Ranges, IInv, ItemsAreTrue, MarkLost, batchVars, senderVars
<1>4. AnswersAreTrue'
  BY <1>0 DEF Ranges, IInv, AnswersAreTrue, Target, MarkLost, batchVars, senderVars
<1>5. Lineage'
  BY <1>0 DEF Ranges, IInv, Lineage, Standing, MarkLost, batchVars, senderVars,
       Completed, Payment
<1>6. Targets' /\ ChecksAreTrue' /\ OneSender' /\ Origins'
  BY DEF IInv, Targets, ChecksAreTrue, OneSender, Origins, Target, MarkLost, batchVars,
       senderVars
<1>7. QED  BY <1>1, <1>2, <1>3, <1>4, <1>5, <1>6 DEF IInv

(* StartCheck preserves the inductive invariant.                          *)
LEMMA StartCheckKeeps ==
  ASSUME IInv, NEW c \in Checker, NEW i \in Payment, StartCheck(c, i)
  PROVE  IInv'
<1>0. Ranges
  BY RangesOfInv
<1>1. TypeOK'
  BY DEF IInv, TypeOK, InFlight, Outcome, ItemStatus, PixStatus, BatchStatus,
       StartCheck, companyVars, batchVars, senderVars
<1>2. ChecksAreTrue'
  BY <1>0 DEF Ranges, IInv, ChecksAreTrue, StartCheck, batchVars, senderVars
<1>3. Targets' /\ ItemsFitBatch' /\ ItemsAreTrue' /\ AnswersAreTrue' /\ OneSender' /\ Origins' /\ Lineage'
  BY DEF IInv, Targets, ItemsFitBatch, ItemsAreTrue, AnswersAreTrue, OneSender,
       Origins, Lineage, Target, Standing, StartCheck, batchVars, senderVars
<1>4. QED  BY <1>1, <1>2, <1>3 DEF IInv

(* Ask preserves the inductive invariant.                                 *)
LEMMA AskKeeps ==
  ASSUME IInv, NEW c \in Checker, NEW i \in Payment, Ask(c, i)
  PROVE  IInv'
<1>0. Ranges
  BY RangesOfInv
<1>1. TypeOK'
  <2>1. check[c] \in [at : {"ask"}, of : Payment, was : {"UNCERTAIN", "IN_PROCESSING"}, found : {None}]
    BY DEF IInv, TypeOK, NoCheck, Ask
  <2>2. pix[i] \in PixStatus
    BY <1>0 DEF Ranges
  <2>3. check' = [check EXCEPT ![c] = IF pix[i] \in {"none", "sent"} THEN NoCheck
          ELSE [at |-> "write", of |-> i, was |-> check[c].was, found |-> pix[i]]]
    BY DEF Ask
  <2>. QED  BY <2>1, <2>2, <2>3 DEF IInv, TypeOK, Ask, PixStatus, companyVars,
       batchVars, senderVars
<1>2. ChecksAreTrue'
  BY <1>0 DEF Ranges, IInv, ChecksAreTrue, Ask, batchVars, senderVars, NoCheck
<1>3. Targets' /\ ItemsFitBatch' /\ ItemsAreTrue' /\ AnswersAreTrue' /\ OneSender' /\ Origins' /\ Lineage'
  BY DEF IInv, Targets, ItemsFitBatch, ItemsAreTrue, AnswersAreTrue, OneSender,
       Origins, Lineage, Target, Standing, Ask, batchVars, senderVars
<1>4. QED  BY <1>1, <1>2, <1>3 DEF IInv

(* WriteCheck preserves the inductive invariant.                          *)
LEMMA WriteCheckKeeps ==
  ASSUME IInv, NEW c \in Checker, NEW i \in Payment, WriteCheck(c, i)
  PROVE  IInv'
<1>0. Ranges
  BY RangesOfInv
<1>a. /\ check[c].at = "write" /\ check[c].of = i
      /\ check[c].was \in {"UNCERTAIN", "IN_PROCESSING"}
      /\ check[c].found \in {"processing", "paid", "refused"}
      /\ UNCHANGED <<batch, pix, stage, job, payee, answer, origin, retryOf>>
  BY DEF WriteCheck, IInv, TypeOK, NoCheck, batchVars, senderVars
<1>b. /\ Checked(check[c].found) \in {"IN_PROCESSING", "PAID", "FAILED"}
      /\ Checked(check[c].found) = "PAID" => pix[i] = "paid"
      /\ Checked(check[c].found) = "FAILED" => pix[i] = "refused"
      /\ pix[i] = "none" => Checked(check[c].found) = "IN_PROCESSING"
  BY <1>a DEF IInv, ChecksAreTrue, Checked
<1>c. \A j \in Payment : item'[j] = item[j] \/
        (j = i /\ item[j] \in {"UNCERTAIN", "IN_PROCESSING"} /\ item'[j] = Checked(check[c].found))
  BY <1>0, <1>a DEF Ranges, WriteCheck, Write
<1>1. TypeOK'
  BY DEF IInv, TypeOK, InFlight, Outcome, ItemStatus, PixStatus, BatchStatus,
       WriteCheck, companyVars, batchVars, senderVars, Write, Checked, NoCheck
<1>2. ItemsFitBatch'
  BY <1>a, <1>b, <1>c DEF IInv, ItemsFitBatch, Completed
<1>3. ItemsAreTrue'
  BY <1>a, <1>b, <1>c DEF IInv, ItemsAreTrue
<1>4. AnswersAreTrue'
  <2>. SUFFICES ASSUME NEW t \in Sender PROVE
        /\ stage[t] = "send" => item'[Target(t)] \in {"SENDING", "UNCERTAIN"} /\ pix[Target(t)] = "none"
        /\ stage[t] = "wait" =>
             /\ item'[Target(t)] \notin {"ABSENT", "PENDING", "CANCELED"}
             /\ answer[t] = "RATE_LIMITED" => pix[Target(t)] = "none"
             /\ answer[t] = "REFUSED" => pix[Target(t)] \in {"none", "refused"}
             /\ answer[t] = "PAID" => pix[Target(t)] = "paid"
        /\ stage[t] # "wait" => answer[t] = None
    BY <1>a DEF AnswersAreTrue, Target
  <2>1. stage[t] \in {"send", "wait"} => Target(t) \in Payment
    BY DEF IInv, Targets, Target, Payment
  <2>2. pix[i] # "none"
    BY <1>a DEF IInv, ChecksAreTrue
  <2>. QED  BY <1>a, <1>b, <1>c, <2>1, <2>2 DEF IInv, AnswersAreTrue
<1>5. ChecksAreTrue'
  BY <1>0 DEF Ranges, IInv, ChecksAreTrue, WriteCheck, batchVars, senderVars, Write,
       Checked, NoCheck
<1>6. Lineage'
  <2>1. \A j \in Payment : (item[j] = "ABSENT" => item'[j] = "ABSENT") /\ (item[j] = "FAILED" => item'[j] = "FAILED")
    BY <1>c
  <2>. QED  BY <1>a, <2>1, LineageKept DEF IInv, Payment, Standing
<1>7. Targets' /\ OneSender' /\ Origins'
  BY DEF IInv, Targets, OneSender, Origins, Target, WriteCheck, batchVars, senderVars
<1>8. QED  BY <1>1, <1>2, <1>3, <1>4, <1>5, <1>6, <1>7 DEF IInv

(* AbandonCheck preserves the inductive invariant.                        *)
LEMMA AbandonCheckKeeps ==
  ASSUME IInv, NEW c \in Checker, AbandonCheck(c)
  PROVE  IInv'
<1>0. Ranges
  BY RangesOfInv
<1>1. TypeOK'
  BY DEF IInv, TypeOK, InFlight, Outcome, ItemStatus, PixStatus, BatchStatus,
       AbandonCheck, companyVars, batchVars, senderVars, NoCheck
<1>2. ChecksAreTrue'
  BY <1>0 DEF Ranges, IInv, ChecksAreTrue, AbandonCheck, batchVars, senderVars, NoCheck
<1>3. Targets' /\ ItemsFitBatch' /\ ItemsAreTrue' /\ AnswersAreTrue' /\ OneSender' /\ Origins' /\ Lineage'
  BY DEF IInv, Targets, ItemsFitBatch, ItemsAreTrue, AnswersAreTrue, OneSender,
       Origins, Lineage, Target, Standing, AbandonCheck, batchVars, senderVars
<1>4. QED  BY <1>1, <1>2, <1>3 DEF IInv

(* NoticePaid preserves the inductive invariant.                          *)
LEMMA NoticePaidKeeps ==
  ASSUME IInv, NEW i \in Payment, NoticePaid(i)
  PROVE  IInv'
<1>0. Ranges
  BY RangesOfInv
<1>1. TypeOK'
  BY DEF IInv, TypeOK, InFlight, Outcome, ItemStatus, PixStatus, BatchStatus,
       NoticePaid, companyVars, batchVars, senderVars, Write
<1>2. ItemsFitBatch'
  BY <1>0 DEF Ranges, IInv, ItemsFitBatch, NoticePaid, batchVars, senderVars, Write,
       InFlight, Completed, Payment
<1>3. ItemsAreTrue'
  BY <1>0 DEF Ranges, IInv, ItemsAreTrue, NoticePaid, batchVars, senderVars, Write,
       InFlight
<1>4. AnswersAreTrue'
  BY <1>0 DEF Ranges, IInv, AnswersAreTrue, Target, NoticePaid, batchVars, senderVars,
       Write, InFlight
<1>5. Lineage'
  BY <1>0 DEF Ranges, IInv, Lineage, Standing, NoticePaid, batchVars, senderVars,
       Write, InFlight, Completed, Payment
<1>6. Targets' /\ ChecksAreTrue' /\ OneSender' /\ Origins'
  BY DEF IInv, Targets, ChecksAreTrue, OneSender, Origins, Target, NoticePaid,
       batchVars, senderVars
<1>7. QED  BY <1>1, <1>2, <1>3, <1>4, <1>5, <1>6 DEF IInv

(* NoticeFailed preserves the inductive invariant.                        *)
LEMMA NoticeFailedKeeps ==
  ASSUME IInv, NEW i \in Payment, NoticeFailed(i)
  PROVE  IInv'
<1>0. Ranges
  BY RangesOfInv
<1>1. TypeOK'
  BY DEF IInv, TypeOK, InFlight, Outcome, ItemStatus, PixStatus, BatchStatus,
       NoticeFailed, companyVars, batchVars, senderVars, Write
<1>2. ItemsFitBatch'
  BY <1>0 DEF Ranges, IInv, ItemsFitBatch, NoticeFailed, batchVars, senderVars, Write,
       InFlight, Completed, Payment
<1>3. ItemsAreTrue'
  BY <1>0 DEF Ranges, IInv, ItemsAreTrue, NoticeFailed, batchVars, senderVars, Write,
       InFlight
<1>4. AnswersAreTrue'
  BY <1>0 DEF Ranges, IInv, AnswersAreTrue, Target, NoticeFailed, batchVars,
       senderVars, Write, InFlight
<1>5. Lineage'
  BY <1>0 DEF Ranges, IInv, Lineage, Standing, NoticeFailed, batchVars, senderVars,
       Write, InFlight, Completed, Payment
<1>6. Targets' /\ ChecksAreTrue' /\ OneSender' /\ Origins'
  BY DEF IInv, Targets, ChecksAreTrue, OneSender, Origins, Target, NoticeFailed,
       batchVars, senderVars
<1>7. QED  BY <1>1, <1>2, <1>3, <1>4, <1>5, <1>6 DEF IInv

(* Complete preserves the inductive invariant.                            *)
LEMMA CompleteKeeps ==
  ASSUME IInv, NEW b \in Batch, Complete(b)
  PROVE  IInv'
<1>0. Ranges
  BY RangesOfInv
<1>1. TypeOK'
  BY DEF IInv, TypeOK, InFlight, Outcome, ItemStatus, PixStatus, BatchStatus, Complete,
       companyVars, batchVars, senderVars, People
<1>2. Targets'
  BY <1>0 DEF Ranges, IInv, Targets, Complete, senderVars, People, InFlight, Completed
<1>3. ItemsFitBatch'
  <2>1. \A j \in Payment : j[1] = b => item[j] \notin {"PENDING"} \cup InFlight
    <3>. SUFFICES ASSUME NEW j \in Payment, j[1] = b PROVE item[j] \notin {"PENDING"} \cup InFlight
      OBVIOUS
    <3>1. PICK p \in Person : j = <<b, p>>
      BY DEF Payment
    <3>. QED  BY <3>1 DEF Complete, People
  <2>2. \A j \in Payment : item[j] \in ItemStatus /\ j[1] \in Batch
    BY <1>0 DEF Ranges, Payment
  <2>. QED  BY <1>0, <2>1, <2>2 DEF Ranges, IInv, ItemsFitBatch, Complete, InFlight,
       Completed, ItemStatus
<1>4. Origins'
  BY <1>0 DEF Ranges, IInv, Origins, Complete, senderVars, People, InFlight, Completed
<1>5. Lineage'
  BY <1>0 DEF Ranges, IInv, Lineage, Standing, Complete, senderVars, People, InFlight,
       Completed, Payment
<1>6. ItemsAreTrue' /\ AnswersAreTrue' /\ ChecksAreTrue' /\ OneSender'
  BY DEF IInv, ItemsAreTrue, AnswersAreTrue, ChecksAreTrue, OneSender, Target,
       Complete, senderVars
<1>7. QED  BY <1>1, <1>2, <1>3, <1>4, <1>5, <1>6 DEF IInv

(* Receive preserves the inductive invariant.                             *)
LEMMA ReceiveKeeps ==
  ASSUME IInv, NEW i \in Payment, NEW becomes, NEW says, <<becomes, says>> \in {<<"processing", "IN_PROCESSING">>, <<"paid", "PAID">>, <<"refused", "REFUSED">>, <<"none", "REFUSED">>, <<"none", "UNCERTAIN">>, <<"none", "RATE_LIMITED">>}, Receive(i, becomes, says)
  PROVE  IInv'
<1>0. Ranges
  BY RangesOfInv
<1>1. TypeOK'
  BY DEF IInv, TypeOK, InFlight, Outcome, ItemStatus, PixStatus, BatchStatus, Receive,
       companyVars, batchVars, senderVars, Target
<1>2. ItemsAreTrue'
  BY <1>0 DEF Ranges, IInv, ItemsAreTrue, Receive, batchVars, Target
<1>3. AnswersAreTrue'
  BY <1>0 DEF Ranges, IInv, AnswersAreTrue, Target, Receive, batchVars
<1>4. ChecksAreTrue'
  BY <1>0 DEF Ranges, IInv, ChecksAreTrue, Receive, batchVars, Target
<1>5. Targets' /\ ItemsFitBatch' /\ OneSender' /\ Origins' /\ Lineage'
  BY DEF IInv, Targets, ItemsFitBatch, OneSender, Origins, Lineage, Target, Standing,
       Receive, batchVars
<1>6. QED  BY <1>1, <1>2, <1>3, <1>4, <1>5 DEF IInv

(* Settle preserves the inductive invariant.                              *)
LEMMA SettleKeeps ==
  ASSUME IInv, NEW i \in Payment, NEW result \in {"paid", "refused"}, Settle(i, result)
  PROVE  IInv'
<1>0. Ranges
  BY RangesOfInv
<1>1. TypeOK'
  BY DEF IInv, TypeOK, InFlight, Outcome, ItemStatus, PixStatus, BatchStatus, Settle,
       companyVars, batchVars, senderVars
<1>2. ItemsAreTrue'
  BY <1>0 DEF Ranges, IInv, ItemsAreTrue, Settle, batchVars, senderVars
<1>3. AnswersAreTrue'
  BY <1>0 DEF Ranges, IInv, AnswersAreTrue, Target, Settle, batchVars, senderVars
<1>4. ChecksAreTrue'
  BY <1>0 DEF Ranges, IInv, ChecksAreTrue, Settle, batchVars, senderVars
<1>5. Targets' /\ ItemsFitBatch' /\ OneSender' /\ Origins' /\ Lineage'
  BY DEF IInv, Targets, ItemsFitBatch, OneSender, Origins, Lineage, Target, Standing,
       Settle, batchVars, senderVars
<1>6. QED  BY <1>1, <1>2, <1>3, <1>4, <1>5 DEF IInv

(* Before the first batch the invariant holds.                              *)
LEMMA InitInv == Init => IInv
<1>. SUFFICES ASSUME Init PROVE IInv
  OBVIOUS
<1>1. TypeOK
  <2>1. toggles \in 0 .. MaxToggles
    BY MaxTogglesAssumption DEF Init
  <2>. QED  BY <2>1 DEF Init, TypeOK, BatchStatus, ItemStatus, PixStatus
<1>2. Targets /\ ItemsFitBatch /\ ItemsAreTrue /\ AnswersAreTrue /\ ChecksAreTrue /\ OneSender
  BY DEF Init, Targets, ItemsFitBatch, ItemsAreTrue, AnswersAreTrue, ChecksAreTrue,
       OneSender,
         NoCheck, Payment, Completed
<1>3. Origins /\ Lineage
  BY DEF Init, Origins, Lineage, Standing
<1>. QED  BY <1>1, <1>2, <1>3 DEF IInv

(* Every step of the company, the sender, the checks and Efi preserves it.  *)
LEMMA NextKeeps == IInv /\ [Next]_vars => IInv'
<1>. SUFFICES ASSUME IInv, [Next]_vars PROVE IInv'
  OBVIOUS
<1>1. CASE Company
  BY <1>1, CreateKeeps, UpdateKeeps, RetryFailedKeeps, RequestKeeps, ApproveKeeps,
       RefuseKeeps,
     ReturnToDraftKeeps, CancelKeeps, TurnOffKeeps, TurnOnKeeps DEF Company
<1>2. CASE Sending
  BY <1>2, BeginKeeps, FailPendingKeeps, AccountReadyKeeps, NextItemKeeps, ClaimKeeps,
       SendKeeps,
     TimeOutKeeps, RecordKeeps, CrashKeeps DEF Sending
<1>3. CASE Verification
  BY <1>3, MarkLostKeeps, NoticePaidKeeps, NoticeFailedKeeps, StartCheckKeeps, AskKeeps,
     WriteCheckKeeps, AbandonCheckKeeps, CompleteKeeps DEF Verification
<1>4. ASSUME NEW i \in Payment, Efi(i) PROVE IInv'
  <2>1. CASE Receive(i, "processing", "IN_PROCESSING")
    BY <2>1, ReceiveKeeps
  <2>2. CASE Receive(i, "paid", "PAID")
    BY <2>2, ReceiveKeeps
  <2>3. CASE Receive(i, "refused", "REFUSED")
    BY <2>3, ReceiveKeeps
  <2>4. CASE \E says \in {"REFUSED", "UNCERTAIN"} : Receive(i, "none", says)
    BY <2>4, ReceiveKeeps
  <2>5. CASE Receive(i, "none", "RATE_LIMITED")
    BY <2>5, ReceiveKeeps
  <2>6. CASE Settle(i, "paid") \/ Settle(i, "refused")
    BY <2>6, SettleKeeps
  <2>. QED  BY <1>4, <2>1, <2>2, <2>3, <2>4, <2>5, <2>6 DEF Efi
<1>5. CASE UNCHANGED vars
  BY <1>5 DEF IInv, TypeOK, Targets, ItemsFitBatch, ItemsAreTrue, AnswersAreTrue,
       ChecksAreTrue,
     OneSender, Origins, Lineage, Standing, Target, vars, companyVars, batchVars, senderVars
<1>. QED  BY <1>1, <1>2, <1>3, <1>4, <1>5 DEF Next

(* The inductive invariant holds in every reachable state.                  *)
THEOREM Invariant == Spec => []IInv
BY InitInv, NextKeeps, PTL DEF Spec

(* Statuses, answers and the payments requests work on range over what the  *)
(* schema and the code allow.                                               *)
THEOREM TypeCorrect == Spec => []TypeOK
<1>1. IInv => TypeOK
  BY DEF IInv
<1>. QED  BY Invariant, <1>1, PTL

(* However often a batch's failures are paid again, and whichever answers,  *)
(* notices, stops and refusals come between, no person is paid twice for it.*)
THEOREM NobodyPaidTwice == Spec => []PaidOnce
<1>1. IInv => PaidOnce
  <2>. SUFFICES ASSUME IInv, NEW b \in Batch, NEW c \in Batch, NEW p \in Person,
                       b # c, origin[b] = origin[c]
                PROVE  \/ pix[<<b, p>>] \notin {"sent", "processing", "paid"}
                       \/ pix[<<c, p>>] \notin {"sent", "processing", "paid"}
    BY DEF PaidOnce
  <2>1. \A d \in Batch : ~Standing(d) => pix[<<d, p>>] = "none"
    BY DEF IInv, Standing, ItemsFitBatch, ItemsAreTrue, Payment
  <2>2. \A d, e \in Batch : d < e /\ origin[d] = origin[e] /\ Standing(d) /\ Standing(e) =>
          pix[<<e, p>>] = "none" \/ pix[<<d, p>>] \in {"none", "refused"}
    BY DEF IInv, Lineage, ItemsAreTrue, Payment
  <2>3. b < c \/ c < b
    BY MaxBatchesAssumption DEF Batch
  <2>. QED  BY <2>1, <2>2, <2>3
<1>. QED  BY Invariant, <1>1, PTL

(* A batch reported as ended shows as paid exactly the payments that were.  *)
THEOREM ReportsAreTruthful == Spec => []CompletionIsTruthful
<1>1. IInv => CompletionIsTruthful
  BY DEF IInv, CompletionIsTruthful, ItemsFitBatch, ItemsAreTrue, Payment
<1>. QED  BY Invariant, <1>1, PTL

(* Two runs of the sender, or a run after a stop, never repeat a request    *)
(* that Efi has or may still get.                                           *)
THEOREM RequestsAreSingle == Spec => []NeverSentTwice
<1>1. IInv => NeverSentTwice
  BY DEF IInv, NeverSentTwice, AnswersAreTrue, OneSender
<1>. QED  BY Invariant, <1>1, PTL

(* Nobody is paid twice: no request is repeated while Efi may have it, and  *)
(* of the batches that repeat one another, one at most pays a person.       *)
THEOREM PaymentsAreSingle == Spec => []SentOnce
BY NobodyPaidTwice, RequestsAreSingle, PTL DEF SentOnce

(* A result, once recorded, is never overwritten by a later one.            *)
THEOREM ResultsAreFinal == Spec => ResultIsFinal
<1>1. IInv /\ [Next]_vars => [\A i \in Payment : item[i] \in {"PAID", "FAILED"} => item'[i] = item[i]]_vars
  <2>. SUFFICES ASSUME IInv, Next, NEW i \in Payment, item[i] \in {"PAID", "FAILED"}
                PROVE  item'[i] = item[i]
    OBVIOUS
  <2>1. item \in [Payment -> ItemStatus] /\ i[1] \in Batch
    BY DEF IInv, TypeOK, Payment
  <2>2. batch[i[1]] \notin {"ABSENT", "DRAFT"}
    BY DEF IInv, ItemsFitBatch
  <2>3. CASE Company
    BY <2>1, <2>2, <2>3 DEF Company, Create, Update, RetryFailed, NextBatch, Items,
         Become, Request,
       Approve, Refuse, ReturnToDraft, Cancel, TurnOff, TurnOn
  <2>4. CASE Sending
    <3>1. ASSUME NEW s \in Sender, Claim(s) PROVE item'[i] = item[i]
      BY <2>1, <3>1 DEF Claim
    <3>2. ASSUME NEW s \in Sender, Record(s) PROVE item'[i] = item[i]
      BY <2>1, <3>2 DEF Record, Write
    <3>3. ASSUME NEW s \in Sender, FailPending(s) PROVE item'[i] = item[i]
      BY <2>1, <3>3 DEF FailPending, Become
    <3>. QED  BY <2>4, <3>1, <3>2, <3>3 DEF Sending, Begin, AccountReady, NextItem,
         Send, TimeOut, Crash
  <2>5. CASE Verification
    <3>1. ASSUME NEW j \in Payment, MarkLost(j) \/ NoticePaid(j) \/ NoticeFailed(j) PROVE item'[i] = item[i]
      BY <2>1, <3>1 DEF MarkLost, NoticePaid, NoticeFailed, Write, InFlight
    <3>2. ASSUME NEW c \in Checker, NEW j \in Payment, WriteCheck(c, j) PROVE item'[i] = item[i]
      <4>1. check[c].was \in {"UNCERTAIN", "IN_PROCESSING"}
        BY <3>2 DEF IInv, TypeOK, NoCheck, WriteCheck
      <4>. QED  BY <2>1, <3>2, <4>1 DEF WriteCheck, Write
    <3>. QED  BY <2>5, <3>1, <3>2 DEF Verification, StartCheck, Ask, AbandonCheck,
         Complete
  <2>6. CASE \E j \in Payment : Efi(j)
    BY <2>6 DEF Efi, Receive, Settle
  <2>. QED  BY <2>3, <2>4, <2>5, <2>6 DEF Next
<1>. QED  BY Invariant, <1>1, PTL DEF Spec, ResultIsFinal

(* While the feature is off, only a send that Efi turned away comes to wait *)
(* again: whatever else the company, the senders and the checks do.         *)
THEOREM OffCancelsTheRest == Spec => OffLeavesTheTurnedAway
<1>1. IInv /\ [Next]_vars =>
        [\A i \in Payment : ~enabled' /\ Unsent(i)' =>
           \/ ~enabled /\ Unsent(i)
           \/ \E s \in Sender :
                stage[s] = "wait" /\ Target(s) = i /\ answer[s] = "RATE_LIMITED"]_vars
  <2>. SUFFICES ASSUME IInv, Next, NEW i \in Payment, ~enabled', Unsent(i)'
                PROVE  \/ ~enabled /\ Unsent(i)
                       \/ \E s \in Sender :
                            stage[s] = "wait" /\ Target(s) = i /\ answer[s] = "RATE_LIMITED"
    OBVIOUS
  <2>1. /\ item \in [Payment -> ItemStatus] /\ batch \in [Batch -> BatchStatus] /\ i[1] \in Batch
        /\ item'[i] = "PENDING" /\ batch'[i[1]] = "PROCESSING"
    BY DEF IInv, TypeOK, Payment, Unsent
  <2>2. SUFFICES ASSUME ~(~enabled /\ Unsent(i))
                 PROVE  \E s \in Sender :
                          stage[s] = "wait" /\ Target(s) = i /\ answer[s] = "RATE_LIMITED"
    OBVIOUS
  <2>3. ~Company
    <3>1. ASSUME NEW b \in Batch, NEW people \in SUBSET Person, Create(b, people) \/ Update(b, people)
          PROVE  FALSE
      BY <2>1, <2>2, <3>1 DEF Create, Update, Items, Unsent, companyVars
    <3>2. ASSUME NEW b \in Batch, NEW new \in Batch, NEW people \in SUBSET Person, RetryFailed(b, new, people)
          PROVE  FALSE
      BY <2>1, <2>2, <3>2 DEF RetryFailed, Items, Unsent, companyVars
    <3>3. ASSUME NEW b \in Batch, Request(b) \/ Approve(b) \/ Refuse(b) \/ ReturnToDraft(b) \/ Cancel(b)
          PROVE  FALSE
      BY <2>1, <2>2, <3>3 DEF Request, Approve, Refuse, ReturnToDraft, Cancel, Become, Unsent, companyVars
    <3>4. ~TurnOff /\ ~TurnOn
      BY <2>1, <2>2 DEF TurnOff, TurnOn, Unsent
    <3>. QED  BY <3>1, <3>2, <3>3, <3>4 DEF Company
  <2>4. ASSUME NEW s \in Sender, Record(s)
        PROVE  stage[s] = "wait" /\ Target(s) = i /\ answer[s] = "RATE_LIMITED"
    <3>1. /\ stage[s] = "wait" /\ UNCHANGED <<enabled, batch>>
          /\ item' = IF item[Target(s)] \in {"SENDING"}
                     THEN [item EXCEPT ![Target(s)] = Recorded(answer[s])] ELSE item
      BY <2>4 DEF Record, Write, companyVars, batchVars
    <3>2. item[i] # "PENDING"
      BY <2>1, <2>2, <3>1 DEF Unsent
    <3>3. Target(s) = i /\ Recorded(answer[s]) = "PENDING"
      BY <2>1, <3>1, <3>2
    <3>4. answer[s] \in Outcome
      BY <2>4, NoneAssumption DEF IInv, TypeOK, Record
    <3>. QED  BY <3>1, <3>3, <3>4 DEF Recorded, Outcome
  <2>5. ASSUME Sending, \A s \in Sender : ~Record(s) PROVE FALSE
    <3>1. ASSUME NEW s \in Sender, Claim(s) PROVE FALSE
      BY <2>1, <2>2, <3>1 DEF Claim, Unsent, companyVars, batchVars
    <3>2. ASSUME NEW s \in Sender, FailPending(s) PROVE FALSE
      BY <2>1, <2>2, <3>2 DEF FailPending, Become, Unsent, companyVars, batchVars
    <3>3. UNCHANGED <<item, companyVars, batchVars>> => FALSE
      BY <2>1, <2>2 DEF Unsent, companyVars, batchVars
    <3>. QED  BY <2>5, <3>1, <3>2, <3>3 DEF Sending, Begin, AccountReady, NextItem, Send, TimeOut, Crash
  <2>6. ~Verification
    <3>1. ASSUME NEW j \in Payment, MarkLost(j) \/ NoticePaid(j) \/ NoticeFailed(j) PROVE FALSE
      BY <2>1, <2>2, <3>1 DEF MarkLost, NoticePaid, NoticeFailed, Write, Unsent, companyVars, batchVars
    <3>2. ASSUME NEW c \in Checker, NEW j \in Payment, WriteCheck(c, j) PROVE FALSE
      <4>1. Checked(check[c].found) # "PENDING"
        BY <3>2 DEF IInv, TypeOK, NoCheck, WriteCheck, Checked
      <4>. QED  BY <2>1, <2>2, <3>2, <4>1 DEF WriteCheck, Write, Unsent, companyVars, batchVars
    <3>3. UNCHANGED <<item, companyVars, batchVars>> => FALSE
      BY <2>1, <2>2 DEF Unsent, companyVars, batchVars
    <3>4. ASSUME NEW b \in Batch, Complete(b) PROVE FALSE
      BY <2>1, <2>2, <3>4 DEF Complete, Unsent, companyVars
    <3>. QED  BY <3>1, <3>2, <3>3, <3>4 DEF Verification, StartCheck, Ask, AbandonCheck
  <2>7. ASSUME NEW j \in Payment, Efi(j) PROVE FALSE
    BY <2>1, <2>2, <2>7 DEF Efi, Receive, Settle, Unsent, companyVars, batchVars
  <2>. QED  BY <2>3, <2>4, <2>5, <2>6, <2>7 DEF Next
<1>. QED  BY Invariant, <1>1, PTL DEF Spec, OffLeavesTheTurnedAway

-----------------------------------------------------------------------------
(***************************************************************************)
(* Approval and sending together: what is proved of the approval in        *)
(* DisbursementApprovalProofs holds of the behaviours of MCDisbursements.  *)
(***************************************************************************)
AP == INSTANCE DisbursementApprovalProofs WITH
  Batch <- {"b"}, enabled <- on, batch <- batchStatus

(* The definitions of DisbursementApproval are those its proofs see.        *)
LEMMA ApprovalSteps == A!Next => AP!Next
BY DEF A!Next, AP!Next, A!Cardinality, AP!Cardinality,
      A!Request, AP!Request, A!settings, AP!settings, A!batches, AP!batches,
      A!requests, AP!requests, A!delivery, AP!delivery, A!Awaiting, AP!Awaiting,
      A!Lock, AP!Lock, A!End, AP!End, A!Close, AP!Close, A!StillAsRequested,
      AP!StillAsRequested, A!Update, AP!Update, A!Ask, AP!Ask, A!Cancel,
      AP!Cancel, A!Configure, AP!Configure, A!Company, AP!Company, A!Prepare,
      AP!Prepare, A!PrepareBlocked, AP!PrepareBlocked, A!Link, AP!Link,
      A!Dispatch, AP!Dispatch, A!Deliver, AP!Deliver, A!Asking, AP!Asking, A!Tap,
      AP!Tap, A!Store, AP!Store, A!DayEnds, AP!DayEnds, A!GraceEnds, AP!GraceEnds,
      A!Outside, AP!Outside, A!Idle, AP!Idle, A!ValidTap, AP!ValidTap, A!Answers,
      AP!Answers, A!First, AP!First, A!Answerable, AP!Answerable, A!OldestPage,
      AP!OldestPage, A!Overdue, AP!Overdue, A!StartTick, AP!StartTick, A!ReadTaps,
      AP!ReadTaps, A!Decided, AP!Decided, A!Decide, AP!Decide, A!DecideFails,
      AP!DecideFails, A!StartExpiring, AP!StartExpiring, A!Expire, AP!Expire,
      A!ReleaseUnsent, AP!ReleaseUnsent, A!EndTick, AP!EndTick, A!Worker,
      AP!Worker

(* What is proved of the sending.                                           *)
LEMMA SendingStands == MCSpec => []IInv
<1>1. MCInit => IInv
  BY InitInv DEF MCInit
<1>2. IInv /\ [MCNext]_parts => IInv'
  BY NextKeeps DEF MCNext, parts
<1>. QED  BY <1>1, <1>2, PTL DEF MCSpec

(* What is proved of the approval.                                          *)
LEMMA ApprovalBegins == MCInit => AP!Init
BY DEF MCInit, A!Init, AP!Init, A!Request, AP!Request, A!Idle, AP!Idle

LEMMA ApprovalMoves == [MCNext]_parts => [AP!Next]_AP!vars
BY ApprovalSteps
DEF MCNext, parts, approvalVars, AP!vars, AP!settings, AP!batches, AP!requests, AP!delivery

LEMMA ApprovalStands == MCSpec => []AP!IInv
<1>1. MCInit => AP!IInv
  BY ApprovalBegins, AP!InitKeeps, BoundsAssumption
<1>2. AP!IInv /\ [MCNext]_parts => AP!IInv'
  BY ApprovalMoves, AP!StepKeeps, BoundsAssumption
<1>. QED  BY <1>1, <1>2, PTL DEF MCSpec

(* Every state of the two is one the schema has.                            *)
THEOREM PartsAreTyped == MCSpec => []PartsTypeOK
<1>1. IInv /\ AP!IInv => PartsTypeOK
  BY DEF IInv, AP!IInv, AP!TypeOK, A!TypeOK, PartsTypeOK, A!Request, AP!Request,
         A!BatchStatus, AP!BatchStatus, A!ApprovalState, AP!ApprovalState, A!Day, AP!Day
<1>. QED  BY <1>1, SendingStands, ApprovalStands, PTL

(* A batch awaits approval exactly while its current request does.          *)
THEOREM OneRequestIsOpen == MCSpec => []OneOpenRequest
<1>1. AP!IInv => OneOpenRequest
  BY DEF AP!IInv, AP!OneOpenRequest, OneOpenRequest, A!OneOpenRequest, A!Awaiting,
         AP!Awaiting, A!Request, AP!Request
<1>. QED  BY <1>1, ApprovalStands, PTL

(* Money leaves only for what its approver saw and answered in time.        *)
THEOREM OnlyTheApprovedIsPaid == MCSpec => OnlyAuthorizedIsPaid
<1>1. AP!IInv /\ [MCNext]_parts =>
        [\A b \in {"b"} : batchStatus[b] # "PROCESSING" /\ batchStatus'[b] = "PROCESSING" =>
           /\ on
           /\ \E k \in DOMAIN taps :
                /\ taps[k].says = "approve" /\ taps[k].inTime
                /\ taps[k].by = approver
                /\ of[taps[k].on] = b
                /\ \A r \in 1 .. asked : of[r] = b => r <= taps[k].on
                /\ shown[taps[k].on] = content[b]]_A!vars
  <2>1. AP!IInv /\ [MCNext]_parts => [AP!Release]_AP!vars
    BY ApprovalMoves, AP!ReleaseKeeps, BoundsAssumption
  <2>2. AP!vars = A!vars /\ AP!vars' = A!vars'
    BY DEF AP!vars, AP!settings, AP!batches, AP!requests, AP!delivery,
           A!vars, A!settings, A!batches, A!requests, A!delivery
  <2>. QED  BY <2>1, <2>2 DEF AP!Release, AP!Authorized
<1>. QED  BY <1>1, ApprovalStands, PTL DEF MCSpec, OnlyAuthorizedIsPaid, A!OnlyAuthorizedIsPaid
=============================================================================
