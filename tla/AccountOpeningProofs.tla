------------------------ MODULE AccountOpeningProofs ------------------------
(***************************************************************************)
(* Proofs about AccountOpening, for any number of drafts, submissions that *)
(* overlap, runs, halts and interventions: what Efi does not undo is done  *)
(* once, and what is over stays so. And about FinancialActivation, for any *)
(* number of versions, edits, uploads, validations and runs: what charges  *)
(* are issued with is one and whole, and was validated as it is.           *)
(***************************************************************************)
EXTENDS MCActivation, FiniteSetTheorems, TLAPS

\* No account was asked for, or the last one was declined.
Fresh == {"NONE", "DRAFT", "NOTICE_PENDING", "CORRECTION_REQUIRED", "REFUSED"}
\* What a row can be once its account is open.
Opened == {"PROVISIONING", "CONFIGURATION_ERROR", "ACTIVE", "DISCONNECTED"}

Live(a) == efi[a].status \in {"waiting", "processing", "open"}
Unmade(a) == efi[a].certificates = 0 /\ efi[a].keys = 0 /\ efi[a].renewals = 0
Asking(w) == submitter[w].at \in {"post", "record"}

(* One submission at a time is past its claim of the request, and no new    *)
(* one gets there: the row left the statuses from which it is claimed.      *)
OneAsks ==
  /\ \A w, v \in Submitter : Asking(w) /\ Asking(v) => w = v
  /\ \A w \in Submitter : Asking(w) => row.status \notin Fresh \cup Pending

(* While no request was made no account lives, and what the submission      *)
(* knows of the account it asked for is true.                               *)
RequestsAreTrue ==
  /\ row.status \in Fresh => \A a \in EfiAccount : ~Live(a)
  /\ \A w \in Submitter :
       /\ submitter[w].at # "record" => submitter[w].account = Nobody
       /\ submitter[w].at = "post" => \A a \in EfiAccount : ~Live(a)
       /\ submitter[w].at = "record" =>
            /\ submitter[w].result \in {"AWAITING_REPRESENTATIVE", "SUBMISSION_UNCERTAIN",
                                        "CORRECTION_REQUIRED", "CONFIGURATION_ERROR"}
            /\ submitter[w].result = "AWAITING_REPRESENTATIVE" <=> submitter[w].account # Nobody
            /\ submitter[w].result = "CORRECTION_REQUIRED" => \A a \in EfiAccount : ~Live(a)
            /\ submitter[w].account # Nobody =>
                 /\ efi[submitter[w].account].status # "absent"
                 /\ \A a \in EfiAccount : Live(a) => a = submitter[w].account

(* The account the row points to is the only one that may live.             *)
RowIsTrue ==
  /\ row.status \in (Fresh \ {"REFUSED"}) \cup {"SUBMISSION_UNCERTAIN"} => row.request = Nobody
  /\ row.status \in Pending =>
       /\ row.request # Nobody /\ efi[row.request].status # "absent"
       /\ \A a \in EfiAccount : Live(a) => a = row.request
  /\ row.status \in {"PROVISIONING", "ACTIVE"} =>
       row.request # Nobody /\ efi[row.request].status = "open"
  /\ row.status = "CONFIGURATION_ERROR" /\ row.request # Nobody => efi[row.request].status = "open"
  /\ row.status \notin {"NONE", "DISCONNECTED"} => row.revision # 0

OneLives == \A a, b \in EfiAccount : Live(a) /\ Live(b) => a = b

(* Nothing is made for an account before it is the row's and open.          *)
MadeForTheRow ==
  \A a \in EfiAccount : a # row.request \/ row.status \notin Opened => Unmade(a)

(* A run holds its lease, unless the company disconnected.                  *)
RunHoldsLease ==
  ~At("idle") =>
    /\ provisioner.run # 0
    /\ row.request # Nobody
    /\ \/ row.status = "PROVISIONING" /\ ~row.due /\ row.runs = provisioner.run
       \/ row.status = "DISCONNECTED"

(* What was made is stored, or marked as asked for; a step that makes       *)
(* something comes after its mark and finds none.                           *)
CertificateIsMarked ==
  /\ \A a \in EfiAccount : efi[a].certificates # 0 =>
       row.certAsked \/ gateway.certificate # "none" \/ row.status = "DISCONNECTED"
  /\ At("makeCertificate") => efi[row.request].certificates = 0 /\ (Leased => row.certAsked)
  /\ At("certificate") /\ Leased => efi[row.request].certificates = 0

KeyIsMarked ==
  /\ \A a \in EfiAccount : efi[a].keys # 0 =>
       row.keysBefore # Nobody \/ gateway.key \/ row.status = "DISCONNECTED"
  /\ At("makeKey") => efi[row.request].keys = 0 /\ (Leased => row.keysBefore # Nobody)

(* What a run has stored when it gets to a step.                            *)
StoredSoFar ==
  Leased =>
    /\ provisioner.at \in {"certificate", "makeCertificate", "saveCertificate", "key",
                           "makeKey", "saveKey", "finish"} =>
         gateway.of = row.request
    /\ provisioner.at \in {"key", "makeKey", "saveKey", "finish"} => gateway.certificate # "none"
    /\ At("finish") => gateway.key

(* A certificate is renewed after its revision was published, which happens *)
(* once, and its renewal is marked before it is asked for.                  *)
RenewalIsMarked ==
  /\ \A a \in EfiAccount : efi[a].renewals # 0 =>
       row.revision \in published /\ (row.status = "ACTIVE" => row.renewalOf # "none")
  /\ renewer.at # "idle" =>
       /\ row.request # Nobody /\ row.status \in Opened
       /\ row.revision \in published /\ (row.status = "ACTIVE" => row.renewalOf # "none")
       /\ renewer.had \in {"opening", "byhand"}
  /\ renewer.at = "post" => efi[row.request].renewals = 0
  /\ row.status = "ACTIVE" /\ row.renewalOf # "none" =>
       gateway.certificate = row.renewalOf \/ gateway.certificate \notin {"opening", "byhand"}
  /\ row.revision \in published => row.status \in Opened
  /\ row.status = "ACTIVE" => row.revision \in published
  /\ published \subseteq 1 .. row.revision

(* A profile made by hand owns the gateway account: no run has a lease, and *)
(* an active gateway account is that of the profile in force.               *)
OwnedByHand ==
  /\ origin = "manual" /\ row.status = "PROVISIONING" => row.runs = 0
  /\ gateway.certificate = "manual" => origin = "manual"
  /\ gateway.status = "ACTIVE" =>
       \/ row.status = "ACTIVE" /\ origin # "manual"
       \/ gateway.certificate = "manual"

(* The inductive invariant.                                                 *)
IInv ==
  /\ TypeOK
  /\ OneAsks /\ RequestsAreTrue /\ RowIsTrue /\ OneLives
  /\ MadeForTheRow /\ RunHoldsLease
  /\ CertificateIsMarked /\ KeyIsMarked /\ StoredSoFar /\ RenewalIsMarked
  /\ OwnedByHand /\ Whole

USE DEF Fresh, Opened, Pending, Live, Unmade, Asking, Leased, At, database, runs, counters

-----------------------------------------------------------------------------
(* A submission changes its own record only.                                *)
LEMMA SubmitsOne ==
  ASSUME TypeOK, NEW w \in Submitter, NEW r \in Submitting, Submits(w, r)
  PROVE  /\ submitter'[w] = r
         /\ \A v \in Submitter : v # w => submitter'[v] = submitter[v]
         /\ submitter' \in [Submitter -> Submitting]
BY DEF TypeOK, Submits

LEMMA RestsTyped == NotSubmitting \in Submitting
BY DEF NotSubmitting, Submitting

LEMMA NoRuns == 0 \in 0 .. MaxProvisions
BY BoundsAssumption

LEMMA NobodyIsNone == Nobody \notin EfiAccount
BY BoundsAssumption, NobodyAssumption DEF EfiAccount, Revision

(* A draft is saved only before a request, as a new revision.               *)
LEMMA SaveDraftKeeps ==
  ASSUME IInv, NEW consent \in BOOLEAN, SaveDraft(consent)
  PROVE  IInv'
<1>a. NoRow \in Row
  BY NoRuns, BoundsAssumption DEF NoRow, Row, Status, Maker
<1>b. row.revision + 1 \in 0 .. MaxRevisions
  BY BoundsAssumption DEF SaveDraft, IInv, TypeOK, Row
<1>c. row'.status = "DRAFT" /\ row'.request = Nobody /\ row'.revision = row.revision + 1
  BY <1>a DEF SaveDraft, NoRow, Row
<1>d. /\ row'.revision # 0 /\ row'.revision \notin published
      /\ published \subseteq 1 .. row'.revision
  BY <1>b, <1>c DEF IInv, RenewalIsMarked, TypeOK, Row
<1>1. TypeOK'
  <2>1. row' \in Row
    BY <1>a, <1>b DEF IInv, TypeOK, Row, Status, Editable, NoRow, SaveDraft
  <2>. QED  BY <2>1 DEF IInv, TypeOK, Editable, NoRow, SaveDraft
<1>2. OneAsks' /\ RequestsAreTrue' /\ MadeForTheRow' /\ RunHoldsLease' /\ StoredSoFar'
      /\ OwnedByHand' /\ Whole'
  BY DEF IInv, TypeOK, OneAsks, Editable, NoRow, SaveDraft, RequestsAreTrue,
       MadeForTheRow, RunHoldsLease, StoredSoFar, OwnedByHand, Whole
<1>3. RowIsTrue'
  BY <1>c, <1>d DEF IInv, TypeOK, RowIsTrue, OneAsks, RequestsAreTrue, OneLives,
       RunHoldsLease, Editable, NoRow, SaveDraft
<1>4. CertificateIsMarked'
  BY DEF IInv, TypeOK, CertificateIsMarked, RunHoldsLease, StoredSoFar, MadeForTheRow,
       Editable, NoRow, SaveDraft
<1>5. KeyIsMarked'
  BY DEF IInv, TypeOK, KeyIsMarked, RunHoldsLease, StoredSoFar, MadeForTheRow, Editable,
       NoRow, SaveDraft
<1>6. RenewalIsMarked'
  BY <1>c, <1>d DEF IInv, TypeOK, RenewalIsMarked, MadeForTheRow, RowIsTrue,
       RunHoldsLease, Editable, NoRow, SaveDraft
<1>7. OneLives'
  BY DEF IInv, OneLives, Editable, NoRow, SaveDraft
<1>8. QED  BY <1>1, <1>2, <1>3, <1>4, <1>5, <1>6, <1>7 DEF IInv

(* A submission checks the draft it read; nothing is decided yet.           *)
LEMMA CheckSubmitKeeps ==
  ASSUME IInv, CheckSubmit
  PROVE  IInv'
<1>1. TypeOK'
  BY DEF IInv, TypeOK, CheckSubmit, Row
<1>2. OneAsks' /\ RequestsAreTrue' /\ RowIsTrue' /\ OneLives' /\ MadeForTheRow'
      /\ RunHoldsLease' /\ CertificateIsMarked' /\ KeyIsMarked' /\ StoredSoFar'
      /\ RenewalIsMarked' /\ OwnedByHand' /\ Whole'
  BY DEF IInv, OneAsks, RequestsAreTrue, RowIsTrue, OneLives, MadeForTheRow,
       RunHoldsLease, CertificateIsMarked, KeyIsMarked, StoredSoFar, RenewalIsMarked,
       OwnedByHand, Whole, CheckSubmit
<1>3. QED  BY <1>1, <1>2 DEF IInv

(* The draft becomes a notice to send: still no request.                    *)
LEMMA SubmitKeeps ==
  ASSUME IInv, Submit
  PROVE  IInv'
<1>1. TypeOK'
  BY BoundsAssumption DEF IInv, TypeOK, Submit, Row, Status
<1>2. OneAsks' /\ RequestsAreTrue' /\ RowIsTrue' /\ MadeForTheRow' /\ RunHoldsLease'
      /\ CertificateIsMarked' /\ KeyIsMarked' /\ StoredSoFar' /\ RenewalIsMarked'
      /\ OwnedByHand' /\ Whole'
  BY DEF IInv, TypeOK, OneAsks, Submit, Row, RequestsAreTrue, RowIsTrue, MadeForTheRow,
       RunHoldsLease, CertificateIsMarked, KeyIsMarked, StoredSoFar, RenewalIsMarked,
       OwnedByHand, Whole
<1>3. OneLives'
  BY DEF IInv, OneLives, Submit
<1>4. QED  BY <1>1, <1>2, <1>3 DEF IInv

(* A submission takes up the notice; several may overlap.                   *)
LEMMA StartSubmitKeeps ==
  ASSUME IInv, NEW w \in Submitter, StartSubmit(w)
  PROVE  IInv'
<1>1. TypeOK'
  BY BoundsAssumption DEF IInv, TypeOK, Submits, NotSubmitting, StartSubmit, Row,
       Submitting
<1>2. OneAsks' /\ RequestsAreTrue'
  BY DEF IInv, TypeOK, OneAsks, Submits, NotSubmitting, StartSubmit, Submitting,
       RequestsAreTrue
<1>3. RowIsTrue' /\ OneLives' /\ MadeForTheRow' /\ RunHoldsLease'
      /\ CertificateIsMarked' /\ KeyIsMarked' /\ StoredSoFar' /\ RenewalIsMarked'
      /\ OwnedByHand' /\ Whole'
  BY DEF IInv, RowIsTrue, OneLives, MadeForTheRow, RunHoldsLease, CertificateIsMarked,
       KeyIsMarked, StoredSoFar, RenewalIsMarked, OwnedByHand, Whole, Submits, NotSubmitting,
       StartSubmit
<1>4. QED  BY <1>1, <1>2, <1>3 DEF IInv

(* The personal data expired: the draft goes back to its owner.             *)
LEMMA DataExpiredKeeps ==
  ASSUME IInv, NEW w \in Submitter, DataExpired(w)
  PROVE  IInv'
<1>a. TypeOK /\ submitter[w] \in Submitting
  BY DEF IInv, TypeOK
<1>1. TypeOK'
  <2>1. row' \in Row
    BY DEF IInv, TypeOK, Row, Status, Submits, NotSubmitting, Fails, DataExpired
  <2>2. submitter' \in [Submitter -> Submitting]
    BY <1>a, SubmitsOne, RestsTyped DEF IInv, TypeOK, Submits, NotSubmitting, Fails,
         DataExpired
  <2>. QED  BY <2>1, <2>2 DEF IInv, TypeOK, Submits, NotSubmitting, Fails, DataExpired
<1>2. OneAsks' /\ RequestsAreTrue' /\ RowIsTrue' /\ MadeForTheRow' /\ RunHoldsLease'
      /\ CertificateIsMarked' /\ KeyIsMarked' /\ StoredSoFar' /\ RenewalIsMarked'
      /\ OwnedByHand' /\ Whole'
  BY DEF IInv, TypeOK, OneAsks, Submits, NotSubmitting, Fails, DataExpired, Row,
       RequestsAreTrue, RowIsTrue, MadeForTheRow, RunHoldsLease, CertificateIsMarked,
       KeyIsMarked, StoredSoFar, RenewalIsMarked, OwnedByHand, Whole
<1>3. OneLives'
  BY DEF IInv, OneLives, Submits, NotSubmitting, Fails, DataExpired
<1>4. QED  BY <1>1, <1>2, <1>3 DEF IInv

(* Each notice is counted before it is sent.                                *)
LEMMA ClaimNoticeKeeps ==
  ASSUME IInv, NEW w \in Submitter, ClaimNotice(w)
  PROVE  IInv'
<1>a. TypeOK /\ submitter[w] \in Submitting
  BY DEF IInv, TypeOK
<1>b. \/ UNCHANGED row /\ Submits(w, NotSubmitting)
      \/ /\ row' = [row EXCEPT !.notices = row.notices + 1]
         /\ Submits(w, [submitter[w] EXCEPT !.at = "sending", !.notices = submitter[w].notices + 1])
  BY DEF ClaimNotice
<1>c. row.notices + 1 \in Nat /\ submitter[w].notices + 1 \in Nat
  BY <1>a DEF TypeOK, Row, Submitting
<1>d. \A n \in Nat : [submitter[w] EXCEPT !.at = "sending", !.notices = n] \in Submitting
  BY <1>a DEF Submitting
<1>e. row' \in Row /\ row' = [row EXCEPT !.notices = row'.notices]
  BY <1>a, <1>b, <1>c DEF TypeOK, Row
<1>f. submitter[w].account = Nobody
  BY DEF ClaimNotice, IInv, RequestsAreTrue
<1>g. \E r \in Submitting : Submits(w, r) /\ r.at \in {"idle", "sending"} /\ r.account = Nobody
  <2>1. CASE Submits(w, NotSubmitting)
    BY <2>1, RestsTyped DEF NotSubmitting
  <2>2. CASE Submits(w, [submitter[w] EXCEPT !.at = "sending", !.notices = submitter[w].notices + 1])
    <3> DEFINE r == [submitter[w] EXCEPT !.at = "sending", !.notices = submitter[w].notices + 1]
    <3>1. r \in Submitting
      BY <1>c, <1>d
    <3>2. r.at = "sending" /\ r.account = Nobody
      BY <1>a, <1>f DEF Submitting
    <3>. QED  BY <2>2, <3>1, <3>2
  <2>. QED  BY <1>b, <2>1, <2>2
<1>h. /\ submitter' \in [Submitter -> Submitting]
      /\ submitter'[w].at \in {"idle", "sending"} /\ submitter'[w].account = Nobody
      /\ \A v \in Submitter : v # w => submitter'[v] = submitter[v]
  BY <1>a, <1>g, SubmitsOne
<1>i. UNCHANGED <<gateway, origin, published, efi, request, provisioner, renewer, leaving, counters>>
  BY DEF ClaimNotice
<1>1. TypeOK'
  BY <1>i, <1>e, <1>h DEF IInv, TypeOK, NotSubmitting
<1>2. OneAsks' /\ RequestsAreTrue'
  BY <1>i, <1>e, <1>h DEF IInv, TypeOK, OneAsks, NotSubmitting, Row, RequestsAreTrue
<1>3. RowIsTrue' /\ MadeForTheRow' /\ RunHoldsLease' /\ CertificateIsMarked'
      /\ KeyIsMarked' /\ StoredSoFar' /\ RenewalIsMarked' /\ OwnedByHand' /\ Whole'
  BY <1>i, <1>e DEF IInv, TypeOK, RowIsTrue, NotSubmitting, Row, MadeForTheRow,
       RunHoldsLease, CertificateIsMarked, KeyIsMarked, StoredSoFar, RenewalIsMarked,
       OwnedByHand, Whole
<1>4. OneLives'
  BY <1>i DEF IInv, OneLives, NotSubmitting
<1>5. QED  BY <1>1, <1>2, <1>3, <1>4 DEF IInv

(* After the notice the submission may claim the request.                   *)
LEMMA NoticeAcceptedKeeps ==
  ASSUME IInv, NEW w \in Submitter, NoticeAccepted(w)
  PROVE  IInv'
<1>a. TypeOK /\ submitter[w] \in Submitting
  BY DEF IInv, TypeOK
<1>b. [submitter[w] EXCEPT !.at = "claim"] \in Submitting
  BY <1>a DEF Submitting
<1>1. TypeOK'
  BY <1>a, <1>b, SubmitsOne DEF IInv, TypeOK, NoticeAccepted, Row
<1>2. OneAsks' /\ RequestsAreTrue'
  BY <1>a, <1>b, SubmitsOne DEF IInv, TypeOK, OneAsks, NoticeAccepted, Row, Submitting,
       RequestsAreTrue
<1>3. RowIsTrue' /\ MadeForTheRow' /\ RunHoldsLease' /\ CertificateIsMarked'
      /\ KeyIsMarked' /\ StoredSoFar' /\ RenewalIsMarked' /\ OwnedByHand' /\ Whole'
  BY DEF IInv, TypeOK, RowIsTrue, NoticeAccepted, Row, MadeForTheRow, RunHoldsLease,
       CertificateIsMarked, KeyIsMarked, StoredSoFar, RenewalIsMarked, OwnedByHand, Whole
<1>4. OneLives'
  BY DEF IInv, OneLives, NoticeAccepted
<1>5. QED  BY <1>1, <1>2, <1>3, <1>4 DEF IInv

(* A notice that fails leaves the draft to a later submission.              *)
LEMMA NoticeFailsKeeps ==
  ASSUME IInv, NEW w \in Submitter, NEW permanent \in BOOLEAN, NoticeFails(w, permanent)
  PROVE  IInv'
<1>a. TypeOK /\ submitter[w] \in Submitting
  BY DEF IInv, TypeOK
<1>b. \/ row' = row
      \/ row.status = "NOTICE_PENDING" /\ row' = [row EXCEPT !.status = "CORRECTION_REQUIRED"]
      \/ row.status = "NOTICE_PENDING" /\ row' = [row EXCEPT !.due = FALSE]
  BY DEF NoticeFails, Fails
<1>c. /\ Submits(w, NotSubmitting)
      /\ UNCHANGED <<gateway, origin, published, efi, request, provisioner, renewer, leaving, counters>>
  BY DEF NoticeFails
<1>1. TypeOK'
  <2>1. row' \in Row
    <3>1. row \in Row
      BY DEF IInv, TypeOK
    <3>2. [row EXCEPT !.status = "CORRECTION_REQUIRED"] \in Row /\ [row EXCEPT !.due = FALSE] \in Row
      BY <3>1 DEF Row, Status
    <3>. QED  BY <1>b, <3>1, <3>2
  <2>2. submitter' \in [Submitter -> Submitting]
    BY <1>b, <1>c, <1>a, SubmitsOne, RestsTyped DEF IInv, TypeOK
  <2>. QED  BY <2>1, <2>2, <1>b, <1>c DEF IInv, TypeOK
<1>2. OneAsks' /\ RequestsAreTrue' /\ RowIsTrue' /\ MadeForTheRow' /\ RunHoldsLease'
      /\ CertificateIsMarked' /\ KeyIsMarked' /\ StoredSoFar' /\ RenewalIsMarked'
      /\ OwnedByHand' /\ Whole'
  BY <1>b, <1>c DEF IInv, TypeOK, OneAsks, Submits, NotSubmitting, Row, RequestsAreTrue,
       RowIsTrue, MadeForTheRow, RunHoldsLease, CertificateIsMarked, KeyIsMarked,
       StoredSoFar, RenewalIsMarked, OwnedByHand, Whole
<1>3. OneLives'
  BY <1>b, <1>c DEF IInv, OneLives, Submits, NotSubmitting
<1>4. QED  BY <1>1, <1>2, <1>3 DEF IInv

(* One submission claims the request: it leaves the statuses that allow it. *)
LEMMA ClaimRequestKeeps ==
  ASSUME IInv, NEW w \in Submitter, ClaimRequest(w)
  PROVE  IInv'
<1>a. TypeOK /\ submitter[w] \in Submitting
  BY DEF IInv, TypeOK
<1>b. /\ [submitter[w] EXCEPT !.at = "post"] \in Submitting
      /\ [submitter[w] EXCEPT !.at = "post"].at = "post"
      /\ [submitter[w] EXCEPT !.at = "post"].account = submitter[w].account
  BY <1>a DEF Submitting
<1>c. \/ row' = row /\ Submits(w, NotSubmitting)
      \/ /\ row.status = "NOTICE_PENDING"
         /\ row' = [row EXCEPT !.status = "SUBMISSION_UNCERTAIN"]
         /\ Submits(w, [submitter[w] EXCEPT !.at = "post"])
  BY DEF ClaimRequest
<1>d. UNCHANGED <<gateway, origin, published, efi, request, provisioner, renewer, leaving, counters>>
  BY DEF ClaimRequest
<1>e. /\ submitter' \in [Submitter -> Submitting]
      /\ \A v \in Submitter : v # w => submitter'[v] = submitter[v]
      /\ \/ row' = row /\ submitter'[w] = NotSubmitting
         \/ /\ row.status = "NOTICE_PENDING"
            /\ row' = [row EXCEPT !.status = "SUBMISSION_UNCERTAIN"]
            /\ submitter'[w] = [submitter[w] EXCEPT !.at = "post"]
  BY <1>a, <1>b, <1>c, SubmitsOne, RestsTyped
<1>h. NotSubmitting.at = "idle" /\ NotSubmitting.account = Nobody
  BY DEF NotSubmitting
<1>f. /\ \A v \in Submitter : v # w => submitter'[v] = submitter[v]
      /\ \/ row' = row /\ submitter'[w].at = "idle" /\ submitter'[w].account = Nobody
         \/ /\ row.status = "NOTICE_PENDING"
            /\ row' = [row EXCEPT !.status = "SUBMISSION_UNCERTAIN"]
            /\ submitter'[w].at = "post" /\ submitter'[w].account = submitter[w].account
  BY <1>b, <1>e, <1>h
<1>g. submitter[w].at = "claim"
  BY DEF ClaimRequest
<1>1. TypeOK'
  BY <1>d, <1>f, <1>g, <1>e DEF IInv, TypeOK, Row, Status
<1>2. OneAsks' /\ RequestsAreTrue' /\ RowIsTrue' /\ MadeForTheRow' /\ RunHoldsLease'
      /\ CertificateIsMarked' /\ KeyIsMarked' /\ StoredSoFar' /\ RenewalIsMarked'
      /\ OwnedByHand' /\ Whole'
  BY <1>d, <1>f, <1>g DEF IInv, TypeOK, OneAsks, Row, RequestsAreTrue, RowIsTrue,
       MadeForTheRow, RunHoldsLease, CertificateIsMarked, KeyIsMarked, StoredSoFar,
       RenewalIsMarked, OwnedByHand, Whole
<1>3. OneLives'
  BY <1>d, <1>f, <1>g DEF IInv, OneLives
<1>4. QED  BY <1>1, <1>2, <1>3 DEF IInv

(* The one submission past its claim asks for the account.                  *)
LEMMA PostAccountKeeps ==
  ASSUME IInv, NEW w \in Submitter, PostAccount(w)
  PROVE  IInv'
<1>a. TypeOK /\ submitter[w] \in Submitting
  BY DEF IInv, TypeOK
<1>b. PICK r \in Submitting :
        /\ Submits(w, r) /\ r.at = "record"
        /\ \/ \E a \in EfiAccount :
                /\ Absent(a)
                /\ efi' = [efi EXCEPT ![a].status = "waiting"]
                /\ \/ r.account = a /\ r.result = "AWAITING_REPRESENTATIVE"
                   \/ r.account = Nobody /\ r.result = "SUBMISSION_UNCERTAIN"
           \/ /\ efi' = efi /\ r.account = submitter[w].account
              /\ r.result \in {"CORRECTION_REQUIRED", "CONFIGURATION_ERROR", "SUBMISSION_UNCERTAIN"}
  <2>1. CASE \E result \in {"CORRECTION_REQUIRED", "CONFIGURATION_ERROR", "SUBMISSION_UNCERTAIN"} :
               /\ UNCHANGED efi
               /\ Submits(w, [submitter[w] EXCEPT !.at = "record", !.result = result])
    <3>1. \A result \in {"CORRECTION_REQUIRED", "CONFIGURATION_ERROR", "SUBMISSION_UNCERTAIN"} :
            [submitter[w] EXCEPT !.at = "record", !.result = result] \in Submitting
      BY <1>a DEF Submitting
    <3>. QED  BY <1>a, <2>1, <3>1 DEF Submitting
  <2>2. ASSUME NEW a \in EfiAccount, NEW answered \in BOOLEAN, Absent(a),
               efi' = [efi EXCEPT ![a].status = "waiting"],
               Submits(w, [submitter[w] EXCEPT !.at = "record",
                 !.account = IF answered THEN a ELSE Nobody,
                 !.result = IF answered THEN "AWAITING_REPRESENTATIVE" ELSE "SUBMISSION_UNCERTAIN"])
        PROVE  \E r \in Submitting :
                 /\ Submits(w, r) /\ r.at = "record"
                 /\ \/ r.account = a /\ r.result = "AWAITING_REPRESENTATIVE"
                    \/ r.account = Nobody /\ r.result = "SUBMISSION_UNCERTAIN"
    <3>1. [submitter[w] EXCEPT !.at = "record",
             !.account = IF answered THEN a ELSE Nobody,
             !.result = IF answered THEN "AWAITING_REPRESENTATIVE" ELSE "SUBMISSION_UNCERTAIN"]
            \in Submitting
      BY <1>a DEF Submitting
    <3>. QED  BY <1>a, <2>2, <3>1 DEF Submitting
  <2>. QED  BY <2>1, <2>2 DEF PostAccount
<1>c. /\ submitter'[w] = r
      /\ \A v \in Submitter : v # w => submitter'[v] = submitter[v]
      /\ submitter' \in [Submitter -> Submitting]
  BY <1>a, <1>b, SubmitsOne
<1>d. /\ submitter[w].at = "post" /\ submitter[w].account = Nobody
      /\ \A b \in EfiAccount : ~Live(b)
      /\ row.status \notin {"NONE", "DRAFT", "NOTICE_PENDING", "CORRECTION_REQUIRED", "REFUSED",
                            "AWAITING_REPRESENTATIVE", "EFI_PROCESSING"}
  BY DEF PostAccount, IInv, RequestsAreTrue, OneAsks
<1>e. /\ efi' \in [EfiAccount -> AtEfi]
      /\ \A b \in EfiAccount :
           /\ efi'[b].certificates = efi[b].certificates
           /\ efi'[b].keys = efi[b].keys
           /\ efi'[b].renewals = efi[b].renewals
           /\ efi[b].status = "absent" \/ efi'[b].status = efi[b].status
  BY <1>a, <1>b DEF TypeOK, Absent, AtEfi
<1>f. \A b, c \in EfiAccount : Live(b)' /\ Live(c)' => b = c
  BY <1>a, <1>b, <1>d DEF TypeOK, AtEfi
<1>g. /\ r.result = "AWAITING_REPRESENTATIVE" <=> r.account # Nobody
      /\ r.result = "CORRECTION_REQUIRED" => \A b \in EfiAccount : ~Live(b)'
      /\ r.account # Nobody => efi'[r.account].status = "waiting"
  BY <1>a, <1>b, <1>d, NobodyIsNone DEF TypeOK, AtEfi
<1>h. UNCHANGED <<database, request, provisioner, renewer, leaving, counters>>
  BY DEF PostAccount
<1>1. TypeOK'
  BY <1>h, <1>c, <1>e DEF IInv, TypeOK
<1>2. OneAsks'
  BY <1>h, <1>c, <1>d DEF IInv, TypeOK, OneAsks
<1>3. RequestsAreTrue'
  BY <1>h, <1>b, <1>c, <1>d, <1>e, <1>f, <1>g DEF IInv, TypeOK, RequestsAreTrue,
       OneAsks, RowIsTrue, OneLives
<1>4. RowIsTrue'
  BY <1>h, <1>b, <1>d, <1>e DEF IInv, TypeOK, RowIsTrue, Row
<1>5. OneLives'
  BY <1>h, <1>f DEF IInv, TypeOK, OneLives
<1>6. MadeForTheRow' /\ RenewalIsMarked'
  BY <1>h, <1>e DEF IInv, TypeOK, MadeForTheRow, RenewalIsMarked, Row
<1>7. CertificateIsMarked'
  BY <1>h, <1>e DEF IInv, TypeOK, CertificateIsMarked, RunHoldsLease, StoredSoFar,
       MadeForTheRow, Row
<1>8. KeyIsMarked'
  BY <1>h, <1>e DEF IInv, TypeOK, KeyIsMarked, RunHoldsLease, StoredSoFar,
       MadeForTheRow, Row
<1>9. Whole'
  BY <1>h, <1>e DEF IInv, TypeOK, Whole, StoredSoFar, RowIsTrue, RunHoldsLease,
       RenewalIsMarked, Row
<1>10. RunHoldsLease' /\ StoredSoFar' /\ OwnedByHand'
  BY <1>h DEF IInv, RunHoldsLease, StoredSoFar, OwnedByHand
<1>11. QED  BY <1>1, <1>2, <1>3, <1>4, <1>5, <1>6, <1>7, <1>8, <1>9, <1>10 DEF IInv

(* The answer is recorded as what Efi has: an account, none, or unclear.    *)
LEMMA RecordRequestKeeps ==
  ASSUME IInv, NEW w \in Submitter, RecordRequest(w)
  PROVE  IInv'
<1>a. TypeOK /\ submitter[w] \in Submitting
  BY DEF IInv, TypeOK
<1>b. /\ submitter[w].at = "record"
      /\ UNCHANGED <<gateway, origin, published, efi, request, provisioner, renewer, leaving, counters>>
  BY DEF RecordRequest
<1>c. /\ submitter' \in [Submitter -> Submitting]
      /\ \A v \in Submitter : v # w => submitter'[v] = submitter[v]
      /\ submitter'[w].at = "idle" /\ submitter'[w].account = Nobody
  BY <1>a, SubmitsOne, RestsTyped DEF RecordRequest, NotSubmitting
<1>d. PICK answer \in EfiAccount \cup {Nobody}, result \in {"AWAITING_REPRESENTATIVE",
               "SUBMISSION_UNCERTAIN", "CORRECTION_REQUIRED", "CONFIGURATION_ERROR"} :
        answer = submitter[w].account /\ result = submitter[w].result
  BY <1>a, <1>b DEF IInv, RequestsAreTrue, Submitting
<1>e. \/ row' = row /\ row.status # "SUBMISSION_UNCERTAIN"
      \/ /\ row.status = "SUBMISSION_UNCERTAIN" /\ row.request = Nobody
         /\ row' = [row EXCEPT !.status = result, !.request = answer]
  BY <1>a, <1>d DEF RecordRequest, IInv, RowIsTrue, TypeOK, Row
<1>1. TypeOK'
  BY <1>b, <1>d, <1>e, <1>c DEF IInv, TypeOK, Row, Status
<1>2. OneAsks'
  BY <1>b, <1>d, <1>e, <1>c DEF IInv, TypeOK, OneAsks, Row
<1>3. RequestsAreTrue'
  <2>1. row'.status \in Fresh => \A a \in EfiAccount : ~Live(a)
    <3>1. CASE row' = row
      BY <3>1 DEF IInv, RequestsAreTrue
    <3>2. CASE row.status = "SUBMISSION_UNCERTAIN" /\ row'.status = result
      BY <1>b, <1>d, <3>2 DEF IInv, RequestsAreTrue
    <3>. QED  BY <1>e, <3>1, <3>2 DEF IInv, TypeOK, Row
  <2>2. \A v \in Submitter : v # w => submitter[v].at # "record" /\ submitter[v].at # "post"
    BY <1>b DEF IInv, OneAsks
  <2>3. UNCHANGED efi
    BY <1>b
  <2>. QED  BY <1>c, <2>1, <2>2, <2>3 DEF IInv, RequestsAreTrue
<1>4. RowIsTrue'
  BY <1>b, <1>d, <1>e DEF IInv, TypeOK, RowIsTrue, OneAsks, RequestsAreTrue, OneLives,
       RunHoldsLease, Row
<1>5. MadeForTheRow'
  BY <1>b, <1>d, <1>e DEF IInv, TypeOK, MadeForTheRow, Row
<1>6. RunHoldsLease'
  BY <1>b, <1>d, <1>e DEF IInv, TypeOK, RunHoldsLease, Row
<1>7. CertificateIsMarked'
  BY <1>b, <1>d, <1>e DEF IInv, TypeOK, CertificateIsMarked, RunHoldsLease, StoredSoFar,
       MadeForTheRow, Row
<1>8. KeyIsMarked'
  BY <1>b, <1>d, <1>e DEF IInv, TypeOK, KeyIsMarked, RunHoldsLease, StoredSoFar,
       MadeForTheRow, Row
<1>9. StoredSoFar'
  BY <1>b, <1>d, <1>e DEF IInv, TypeOK, StoredSoFar, Row
<1>10. RenewalIsMarked'
  BY <1>b, <1>d, <1>e DEF IInv, TypeOK, RenewalIsMarked, Row
<1>11. OwnedByHand'
  BY <1>b, <1>d, <1>e DEF IInv, TypeOK, OwnedByHand, Row
<1>12. Whole'
  BY <1>b, <1>d, <1>e DEF IInv, TypeOK, Whole, Row
<1>13. OneLives'
  BY <1>b DEF IInv, OneLives
<1>14. QED  BY <1>1, <1>2, <1>3, <1>4, <1>5, <1>6, <1>7, <1>8, <1>9, <1>10, <1>11, <1>12,
               <1>13 DEF IInv

(* Efi decides the one account that was asked for.                          *)
LEMMA EfiMovesKeeps ==
  ASSUME IInv, NEW a \in EfiAccount, NEW to \in {"processing", "open", "declined"}, EfiMoves(a, to)
  PROVE  IInv'
<1>1. TypeOK'
  BY DEF IInv, TypeOK, EfiMoves, AtEfi
<1>2. RequestsAreTrue' /\ RowIsTrue' /\ OneLives' /\ MadeForTheRow'
      /\ CertificateIsMarked' /\ KeyIsMarked' /\ RenewalIsMarked' /\ Whole'
  BY DEF IInv, TypeOK, RequestsAreTrue, EfiMoves, AtEfi, RowIsTrue, OneLives,
       MadeForTheRow, CertificateIsMarked, KeyIsMarked, RenewalIsMarked, Whole
<1>3. OneAsks' /\ RunHoldsLease' /\ StoredSoFar' /\ OwnedByHand'
  BY DEF IInv, OneAsks, RunHoldsLease, StoredSoFar, OwnedByHand, EfiMoves
<1>4. QED  BY <1>1, <1>2, <1>3 DEF IInv

(* A notice of opening counts for the account the row points to.            *)
LEMMA HearOpenedKeeps ==
  ASSUME IInv, HearOpened
  PROVE  IInv'
<1>1. TypeOK'
  BY NoRuns DEF IInv, TypeOK, HearOpened, Row, Status
<1>2. OneAsks' /\ RequestsAreTrue' /\ RowIsTrue' /\ MadeForTheRow' /\ RunHoldsLease'
      /\ RenewalIsMarked' /\ OwnedByHand' /\ Whole'
  BY DEF IInv, TypeOK, OneAsks, HearOpened, Row, RequestsAreTrue, RowIsTrue,
       MadeForTheRow, RunHoldsLease, RenewalIsMarked, OwnedByHand, Whole
<1>3. CertificateIsMarked'
  BY DEF IInv, TypeOK, CertificateIsMarked, RunHoldsLease, StoredSoFar, MadeForTheRow,
       HearOpened, Row
<1>4. KeyIsMarked'
  BY DEF IInv, TypeOK, KeyIsMarked, RunHoldsLease, StoredSoFar, MadeForTheRow,
       HearOpened, Row
<1>5. StoredSoFar'
  BY DEF IInv, TypeOK, StoredSoFar, RunHoldsLease, RowIsTrue, HearOpened, Row
<1>6. OneLives'
  BY DEF IInv, OneLives, HearOpened
<1>7. QED  BY <1>1, <1>2, <1>3, <1>4, <1>5, <1>6 DEF IInv

(* A notice of analysis changes only what waits.                            *)
LEMMA HearProcessingKeeps ==
  ASSUME IInv, HearProcessing
  PROVE  IInv'
<1>1. TypeOK'
  BY DEF IInv, TypeOK, HearProcessing, Row, Status
<1>2. OneAsks' /\ RequestsAreTrue' /\ RowIsTrue' /\ MadeForTheRow' /\ RunHoldsLease'
      /\ CertificateIsMarked' /\ KeyIsMarked' /\ StoredSoFar' /\ RenewalIsMarked'
      /\ OwnedByHand' /\ Whole'
  BY DEF IInv, TypeOK, OneAsks, HearProcessing, Row, RequestsAreTrue, RowIsTrue,
       MadeForTheRow, RunHoldsLease, CertificateIsMarked, KeyIsMarked, StoredSoFar,
       RenewalIsMarked, OwnedByHand, Whole
<1>3. OneLives'
  BY DEF IInv, OneLives, HearProcessing
<1>4. QED  BY <1>1, <1>2, <1>3 DEF IInv

(* A declined account no longer lives: another may be asked for.            *)
LEMMA HearDeclinedKeeps ==
  ASSUME IInv, HearDeclined
  PROVE  IInv'
<1>1. TypeOK'
  BY DEF IInv, TypeOK, HearDeclined, Row, Status
<1>2. OneAsks' /\ RowIsTrue' /\ MadeForTheRow' /\ RunHoldsLease'
      /\ CertificateIsMarked' /\ KeyIsMarked' /\ StoredSoFar' /\ RenewalIsMarked'
      /\ OwnedByHand' /\ Whole'
  BY DEF IInv, TypeOK, OneAsks, HearDeclined, Row, RowIsTrue, MadeForTheRow,
       RunHoldsLease, CertificateIsMarked, KeyIsMarked, StoredSoFar, RenewalIsMarked,
       OwnedByHand, Whole
<1>3. RequestsAreTrue'
  BY DEF IInv, TypeOK, RequestsAreTrue, OneAsks, RowIsTrue, OneLives, HearDeclined, Row
<1>4. OneLives'
  BY DEF IInv, OneLives, HearDeclined
<1>5. QED  BY <1>1, <1>2, <1>3, <1>4 DEF IInv

(* A run takes the lease of an opening to configure.                        *)
LEMMA StartProvisionKeeps ==
  ASSUME IInv, StartProvision
  PROVE  IInv'
<1>a. row.runs + 1 \in 0 .. MaxProvisions /\ row.runs + 1 # 0
  BY BoundsAssumption DEF StartProvision, IInv, TypeOK, Row
<1>b. PICK n \in 0 .. MaxProvisions :
        /\ n # 0
        /\ \/ row' = [row EXCEPT !.status = "CONFIGURATION_ERROR"] /\ UNCHANGED provisioner
           \/ /\ origin # "manual"
              /\ row' = [row EXCEPT !.runs = n, !.due = FALSE]
              /\ provisioner' = [at |-> "credentials", run |-> n]
  BY <1>a DEF StartProvision
<1>c. /\ row.status = "PROVISIONING" /\ provisioner.at = "idle"
      /\ UNCHANGED <<gateway, origin, published, efi, request, submitter, renewer, leaving, counters>>
  BY DEF StartProvision
<1>d. \/ row' = [row EXCEPT !.status = "CONFIGURATION_ERROR"] /\ provisioner'.at = "idle"
      \/ /\ origin # "manual"
         /\ row' = [row EXCEPT !.runs = n, !.due = FALSE]
         /\ provisioner'.at = "credentials" /\ provisioner'.run = n
  BY <1>b, <1>c
<1>1. TypeOK'
  <2>1. row' \in Row
    BY <1>c, <1>b DEF IInv, TypeOK, Row, Status
  <2>2. provisioner' \in Run
    BY <1>c, <1>b DEF IInv, TypeOK, Run
  <2>. QED  BY <2>1, <2>2, <1>c DEF IInv, TypeOK
<1>2. OneAsks'
  BY <1>c, <1>b, <1>d DEF IInv, TypeOK, OneAsks, Row
<1>3. RequestsAreTrue'
  BY <1>c, <1>b, <1>d DEF IInv, TypeOK, RequestsAreTrue, Row
<1>4. RowIsTrue'
  BY <1>c, <1>b, <1>d DEF IInv, TypeOK, RowIsTrue, Row
<1>5. MadeForTheRow'
  BY <1>c, <1>b, <1>d DEF IInv, TypeOK, MadeForTheRow, Row
<1>6. RunHoldsLease'
  BY <1>c, <1>b, <1>d DEF IInv, TypeOK, RunHoldsLease, RowIsTrue, Row
<1>7. CertificateIsMarked'
  BY <1>c, <1>b, <1>d DEF IInv, TypeOK, CertificateIsMarked, Row
<1>8. KeyIsMarked'
  BY <1>c, <1>b, <1>d DEF IInv, TypeOK, KeyIsMarked, Row
<1>9. StoredSoFar'
  BY <1>c, <1>b, <1>d DEF IInv, TypeOK, StoredSoFar, Row
<1>10. RenewalIsMarked'
  BY <1>c, <1>b, <1>d DEF IInv, TypeOK, RenewalIsMarked, Row
<1>11. OwnedByHand'
  BY <1>c, <1>b, <1>d DEF IInv, TypeOK, OwnedByHand, Row
<1>12. Whole'
  BY <1>c, <1>b, <1>d DEF IInv, TypeOK, Whole, Row
<1>13. OneLives'
  BY <1>c DEF IInv, OneLives
<1>14. QED  BY <1>1, <1>2, <1>3, <1>4, <1>5, <1>6, <1>7, <1>8, <1>9, <1>10, <1>11, <1>12,
               <1>13 DEF IInv

(* The credentials are stored once, under the lease.                        *)
LEMMA StoreCredentialsKeeps ==
  ASSUME IInv, StoreCredentials
  PROVE  IInv'
<1>a. \/ /\ Leased
         /\ gateway' = [gateway EXCEPT !.status = "PENDING", !.of = row.request]
         /\ \E to \in {"key", "certificate", "terminal"} :
              /\ provisioner' = [provisioner EXCEPT !.at = to]
              /\ to = "key" => gateway.certificate # "none"
              /\ to = "certificate" => gateway.certificate = "none" /\ ~row.certAsked
      \/ /\ ~Leased /\ gateway' = gateway
         /\ provisioner' = [provisioner EXCEPT !.at = "terminal"]
  BY DEF StoreCredentials, GoesTo
<1>b. /\ provisioner.at = "credentials"
      /\ UNCHANGED <<row, origin, published, efi, request, submitter, renewer, leaving, counters>>
  BY DEF StoreCredentials
<1>1. TypeOK'
  <2>1. gateway' \in Gateway
    BY <1>a, <1>b DEF IInv, TypeOK, Gateway, Row
  <2>2. provisioner' \in Run
    BY <1>a, <1>b DEF IInv, TypeOK, Run
  <2>. QED  BY <2>1, <2>2, <1>a, <1>b DEF IInv, TypeOK
<1>2. RunHoldsLease' /\ KeyIsMarked' /\ StoredSoFar' /\ RenewalIsMarked'
      /\ OwnedByHand' /\ Whole'
  BY <1>a, <1>b DEF IInv, TypeOK, RunHoldsLease, Run, KeyIsMarked, Gateway, StoredSoFar,
       RenewalIsMarked, OwnedByHand, Whole
<1>3. CertificateIsMarked'
  BY <1>a, <1>b DEF IInv, TypeOK, CertificateIsMarked, RunHoldsLease, StoredSoFar,
       MadeForTheRow, Gateway, Run, Row
<1>4. OneAsks' /\ RequestsAreTrue' /\ RowIsTrue' /\ OneLives' /\ MadeForTheRow'
  BY <1>a, <1>b DEF IInv, OneAsks, RequestsAreTrue, RowIsTrue, OneLives, MadeForTheRow
<1>5. QED  BY <1>1, <1>2, <1>3, <1>4 DEF IInv

(* The request of the certificate is marked before it is made.              *)
LEMMA MarkCertificateKeeps ==
  ASSUME IInv, MarkCertificate
  PROVE  IInv'
<1>1. TypeOK'
  BY DEF IInv, TypeOK, GoesTo, MarkCertificate, Row, Status, Run
<1>2. OneAsks' /\ RequestsAreTrue' /\ RowIsTrue' /\ MadeForTheRow' /\ RunHoldsLease'
      /\ CertificateIsMarked' /\ KeyIsMarked' /\ StoredSoFar' /\ RenewalIsMarked'
      /\ OwnedByHand' /\ Whole'
  BY DEF IInv, TypeOK, OneAsks, GoesTo, MarkCertificate, Row, RequestsAreTrue,
       RowIsTrue, MadeForTheRow, RunHoldsLease, Run, CertificateIsMarked, KeyIsMarked,
       StoredSoFar, RenewalIsMarked, OwnedByHand, Whole
<1>3. OneLives'
  BY DEF IInv, OneLives, GoesTo, MarkCertificate
<1>4. QED  BY <1>1, <1>2, <1>3 DEF IInv

(* The certificate is made by the run that marked it, once.                 *)
LEMMA MakeCertificateKeeps ==
  ASSUME IInv, MakeCertificate
  PROVE  IInv'
<1>1. TypeOK'
  <2>1. efi' \in [EfiAccount -> AtEfi]
    BY DEF IInv, TypeOK, CertificateIsMarked, RunHoldsLease, AtEfi, Row, GoesTo,
         MakeCertificate
  <2>2. provisioner' \in Run
    BY DEF IInv, TypeOK, Run, GoesTo, MakeCertificate
  <2>. QED  BY <2>1, <2>2 DEF IInv, TypeOK, GoesTo, MakeCertificate
<1>2. RequestsAreTrue' /\ RowIsTrue' /\ OneLives' /\ RunHoldsLease' /\ KeyIsMarked'
      /\ StoredSoFar' /\ RenewalIsMarked' /\ Whole'
  BY DEF IInv, TypeOK, RequestsAreTrue, GoesTo, MakeCertificate, AtEfi, RowIsTrue,
       OneLives, RunHoldsLease, Run, KeyIsMarked, StoredSoFar, RenewalIsMarked, Whole
<1>3. MadeForTheRow'
  BY DEF IInv, TypeOK, MadeForTheRow, RunHoldsLease, RenewalIsMarked, RowIsTrue, GoesTo,
       MakeCertificate, AtEfi
<1>4. CertificateIsMarked'
  BY DEF IInv, TypeOK, CertificateIsMarked, RunHoldsLease, StoredSoFar, MadeForTheRow,
       GoesTo, MakeCertificate, AtEfi, Run
<1>5. OneAsks' /\ OwnedByHand'
  BY DEF IInv, OneAsks, OwnedByHand, GoesTo, MakeCertificate
<1>6. QED  BY <1>1, <1>2, <1>3, <1>4, <1>5 DEF IInv

(* The certificate is stored by a run that holds the lease still.           *)
LEMMA SaveCertificateKeeps ==
  ASSUME IInv, SaveCertificate
  PROVE  IInv'
<1>1. TypeOK'
  BY DEF IInv, TypeOK, GoesTo, SaveCertificate, Gateway, Run, Maker
<1>2. RunHoldsLease' /\ CertificateIsMarked' /\ KeyIsMarked' /\ StoredSoFar'
      /\ RenewalIsMarked' /\ Whole'
  BY DEF IInv, TypeOK, RunHoldsLease, GoesTo, SaveCertificate, Run, CertificateIsMarked,
       Gateway, KeyIsMarked, StoredSoFar, RenewalIsMarked, Whole
<1>3. OwnedByHand'
  BY DEF IInv, TypeOK, OwnedByHand, RunHoldsLease, RenewalIsMarked, GoesTo,
       SaveCertificate, Gateway
<1>4. OneAsks' /\ RequestsAreTrue' /\ RowIsTrue' /\ OneLives' /\ MadeForTheRow'
  BY DEF IInv, OneAsks, RequestsAreTrue, RowIsTrue, OneLives, MadeForTheRow, GoesTo,
       SaveCertificate
<1>5. QED  BY <1>1, <1>2, <1>3, <1>4 DEF IInv

(* A run looks for a key, and marks the request of one before it is made.   *)
LEMMA EnsureKeyKeeps ==
  ASSUME IInv, EnsureKey
  PROVE  IInv'
<1>a. \/ /\ row' = row /\ gateway.key
         /\ provisioner' = [provisioner EXCEPT !.at = "finish"]
      \/ /\ row' = row
         /\ \E to \in {"saveKey", "terminal"} : provisioner' = [provisioner EXCEPT !.at = to]
      \/ /\ Leased /\ row.keysBefore = Nobody /\ ~gateway.key
         /\ row' = [row EXCEPT !.keysBefore = efi[row.request].keys]
         /\ provisioner' = [provisioner EXCEPT !.at = "makeKey"]
  BY DEF EnsureKey, GoesTo
<1>b. /\ provisioner.at = "key"
      /\ UNCHANGED <<gateway, origin, published, efi, request, submitter, renewer, leaving, counters>>
  BY DEF EnsureKey
<1>c. Leased /\ row.keysBefore = Nobody /\ ~gateway.key => efi[row.request].keys = 0
  BY <1>b DEF IInv, RunHoldsLease, KeyIsMarked, TypeOK, Row
<1>d. \/ row' = row
      \/ /\ row.status = "PROVISIONING" /\ row.keysBefore = Nobody
         /\ row' = [row EXCEPT !.keysBefore = 0]
  BY <1>a, <1>c
<1>1. TypeOK'
  BY <1>b, <1>d, <1>a, <1>c DEF IInv, TypeOK, Row, Run
<1>2. OneAsks' /\ RequestsAreTrue' /\ RowIsTrue' /\ MadeForTheRow' /\ RenewalIsMarked'
      /\ OwnedByHand' /\ Whole'
  BY <1>b, <1>d DEF IInv, TypeOK, OneAsks, Row, RequestsAreTrue, RowIsTrue,
       MadeForTheRow, RenewalIsMarked, OwnedByHand, Whole
<1>3. RunHoldsLease' /\ CertificateIsMarked' /\ StoredSoFar'
  BY <1>b, <1>d, <1>a, <1>c DEF IInv, TypeOK, RunHoldsLease, Row, Run,
       CertificateIsMarked, StoredSoFar
<1>4. KeyIsMarked'
  BY <1>b, <1>d, <1>a, <1>c, NobodyAssumption DEF IInv, TypeOK, KeyIsMarked, Row, Run
<1>5. OneLives'
  BY <1>b DEF IInv, OneLives
<1>6. QED  BY <1>1, <1>2, <1>3, <1>4, <1>5 DEF IInv

(* The key is made by the run that marked it, once.                         *)
LEMMA MakeKeyKeeps ==
  ASSUME IInv, MakeKey
  PROVE  IInv'
<1>1. TypeOK'
  <2>1. efi' \in [EfiAccount -> AtEfi]
    BY DEF IInv, TypeOK, KeyIsMarked, RunHoldsLease, AtEfi, Row, GoesTo, MakeKey
  <2>2. provisioner' \in Run
    BY DEF IInv, TypeOK, Run, GoesTo, MakeKey
  <2>. QED  BY <2>1, <2>2 DEF IInv, TypeOK, GoesTo, MakeKey
<1>2. RequestsAreTrue' /\ RowIsTrue' /\ OneLives' /\ RunHoldsLease'
      /\ CertificateIsMarked' /\ StoredSoFar' /\ RenewalIsMarked' /\ Whole'
  BY DEF IInv, TypeOK, RequestsAreTrue, GoesTo, MakeKey, AtEfi, RowIsTrue, OneLives,
       RunHoldsLease, Run, CertificateIsMarked, StoredSoFar, RenewalIsMarked, Whole
<1>3. MadeForTheRow'
  BY DEF IInv, TypeOK, MadeForTheRow, RunHoldsLease, RenewalIsMarked, RowIsTrue, GoesTo,
       MakeKey, AtEfi
<1>4. KeyIsMarked'
  BY DEF IInv, TypeOK, KeyIsMarked, RunHoldsLease, StoredSoFar, MadeForTheRow, GoesTo,
       MakeKey, AtEfi, Run
<1>5. OneAsks' /\ OwnedByHand'
  BY DEF IInv, OneAsks, OwnedByHand, GoesTo, MakeKey
<1>6. QED  BY <1>1, <1>2, <1>3, <1>4, <1>5 DEF IInv

(* The key is stored by a run that holds the lease still.                   *)
LEMMA SaveKeyKeeps ==
  ASSUME IInv, SaveKey
  PROVE  IInv'
<1>1. TypeOK'
  BY DEF IInv, TypeOK, GoesTo, SaveKey, Gateway, Run
<1>2. RunHoldsLease' /\ CertificateIsMarked' /\ KeyIsMarked' /\ StoredSoFar'
      /\ RenewalIsMarked' /\ OwnedByHand' /\ Whole'
  BY DEF IInv, TypeOK, RunHoldsLease, GoesTo, SaveKey, Run, CertificateIsMarked,
       Gateway, KeyIsMarked, StoredSoFar, RenewalIsMarked, OwnedByHand, Whole
<1>3. OneAsks' /\ RequestsAreTrue' /\ RowIsTrue' /\ OneLives' /\ MadeForTheRow'
  BY DEF IInv, OneAsks, RequestsAreTrue, RowIsTrue, OneLives, MadeForTheRow, GoesTo,
       SaveKey
<1>4. QED  BY <1>1, <1>2, <1>3 DEF IInv

(* The opening becomes active with everything stored and published.         *)
LEMMA FinishOpeningKeeps ==
  ASSUME IInv, FinishOpening
  PROVE  IInv'
<1>a. \/ /\ Leased /\ row.revision \notin published
         /\ row' = [row EXCEPT !.status = "ACTIVE", !.certAsked = FALSE, !.keysBefore = Nobody,
                               !.renewalOf = "none"]
         /\ gateway' = [gateway EXCEPT !.status = "ACTIVE"]
         /\ origin' = "opening"
         /\ published' = published \cup {row.revision}
         /\ provisioner' = NotProvisioning
      \/ /\ row' = row /\ gateway' = gateway /\ origin' = origin /\ published' = published
         /\ \E to \in {"fails", "terminal"} : provisioner' = [provisioner EXCEPT !.at = to]
  BY DEF FinishOpening, GoesTo
<1>b. /\ provisioner.at = "finish"
      /\ UNCHANGED <<efi, request, submitter, renewer, leaving, counters>>
  BY DEF FinishOpening
<1>c. row.revision \in 0 .. MaxRevisions /\ row.revision # 0 => row.revision \in Revision
  BY BoundsAssumption DEF Revision
<1>1. TypeOK'
  <2>1. row' \in Row
    BY <1>a, <1>b DEF IInv, TypeOK, Row, Status, Maker
  <2>2. gateway' \in Gateway
    BY <1>a, <1>b DEF IInv, TypeOK, Gateway
  <2>3. published' \subseteq Revision
    BY <1>a, <1>b, <1>c DEF IInv, TypeOK, Row, RowIsTrue
  <2>4. provisioner' \in Run
    BY <1>a, <1>b, NoRuns DEF IInv, TypeOK, Run, NotProvisioning
  <2>. QED  BY <2>1, <2>2, <2>3, <2>4, <1>a, <1>b DEF IInv, TypeOK
<1>2. OneAsks'
  BY <1>a, <1>b DEF IInv, TypeOK, OneAsks, Row
<1>3. RequestsAreTrue'
  BY <1>a, <1>b DEF IInv, TypeOK, RequestsAreTrue, Row
<1>4. RowIsTrue'
  BY <1>a, <1>b DEF IInv, TypeOK, RowIsTrue, Row
<1>5. MadeForTheRow'
  BY <1>a, <1>b DEF IInv, TypeOK, MadeForTheRow, Row
<1>6. RunHoldsLease'
  BY <1>a, <1>b DEF IInv, TypeOK, RunHoldsLease, Row, Run, NotProvisioning
<1>7. CertificateIsMarked'
  BY <1>a, <1>b DEF IInv, TypeOK, CertificateIsMarked, RunHoldsLease, StoredSoFar,
       MadeForTheRow, Row, Gateway, Run, NotProvisioning
<1>8. KeyIsMarked'
  BY <1>a, <1>b DEF IInv, TypeOK, KeyIsMarked, RunHoldsLease, StoredSoFar,
       MadeForTheRow, Row, Gateway, Run, NotProvisioning
<1>9. StoredSoFar'
  BY <1>a, <1>b DEF IInv, TypeOK, StoredSoFar, Row, Gateway, Run, NotProvisioning
<1>10. RenewalIsMarked'
  <2>1. CASE row'.status = "ACTIVE" /\ row.status = "PROVISIONING"
    <3>1. /\ row.revision \notin published /\ row'.revision = row.revision /\ row'.renewalOf = "none"
          /\ published' = published \cup {row.revision}
      BY <1>a, <2>1 DEF IInv, TypeOK, Row
    <3>2. (\A a \in EfiAccount : efi[a].renewals = 0) /\ renewer.at = "idle"
      BY <3>1 DEF IInv, RenewalIsMarked, TypeOK
    <3>4. row.revision \in 0 .. MaxRevisions /\ row.revision # 0
      BY <2>1 DEF IInv, TypeOK, Row, RowIsTrue
    <3>5. row.revision \in 1 .. row.revision
      BY <3>4
    <3>3. published' \subseteq 1 .. row.revision
      BY <3>1, <3>5 DEF IInv, RenewalIsMarked
    <3>. QED  BY <1>b, <2>1, <3>1, <3>2, <3>3 DEF RenewalIsMarked
  <2>2. CASE row' = row /\ gateway' = gateway /\ published' = published
    BY <1>b, <2>2 DEF IInv, RenewalIsMarked
  <2>. QED  BY <1>a, <2>1, <2>2 DEF IInv, TypeOK, Row
<1>11. OwnedByHand'
  BY <1>a, <1>b DEF IInv, TypeOK, OwnedByHand, RunHoldsLease, RenewalIsMarked, Row,
       Gateway
<1>12. Whole'
  <2>1. CASE row'.status = "ACTIVE" /\ row.status = "PROVISIONING"
    <3>1. /\ row.request # Nobody /\ row.request \in EfiAccount /\ efi[row.request].status = "open"
          /\ gateway.of = row.request /\ gateway.certificate # "none" /\ gateway.key
      BY <1>a, <1>b, <2>1 DEF IInv, TypeOK, Row, RowIsTrue, StoredSoFar, RunHoldsLease
    <3>2. /\ row'.request = row.request /\ row'.revision = row.revision
          /\ row.revision \in published' /\ gateway' = [gateway EXCEPT !.status = "ACTIVE"]
      BY <1>a, <2>1 DEF IInv, TypeOK, Row
    <3>. QED  BY <1>b, <3>1, <3>2 DEF Whole, IInv, TypeOK, Gateway
  <2>2. CASE row' = row /\ gateway' = gateway /\ published' = published /\ origin' = origin
    BY <1>b, <2>2 DEF IInv, Whole
  <2>. QED  BY <1>a, <2>1, <2>2 DEF IInv, TypeOK, Row
<1>13. OneLives'
  BY <1>a, <1>b DEF IInv, OneLives
<1>14. QED  BY <1>1, <1>2, <1>3, <1>4, <1>5, <1>6, <1>7, <1>8, <1>9, <1>10, <1>11, <1>12,
               <1>13 DEF IInv

(* A step that fails leaves what was marked as marked.                      *)
LEMMA StepBreaksKeeps ==
  ASSUME IInv, StepBreaks
  PROVE  IInv'
<1>1. TypeOK'
  BY DEF IInv, TypeOK, GoesTo, StepBreaks, Run
<1>2. RunHoldsLease' /\ CertificateIsMarked' /\ KeyIsMarked' /\ StoredSoFar'
  BY DEF IInv, TypeOK, RunHoldsLease, GoesTo, StepBreaks, Run, CertificateIsMarked,
       KeyIsMarked, StoredSoFar
<1>3. OneAsks' /\ RequestsAreTrue' /\ RowIsTrue' /\ OneLives' /\ MadeForTheRow'
      /\ RenewalIsMarked' /\ OwnedByHand' /\ Whole'
  BY DEF IInv, OneAsks, RequestsAreTrue, RowIsTrue, OneLives, MadeForTheRow,
       RenewalIsMarked, OwnedByHand, Whole, GoesTo, StepBreaks
<1>4. QED  BY <1>1, <1>2, <1>3 DEF IInv

(* A run that fails gives up its own lease only.                            *)
LEMMA ProvisionFailsKeeps ==
  ASSUME IInv, ProvisionFails
  PROVE  IInv'
<1>1. TypeOK'
  BY NoRuns DEF IInv, TypeOK, NotProvisioning, ProvisionFails, Row, Status, Run
<1>2. OneAsks' /\ RequestsAreTrue' /\ RowIsTrue' /\ MadeForTheRow' /\ RunHoldsLease'
      /\ CertificateIsMarked' /\ KeyIsMarked' /\ StoredSoFar' /\ RenewalIsMarked'
      /\ OwnedByHand' /\ Whole'
  BY DEF IInv, TypeOK, OneAsks, NotProvisioning, ProvisionFails, Row, RequestsAreTrue,
       RowIsTrue, MadeForTheRow, RunHoldsLease, Run, CertificateIsMarked, KeyIsMarked,
       StoredSoFar, RenewalIsMarked, OwnedByHand, Whole
<1>3. OneLives'
  BY DEF IInv, OneLives, NotProvisioning, ProvisionFails
<1>4. QED  BY <1>1, <1>2, <1>3 DEF IInv

(* After the last run the opening waits for the administrator.              *)
LEMMA ExhaustedKeeps ==
  ASSUME IInv, Exhausted
  PROVE  IInv'
<1>1. TypeOK'
  BY DEF IInv, TypeOK, Exhausted, Row, Status
<1>2. OneAsks' /\ RequestsAreTrue' /\ RowIsTrue' /\ MadeForTheRow' /\ RunHoldsLease'
      /\ CertificateIsMarked' /\ KeyIsMarked' /\ StoredSoFar' /\ RenewalIsMarked'
      /\ OwnedByHand' /\ Whole'
  BY DEF IInv, TypeOK, OneAsks, Exhausted, Row, RequestsAreTrue, RowIsTrue,
       MadeForTheRow, RunHoldsLease, CertificateIsMarked, KeyIsMarked, StoredSoFar,
       RenewalIsMarked, OwnedByHand, Whole
<1>3. OneLives'
  BY DEF IInv, OneLives, Exhausted
<1>4. QED  BY <1>1, <1>2, <1>3 DEF IInv

(* One renewal per certificate is claimed, of the certificate in use.       *)
LEMMA ClaimRenewalKeeps ==
  ASSUME IInv, ClaimRenewal
  PROVE  IInv'
<1>1. TypeOK'
  BY DEF IInv, TypeOK, ClaimRenewal, Row, Maker, Gateway
<1>2. OneAsks' /\ RequestsAreTrue' /\ RowIsTrue' /\ MadeForTheRow' /\ RunHoldsLease'
      /\ CertificateIsMarked' /\ KeyIsMarked' /\ StoredSoFar' /\ RenewalIsMarked'
      /\ OwnedByHand' /\ Whole'
  BY DEF IInv, TypeOK, OneAsks, ClaimRenewal, Row, RequestsAreTrue, RowIsTrue,
       MadeForTheRow, RunHoldsLease, CertificateIsMarked, KeyIsMarked, StoredSoFar,
       RenewalIsMarked, OwnedByHand, Whole
<1>3. OneLives'
  BY DEF IInv, OneLives, ClaimRenewal
<1>4. QED  BY <1>1, <1>2, <1>3 DEF IInv

(* The renewal claimed is asked for, once.                                  *)
LEMMA PostRenewalKeeps ==
  ASSUME IInv, PostRenewal
  PROVE  IInv'
<1>1. TypeOK'
  <2>1. efi' \in [EfiAccount -> AtEfi]
    BY DEF IInv, TypeOK, RenewalIsMarked, AtEfi, Row, NotRenewing, PostRenewal
  <2>2. renewer' \in [at : {"idle", "post", "save"}, had : Maker]
    BY DEF IInv, TypeOK, Maker, NotRenewing, PostRenewal
  <2>. QED  BY <2>1, <2>2 DEF IInv, TypeOK, NotRenewing, PostRenewal
<1>2. RequestsAreTrue' /\ RowIsTrue' /\ OneLives' /\ CertificateIsMarked'
      /\ KeyIsMarked' /\ RenewalIsMarked' /\ Whole'
  BY DEF IInv, TypeOK, RequestsAreTrue, NotRenewing, PostRenewal, AtEfi, RowIsTrue,
       OneLives, CertificateIsMarked, KeyIsMarked, RenewalIsMarked, Whole
<1>3. MadeForTheRow'
  BY DEF IInv, TypeOK, MadeForTheRow, RunHoldsLease, RenewalIsMarked, RowIsTrue,
       NotRenewing, PostRenewal, AtEfi
<1>4. OneAsks' /\ RunHoldsLease' /\ StoredSoFar' /\ OwnedByHand'
  BY DEF IInv, OneAsks, RunHoldsLease, StoredSoFar, OwnedByHand, NotRenewing,
       PostRenewal
<1>5. QED  BY <1>1, <1>2, <1>3, <1>4 DEF IInv

(* The new certificate is stored unless another took its place.             *)
LEMMA SaveRenewalKeeps ==
  ASSUME IInv, SaveRenewal
  PROVE  IInv'
<1>1. TypeOK'
  BY DEF IInv, TypeOK, NotRenewing, SaveRenewal, Gateway, Maker
<1>2. CertificateIsMarked' /\ KeyIsMarked' /\ StoredSoFar' /\ RenewalIsMarked'
      /\ Whole'
  BY DEF IInv, TypeOK, CertificateIsMarked, NotRenewing, SaveRenewal, Gateway,
       KeyIsMarked, StoredSoFar, RenewalIsMarked, Whole
<1>3. OwnedByHand'
  BY DEF IInv, TypeOK, OwnedByHand, RunHoldsLease, RenewalIsMarked, NotRenewing,
       SaveRenewal, Gateway
<1>4. OneAsks' /\ RequestsAreTrue' /\ RowIsTrue' /\ OneLives' /\ MadeForTheRow'
      /\ RunHoldsLease'
  BY DEF IInv, OneAsks, RequestsAreTrue, RowIsTrue, OneLives, MadeForTheRow,
       RunHoldsLease, NotRenewing, SaveRenewal
<1>5. QED  BY <1>1, <1>2, <1>3, <1>4 DEF IInv

(* A retry starts from what was stored and marked.                          *)
LEMMA RetryKeeps ==
  ASSUME IInv, Retry
  PROVE  IInv'
<1>1. TypeOK'
  <2>1. row' \in Row
    BY NoRuns DEF IInv, TypeOK, Row, Status, Intervenes, Retry
  <2>2. retries' \in 0 .. MaxRetries
    BY BoundsAssumption DEF IInv, TypeOK, Intervenes, Retry
  <2>. QED  BY <2>1, <2>2 DEF IInv, TypeOK, Intervenes, Retry
<1>2. OneAsks' /\ RequestsAreTrue' /\ RowIsTrue' /\ MadeForTheRow' /\ RunHoldsLease'
      /\ RenewalIsMarked' /\ OwnedByHand' /\ Whole'
  BY DEF IInv, TypeOK, OneAsks, Intervenes, Retry, Row, RequestsAreTrue, RowIsTrue,
       MadeForTheRow, RunHoldsLease, RenewalIsMarked, OwnedByHand, Whole
<1>3. CertificateIsMarked'
  BY DEF IInv, TypeOK, CertificateIsMarked, RunHoldsLease, StoredSoFar, MadeForTheRow,
       Intervenes, Retry, Row
<1>4. KeyIsMarked'
  BY DEF IInv, TypeOK, KeyIsMarked, RunHoldsLease, StoredSoFar, MadeForTheRow,
       Intervenes, Retry, Row
<1>5. StoredSoFar'
  BY DEF IInv, TypeOK, StoredSoFar, RunHoldsLease, RowIsTrue, Intervenes, Retry, Row
<1>6. OneLives'
  BY DEF IInv, OneLives, Intervenes, Retry
<1>7. QED  BY <1>1, <1>2, <1>3, <1>4, <1>5, <1>6 DEF IInv

(* What the administrator stores by hand counts as marked.                  *)
LEMMA ByHandKeeps ==
  ASSUME IInv, NEW a \in EfiAccount, NEW certificate \in BOOLEAN, ByHand(a, certificate)
  PROVE  IInv'
<1>1. TypeOK'
  <2>1. row' \in Row
    BY DEF IInv, TypeOK, Row, Status, Intervenes, ByHand
  <2>2. gateway' \in Gateway
    BY DEF IInv, TypeOK, Gateway, Maker, Intervenes, ByHand
  <2>3. retries' \in 0 .. MaxRetries
    BY BoundsAssumption DEF IInv, TypeOK, Intervenes, ByHand
  <2>. QED  BY <2>1, <2>2, <2>3 DEF IInv, TypeOK, Intervenes, ByHand
<1>2. OneAsks' /\ RequestsAreTrue' /\ RowIsTrue' /\ RunHoldsLease' /\ StoredSoFar'
      /\ RenewalIsMarked' /\ OwnedByHand' /\ Whole'
  BY DEF IInv, TypeOK, OneAsks, Intervenes, ByHand, Row, RequestsAreTrue, RowIsTrue,
       RunHoldsLease, StoredSoFar, Gateway, RenewalIsMarked, OwnedByHand, Whole
<1>3. MadeForTheRow'
  BY NobodyIsNone DEF IInv, TypeOK, MadeForTheRow, Intervenes, ByHand, Row
<1>4. CertificateIsMarked'
  BY DEF IInv, TypeOK, CertificateIsMarked, RunHoldsLease, StoredSoFar, MadeForTheRow,
       Intervenes, ByHand, Row, Gateway
<1>5. KeyIsMarked'
  BY DEF IInv, TypeOK, KeyIsMarked, RunHoldsLease, StoredSoFar, MadeForTheRow,
       Intervenes, ByHand, Row, Gateway
<1>6. OneLives'
  BY DEF IInv, OneLives, Intervenes, ByHand
<1>7. QED  BY <1>1, <1>2, <1>3, <1>4, <1>5, <1>6 DEF IInv

(* An opening closed for a manual profile keeps what Efi has.               *)
LEMMA CloseForManualKeeps ==
  ASSUME IInv, CloseForManual
  PROVE  IInv'
<1>1. TypeOK'
  BY DEF IInv, TypeOK, InFlight, CloseForManual, Row, Status
<1>2. OneAsks' /\ RequestsAreTrue' /\ RowIsTrue' /\ MadeForTheRow' /\ RunHoldsLease'
      /\ CertificateIsMarked' /\ KeyIsMarked' /\ StoredSoFar' /\ RenewalIsMarked'
      /\ OwnedByHand' /\ Whole'
  BY DEF IInv, TypeOK, OneAsks, InFlight, CloseForManual, Row, RequestsAreTrue,
       RowIsTrue, MadeForTheRow, RunHoldsLease, CertificateIsMarked, KeyIsMarked,
       StoredSoFar, RenewalIsMarked, OwnedByHand, Whole
<1>3. OneLives'
  BY DEF IInv, OneLives, InFlight, CloseForManual
<1>4. QED  BY <1>1, <1>2, <1>3 DEF IInv

(* A profile made by hand takes the gateway account over.                   *)
LEMMA ActivateByHandKeeps ==
  ASSUME IInv, ActivateByHand
  PROVE  IInv'
<1>1. TypeOK'
  BY DEF IInv, TypeOK, InFlight, ActivateByHand, Gateway, Maker
<1>2. CertificateIsMarked' /\ KeyIsMarked' /\ StoredSoFar' /\ RenewalIsMarked'
      /\ OwnedByHand' /\ Whole'
  BY DEF IInv, TypeOK, CertificateIsMarked, InFlight, ActivateByHand, Gateway,
       KeyIsMarked, StoredSoFar, RenewalIsMarked, OwnedByHand, Whole
<1>3. OneAsks' /\ RequestsAreTrue' /\ RowIsTrue' /\ OneLives' /\ MadeForTheRow'
      /\ RunHoldsLease'
  BY DEF IInv, OneAsks, RequestsAreTrue, RowIsTrue, OneLives, MadeForTheRow,
       RunHoldsLease, InFlight, ActivateByHand
<1>4. QED  BY <1>1, <1>2, <1>3 DEF IInv

(* A disconnection looks at the profile before its transaction.             *)
LEMMA CheckDisconnectKeeps ==
  ASSUME IInv, CheckDisconnect
  PROVE  IInv'
<1>1. TypeOK'
  BY DEF IInv, TypeOK, CheckDisconnect
<1>2. OneAsks' /\ RequestsAreTrue' /\ RowIsTrue' /\ OneLives' /\ MadeForTheRow'
      /\ RunHoldsLease' /\ CertificateIsMarked' /\ KeyIsMarked' /\ StoredSoFar'
      /\ RenewalIsMarked' /\ OwnedByHand' /\ Whole'
  BY DEF IInv, OneAsks, RequestsAreTrue, RowIsTrue, OneLives, MadeForTheRow,
       RunHoldsLease, CertificateIsMarked, KeyIsMarked, StoredSoFar, RenewalIsMarked,
       OwnedByHand, Whole, CheckDisconnect
<1>3. QED  BY <1>1, <1>2 DEF IInv

(* A disconnection disables the gateway account and ends the row.           *)
LEMMA DisconnectKeeps ==
  ASSUME IInv, Disconnect
  PROVE  IInv'
<1>1. TypeOK'
  <2>1. row' \in Row
    BY DEF IInv, TypeOK, Row, Status, Wiped, NoGateway, Disconnect
  <2>2. gateway' \in Gateway
    BY DEF IInv, TypeOK, Gateway, Maker, Wiped, NoGateway, Disconnect
  <2>. QED  BY <2>1, <2>2 DEF IInv, TypeOK, Wiped, NoGateway, Disconnect
<1>2. OneAsks' /\ RequestsAreTrue' /\ RowIsTrue' /\ MadeForTheRow' /\ RunHoldsLease'
      /\ CertificateIsMarked' /\ KeyIsMarked' /\ StoredSoFar' /\ RenewalIsMarked'
      /\ OwnedByHand' /\ Whole'
  BY DEF IInv, TypeOK, OneAsks, Wiped, NoGateway, Disconnect, Row, RequestsAreTrue, RowIsTrue,
       MadeForTheRow, RunHoldsLease, CertificateIsMarked, Gateway, KeyIsMarked, StoredSoFar,
       RenewalIsMarked, OwnedByHand, Whole
<1>3. OneLives'
  BY DEF IInv, OneLives, Wiped, NoGateway, Disconnect
<1>4. QED  BY <1>1, <1>2, <1>3 DEF IInv

(* What waited too long is due again.                                       *)
LEMMA RowDueKeeps ==
  ASSUME IInv, RowDue
  PROVE  IInv'
<1>1. TypeOK'
  BY DEF IInv, TypeOK, RowDue, Row
<1>2. OneAsks' /\ RequestsAreTrue' /\ RowIsTrue' /\ MadeForTheRow' /\ RunHoldsLease'
      /\ CertificateIsMarked' /\ KeyIsMarked' /\ StoredSoFar' /\ RenewalIsMarked'
      /\ OwnedByHand' /\ Whole'
  BY DEF IInv, TypeOK, OneAsks, RowDue, Row, RequestsAreTrue, RowIsTrue, MadeForTheRow,
       RunHoldsLease, CertificateIsMarked, KeyIsMarked, StoredSoFar, RenewalIsMarked,
       OwnedByHand, Whole
<1>3. OneLives'
  BY DEF IInv, OneLives, RowDue
<1>4. QED  BY <1>1, <1>2, <1>3 DEF IInv

(* A process that stops leaves the row as it is.                            *)
LEMMA HaltKeeps ==
  ASSUME IInv, Halt
  PROVE  IInv'
<1>a. submitter' = submitter \/ \E w \in Submitter : Submits(w, NotSubmitting)
  BY DEF Halt
<1>b. provisioner' = provisioner \/ provisioner' = NotProvisioning
  BY DEF Halt
<1>c. renewer' = renewer \/ renewer' = NotRenewing
  BY DEF Halt
<1>d. halts' \in 0 .. MaxHalts
  BY BoundsAssumption DEF Halt, Halts, IInv, TypeOK
<1>e. UNCHANGED <<retries, database, efi, request, leaving>>
  BY DEF Halt, Halts
<1>1. TypeOK'
  <2>1. submitter' \in [Submitter -> Submitting]
    BY <1>e, <1>a, SubmitsOne, RestsTyped DEF IInv, TypeOK
  <2>2. provisioner' \in Run
    BY <1>e, <1>b, NoRuns DEF IInv, TypeOK, Run, NotProvisioning
  <2>3. renewer' \in [at : {"idle", "post", "save"}, had : Maker]
    BY <1>e, <1>c DEF IInv, TypeOK, NotRenewing, Maker
  <2>. QED  BY <2>1, <2>2, <2>3, <1>e, <1>d DEF IInv, TypeOK
<1>2. OneAsks' /\ RequestsAreTrue'
  BY <1>e, <1>a DEF IInv, TypeOK, OneAsks, NotSubmitting, NotProvisioning, NotRenewing,
       Submits, RequestsAreTrue
<1>3. RunHoldsLease' /\ CertificateIsMarked' /\ KeyIsMarked' /\ StoredSoFar'
  BY <1>e, <1>b DEF IInv, TypeOK, RunHoldsLease, NotSubmitting, NotProvisioning,
       NotRenewing, CertificateIsMarked, KeyIsMarked, StoredSoFar
<1>4. RenewalIsMarked'
  BY <1>e, <1>c DEF IInv, TypeOK, RenewalIsMarked, NotSubmitting, NotProvisioning,
       NotRenewing
<1>5. RowIsTrue' /\ OneLives' /\ MadeForTheRow' /\ OwnedByHand' /\ Whole'
  BY <1>e DEF IInv, RowIsTrue, OneLives, MadeForTheRow, OwnedByHand, Whole,
       NotSubmitting, NotProvisioning, NotRenewing
<1>6. QED  BY <1>1, <1>2, <1>3, <1>4, <1>5 DEF IInv

-----------------------------------------------------------------------------
(* The initial states satisfy the inductive invariant.                      *)
LEMMA InitKeeps == Init => IInv
<1>. SUFFICES ASSUME Init PROVE IInv
  OBVIOUS
<1>1. TypeOK
  <2>1. row \in Row /\ gateway \in Gateway
    BY BoundsAssumption, NoRuns DEF Init, NoRow, Row, Status, Maker, NoGateway, Gateway
  <2>2. efi \in [EfiAccount -> AtEfi] /\ submitter \in [Submitter -> Submitting]
    BY RestsTyped DEF Init, AtEfi
  <2>3. provisioner \in Run /\ renewer \in [at : {"idle", "post", "save"}, had : Maker]
    BY NoRuns DEF Init, NotProvisioning, Run, NotRenewing, Maker
  <2>4. request \in 0 .. MaxRevisions /\ halts \in 0 .. MaxHalts /\ retries \in 0 .. MaxRetries
    BY BoundsAssumption DEF Init
  <2>. QED  BY <2>1, <2>2, <2>3, <2>4 DEF Init, TypeOK
<1>2. OneAsks /\ RequestsAreTrue /\ RowIsTrue /\ OneLives
  BY DEF Init, OneAsks, RequestsAreTrue, RowIsTrue, OneLives, NoRow, NotSubmitting
<1>3. MadeForTheRow /\ RunHoldsLease /\ CertificateIsMarked /\ KeyIsMarked /\ StoredSoFar
  BY DEF Init, MadeForTheRow, RunHoldsLease, CertificateIsMarked, KeyIsMarked, StoredSoFar,
     NoRow, NotProvisioning
<1>4. RenewalIsMarked /\ OwnedByHand /\ Whole
  BY DEF Init, RenewalIsMarked, OwnedByHand, Whole, NoRow, NoGateway, NotRenewing
<1>. QED  BY <1>1, <1>2, <1>3, <1>4 DEF IInv

(* Every step preserves it.                                                 *)
LEMMA StepKeeps == IInv /\ [Next]_vars => IInv'
<1>. SUFFICES ASSUME IInv, [Next]_vars PROVE IInv'
  OBVIOUS
<1>1. CASE UNCHANGED vars
  BY <1>1 DEF vars, IInv, TypeOK, OneAsks, RequestsAreTrue, RowIsTrue, OneLives, MadeForTheRow,
     RunHoldsLease, CertificateIsMarked, KeyIsMarked, StoredSoFar, RenewalIsMarked,
     OwnedByHand, Whole
<1>2. CASE (\E consent \in BOOLEAN : SaveDraft(consent)) \/ CheckSubmit \/ Submit
  BY <1>2, SaveDraftKeeps, CheckSubmitKeeps, SubmitKeeps
<1>3. ASSUME NEW w \in Submitter, Submission(w) PROVE IInv'
  BY <1>3, StartSubmitKeeps, DataExpiredKeeps, ClaimNoticeKeeps, NoticeAcceptedKeeps,
     NoticeFailsKeeps, ClaimRequestKeeps, PostAccountKeeps, RecordRequestKeeps DEF Submission
<1>4. CASE (\E a \in EfiAccount, to \in {"processing", "open", "declined"} : EfiMoves(a, to))
             \/ HearOpened \/ HearProcessing \/ HearDeclined
  BY <1>4, EfiMovesKeeps, HearOpenedKeeps, HearProcessingKeeps, HearDeclinedKeeps
<1>5. CASE Provisioning \/ Exhausted
  BY <1>5, StartProvisionKeeps, StoreCredentialsKeeps, MarkCertificateKeeps,
     MakeCertificateKeeps, SaveCertificateKeeps, EnsureKeyKeeps, MakeKeyKeeps, SaveKeyKeeps,
     FinishOpeningKeeps, StepBreaksKeeps, ProvisionFailsKeeps, ExhaustedKeeps DEF Provisioning
<1>6. CASE ClaimRenewal \/ PostRenewal \/ SaveRenewal
  BY <1>6, ClaimRenewalKeeps, PostRenewalKeeps, SaveRenewalKeeps
<1>7. CASE Administering
  BY <1>7, RetryKeeps, CloseForManualKeeps, ActivateByHandKeeps, CheckDisconnectKeeps,
     DisconnectKeeps, ByHandKeeps DEF Administering
<1>8. CASE RowDue \/ Halt
  BY <1>8, RowDueKeeps, HaltKeeps
<1>. QED  BY <1>1, <1>2, <1>3, <1>4, <1>5, <1>6, <1>7, <1>8 DEF Next

THEOREM Invariant == Spec => []IInv
BY InitKeeps, StepKeeps, PTL DEF Spec

-----------------------------------------------------------------------------
(* The rows, the accounts at Efi and the runs keep to the schema and to the *)
(* steps the code has; no account is given two certificates, keys or        *)
(* renewals.                                                                *)
THEOREM TypeCorrect == Spec => []TypeOK
<1>1. IInv => TypeOK
  BY DEF IInv
<1>. QED  BY <1>1, Invariant, PTL

(* What Efi does not undo is done once: however many submissions overlap    *)
(* and whatever stops, is lost or is tried again, a company has at most one *)
(* account at Efi that was not declined, with one certificate, one renewal  *)
(* and one key; and an active opening has all of them, of one account.      *)
THEOREM EverythingMadeOnce == Spec => []OpenedOnce
<1>1. IInv => OpenedOnce
  <2>. SUFFICES ASSUME IInv PROVE NeverTwice /\ Whole
    BY DEF OpenedOnce
  <2> DEFINE L == {a \in EfiAccount : efi[a].status \in {"waiting", "processing", "open"}}
  <2>1. \A a, b \in L : a = b
    BY DEF IInv, OneLives
  <2>2. Cardinality(L) <= 1
    <3>1. CASE L = {}
      BY <3>1, FS_EmptySet
    <3>2. CASE L # {}
      <4>1. PICK a \in L : TRUE
        BY <3>2
      <4>2. L = {a}
        BY <2>1, <4>1
      <4>3. Cardinality(L) = 1
        BY <4>2, FS_Singleton, Zenon
      <4>. QED  BY <4>3
    <3>. QED  BY <3>1, <3>2
  <2>3. \A a \in EfiAccount :
          efi[a].certificates <= 1 /\ efi[a].keys <= 1 /\ efi[a].renewals <= 1
    BY DEF IInv, TypeOK, AtEfi
  <2>. QED  BY <2>2, <2>3 DEF IInv, NeverTwice
<1>. QED  BY <1>1, Invariant, PTL

(* A run under way stores nothing once the company disconnected or a        *)
(* profile made by hand owns its money.                                     *)
LEMMA NoLease ==
  ASSUME IInv, row.status = "DISCONNECTED" \/ origin = "manual", ~At("idle")
  PROVE  ~Leased
BY DEF IInv, RunHoldsLease, OwnedByHand

(* Nor does a renewal: the certificate in use is not the one it replaces.   *)
LEMMA NoRenewal ==
  ASSUME IInv, row.status = "DISCONNECTED" \/ origin = "manual", renewer.at = "save"
  PROVE  ~(gateway.status = "ACTIVE" /\ gateway.certificate = renewer.had)
BY DEF IInv, OwnedByHand, RenewalIsMarked

(* A step of what is over.                                                  *)
LEMMA StepOfTheOver ==
  ASSUME IInv, Next
  PROVE  /\ row.status = "DISCONNECTED" =>
              /\ row'.status = "DISCONNECTED"
              /\ gateway' \in {gateway, Wiped} \/ (origin # "manual" /\ origin' = "manual")
         /\ origin = "manual" =>
              /\ origin' = "manual"
              /\ gateway' = gateway \/ (leaving /\ gateway' = Wiped) \/ retries' > retries
<1> DEFINE Over ==
      /\ row.status = "DISCONNECTED" =>
           /\ row'.status = "DISCONNECTED"
           /\ gateway' \in {gateway, Wiped} \/ (origin # "manual" /\ origin' = "manual")
      /\ origin = "manual" =>
           /\ origin' = "manual"
           /\ gateway' = gateway \/ (leaving /\ gateway' = Wiped) \/ retries' > retries
<1>1. CASE (\E consent \in BOOLEAN : SaveDraft(consent)) \/ CheckSubmit \/ Submit
  BY <1>1 DEF SaveDraft, CheckSubmit, Submit, Editable
<1>2. ASSUME NEW w \in Submitter, Submission(w) PROVE Over
  <2>1. gateway' = gateway /\ origin' = origin
    BY <1>2 DEF Submission, StartSubmit, DataExpired, ClaimNotice, NoticeAccepted, NoticeFails,
       ClaimRequest, PostAccount, RecordRequest
  <2>2. row.status = "DISCONNECTED" => row' = row
    BY <1>2 DEF Submission, StartSubmit, DataExpired, ClaimNotice, NoticeAccepted, NoticeFails,
       ClaimRequest, PostAccount, RecordRequest, Fails
  <2>. QED  BY <2>1, <2>2
<1>3. CASE (\E a \in EfiAccount, to \in {"processing", "open", "declined"} : EfiMoves(a, to))
             \/ HearOpened \/ HearProcessing \/ HearDeclined
  BY <1>3 DEF EfiMoves, HearOpened, HearProcessing, HearDeclined
<1>4. CASE Provisioning
  <2>1. CASE StartProvision \/ MarkCertificate \/ MakeCertificate \/ EnsureKey \/ MakeKey
               \/ StepBreaks \/ ProvisionFails
    BY <2>1 DEF StartProvision, MarkCertificate, MakeCertificate, EnsureKey, MakeKey, StepBreaks,
       ProvisionFails
  <2>2. CASE StoreCredentials \/ SaveCertificate \/ SaveKey \/ FinishOpening
    <3>1. ~At("idle")
      BY <2>2 DEF StoreCredentials, SaveCertificate, SaveKey, FinishOpening
    <3>2. ~Leased => row' = row /\ gateway' = gateway /\ origin' = origin
      BY <2>2 DEF StoreCredentials, SaveCertificate, SaveKey, FinishOpening
    <3>3. row.status = "DISCONNECTED" \/ origin = "manual" => ~Leased
      BY <3>1, NoLease
    <3>. QED  BY <3>2, <3>3
  <2>. QED  BY <1>4, <2>1, <2>2 DEF Provisioning
<1>5. CASE Exhausted \/ ClaimRenewal \/ PostRenewal
  BY <1>5 DEF Exhausted, ClaimRenewal, PostRenewal
<1>6. CASE SaveRenewal
  BY <1>6, NoRenewal DEF SaveRenewal
<1>7. CASE Retry \/ CloseForManual \/ CheckDisconnect \/ RowDue \/ Halt
  BY <1>7 DEF Retry, CloseForManual, CheckDisconnect, RowDue, Halt, Halts, Intervenes, IInv, TypeOK, Row
<1>8. CASE ActivateByHand
  BY <1>8 DEF ActivateByHand
<1>10. ASSUME NEW a \in EfiAccount, NEW certificate \in BOOLEAN, ByHand(a, certificate) PROVE Over
  <2>1. retries \in Nat
    BY BoundsAssumption DEF IInv, TypeOK
  <2>. QED  BY <1>10, <2>1 DEF ByHand, Intervenes
<1>9. CASE Disconnect
  BY <1>9 DEF Disconnect, Wiped, NoGateway, IInv, TypeOK, Row
<1>. QED  BY <1>1, <1>2, <1>3, <1>4, <1>5, <1>6, <1>7, <1>8, <1>9, <1>10 DEF Next, Administering

(* A company that disconnected stays so, and neither its row, its profile   *)
(* nor its gateway account are brought back by a run, a retry or a renewal  *)
(* that was under way; a profile made by hand is never replaced by one.     *)
THEOREM OverForGood == Spec => OpeningIsOver
<1>1. IInv /\ [Next]_vars =>
        [/\ row.status = "DISCONNECTED" =>
              /\ row'.status = "DISCONNECTED"
              /\ gateway' \in {gateway, Wiped} \/ (origin # "manual" /\ origin' = "manual")
         /\ origin = "manual" =>
              /\ origin' = "manual"
              /\ gateway' = gateway \/ (leaving /\ gateway' = Wiped) \/ retries' > retries]_vars
  BY StepOfTheOver
<1>. QED  BY <1>1, Invariant, PTL DEF OpeningIsOver, Spec


-----------------------------------------------------------------------------
(***************************************************************************)
(* The profiles of a company.                                              *)
(***************************************************************************)
Going(k) == attempt[k].status \in {"PENDING", "RUNNING"}
\* The attempt is of its version as it is now.
Current(k) == attempt[k].revision = profile[attempt[k].of].revision

(* A version names a credential of its account, and an open one a candidate.*)
Credited ==
  \A v \in P!Version :
    /\ profile[v].status = "ABSENT" => profile[v].credential = None
    /\ profile[v].credential # None =>
         /\ credential[profile[v].credential].status \notin {"ABSENT", "UNRECORDED"}
         /\ credential[profile[v].credential].account = profile[v].account
    /\ v \in P!OpenVersions /\ profile[v].credential # None =>
         credential[profile[v].credential].status = "CANDIDATE"

(* An attempt is of a version with credentials, of this revision or an      *)
(* earlier one; the version waits for it as long as it is of this one.      *)
Asked ==
  \A k \in P!Attempt : attempt[k].status # "ABSENT" =>
    /\ attempt[k].of \in P!Version /\ profile[attempt[k].of].credential # None
    /\ attempt[k].revision <= profile[attempt[k].of].revision
    /\ Current(k) => attempt[k].credential = profile[attempt[k].of].credential
    /\ Going(k) /\ Current(k) => profile[attempt[k].of].status \in {"VALIDATING", "CANCELED"}

OneWaits ==
  \A k, j \in P!Attempt :
    Going(k) /\ Going(j) /\ attempt[k].of = attempt[j].of /\ Current(k) /\ Current(j) => k = j

(* A run works on an attempt, and one that found the version moved on is of *)
(* an attempt that is no longer current.                                    *)
RunsWork ==
  \A w \in Runner :
    /\ runner[w].at = "idle" => runner[w].on = None
    /\ runner[w].at # "idle" => runner[w].on \in P!Attempt /\ attempt[runner[w].on].status # "ABSENT"
    /\ runner[w].at = "finish" => runner[w].result # "none"
    /\ runner[w].at = "finish" /\ runner[w].result = "CANCELED" /\ Going(runner[w].on)
         /\ Current(runner[w].on) => profile[attempt[runner[w].on].of].status = "CANCELED"

(* Runs beyond the number allowed were stopped or overtaken.                *)
Counted ==
  \A k \in P!Attempt :
    /\ attempt[k].status = "PENDING" => attempt[k].runs < MaxRuns
    /\ attempt[k].status = "RUNNING" =>
         attempt[k].runs + (IF attempt[k].due \/ ~P!Works(k) THEN 1 ELSE 0) <= MaxRuns + overruns

Attested == \A v \in P!Version : profile[v].status \in {"VALIDATING", "READY"} => profile[v].attested

(* IssuesWithOne, in terms of the rows it speaks of.                        *)
Issuing ==
  /\ \A v \in P!Version : (profile[v].status = "ACTIVE") <=> (v = active)
  /\ \A u, v \in P!OpenVersions : u = v
  /\ active # None =>
       \E u \in P!Credential : \A c \in P!Credential :
         (credential[c].status = "ACTIVE" /\ credential[c].account = profile[active].account) <=> (c = u)
  /\ \A c \in P!Credential : credential[c].status = "CANDIDATE" =>
       \E v \in P!OpenVersions : profile[v].credential = c

(* What the gateway account holds: see IssuesWithOne.                       *)
Held ==
  /\ account # None =>
       \/ credential[account].status = "UNRECORDED"
       \/ /\ credential[account].status = "ACTIVE"
          /\ active # None /\ credential[account].account = profile[active].account
  /\ account = None /\ active # None => opening.left

\* A renewal is of an opening in force.
Renewing == opening.at # "idle" => active # None

ProfileInv ==
  /\ P!TypeOK
  /\ Credited
  /\ Asked
  /\ OneWaits
  /\ RunsWork
  /\ Counted
  /\ Attested
  /\ Issuing
  /\ Held
  /\ Renewing
  /\ P!ValidatedAsItIs

(* What the rows range over.                                                *)
Profiles ==
  [status : P!ProfileStatus, origin : {"MANUAL_ADMIN", "AUTOMATIC_OPENING"},
   revision : 0 .. MaxEdits, account : Account \cup {None},
   credential : P!Credential \cup {None}, attested : BOOLEAN, hash : P!Hash \cup {None}]
Credentials == [status : P!CredentialStatus, account : Account \cup {None}]
Attempts ==
  [status : P!AttemptStatus, of : P!Version \cup {None}, revision : 0 .. MaxEdits,
   credential : P!Credential \cup {None}, runs : 0 .. MaxRuns + MaxOverruns, due : BOOLEAN,
   hash : P!Hash \cup {None}, fee : 0 .. MaxFees, fresh : BOOLEAN]
Runs ==
  [at : {"idle", "profile", "steps", "hash", "promote", "finish"},
   on : P!Attempt \cup {None}, run : 0 .. MaxRuns + MaxOverruns,
   result : {"none", "CANCELED", "FAILED"}, fee : 0 .. MaxFees, hash : P!Hash \cup {None}]
Openings ==
  [left : BOOLEAN, leaving : BOOLEAN, at : {"idle", "post", "sync"}, had : P!Credential \cup {None}]

LEMMA ProfileTypes ==
  P!TypeOK <=>
    /\ profile \in [P!Version -> Profiles] /\ credential \in [P!Credential -> Credentials]
    /\ active \in P!Version \cup {None} /\ account \in P!Credential \cup {None}
    /\ opening \in Openings
    /\ fee \in 0 .. MaxFees /\ attempt \in [P!Attempt -> Attempts]
    /\ runner \in [Runner -> Runs] /\ overruns \in 0 .. MaxOverruns
BY DEF P!TypeOK, Profiles, Credentials, Attempts, Runs, Openings

LEMMA TypedNext ==
  ASSUME profile' \in [P!Version -> Profiles], credential' \in [P!Credential -> Credentials],
         active' \in P!Version \cup {None}, account' \in P!Credential \cup {None},
         opening' \in Openings, fee' \in 0 .. MaxFees, attempt' \in [P!Attempt -> Attempts],
         runner' \in [Runner -> Runs], overruns' \in 0 .. MaxOverruns
  PROVE  P!TypeOK'
BY DEF P!TypeOK, Profiles, Credentials, Attempts, Runs, Openings

LEMMA NoneIsNothing ==
  /\ None \notin P!Version /\ None \notin P!Credential /\ None \notin P!Attempt
  /\ {MaxVersions, MaxEdits, MaxFees, MaxUploads, MaxAttempts, MaxOverruns} \subseteq Nat
  /\ MaxRuns \in Nat \ {0}
BY ActivationAssumption DEF P!Version, P!Credential, P!Attempt

LEMMA ProfileTyped ==
  ASSUME ProfileInv
  PROVE  /\ profile \in [P!Version -> Profiles] /\ credential \in [P!Credential -> Credentials]
         /\ active \in P!Version \cup {None} /\ account \in P!Credential \cup {None}
         /\ opening \in Openings
         /\ fee \in 0 .. MaxFees /\ attempt \in [P!Attempt -> Attempts]
         /\ runner \in [Runner -> Runs] /\ overruns \in 0 .. MaxOverruns
         /\ \A v \in P!Version : /\ profile[v] \in Profiles /\ profile[v].revision \in 0 .. MaxEdits
                                 /\ profile[v].credential \in P!Credential \cup {None}
         /\ \A c \in P!Credential : credential[c] \in Credentials
         /\ \A k \in P!Attempt : /\ attempt[k] \in Attempts /\ attempt[k].revision \in 0 .. MaxEdits
                                 /\ attempt[k].runs \in 0 .. MaxRuns + MaxOverruns
                                 /\ attempt[k].due \in BOOLEAN
         /\ \A w \in Runner : /\ runner[w] \in Runs /\ runner[w].run \in 0 .. MaxRuns + MaxOverruns
                              /\ runner[w].on \in P!Attempt \cup {None}
BY ProfileTypes DEF ProfileInv, Profiles, Attempts, Runs

LEMMA Finitely == IsFiniteSet(P!Version)
BY NoneIsNothing, FS_Interval DEF P!Version

LEMMA SameNumber == ASSUME NEW S PROVE P!Cardinality(S) = Cardinality(S)
BY DEF P!Cardinality, Cardinality

LEMMA IssuingIs == ProfileInv => P!IssuesWithOne
<1>. SUFFICES ASSUME ProfileInv PROVE P!IssuesWithOne
  OBVIOUS
<1>1. {v \in P!Version : profile[v].status = "ACTIVE"} = {active} \ {None}
  BY ProfileTyped, NoneIsNothing DEF ProfileInv, Issuing
<1>2. Cardinality(P!OpenVersions) <= 1
  <2>1. CASE P!OpenVersions = {}
    BY <2>1, FS_EmptySet
  <2>2. ASSUME NEW v \in P!OpenVersions PROVE Cardinality(P!OpenVersions) <= 1
    <3>1. P!OpenVersions = {v}
      BY <2>2 DEF ProfileInv, Issuing
    <3>. QED  BY <3>1, FS_Singleton
  <2>. QED  BY <2>1, <2>2
<1>3. active # None =>
        \E u \in P!Credential :
          {c \in P!Credential : /\ credential[c].status = "ACTIVE"
                                /\ credential[c].account = profile[active].account} = {u}
  BY DEF ProfileInv, Issuing
<1>7. /\ account # None =>
           \/ credential[account].status = "UNRECORDED"
           \/ /\ credential[account].status = "ACTIVE"
              /\ active # None /\ credential[account].account = profile[active].account
      /\ account = None /\ active # None => opening.left
  BY DEF ProfileInv, Held
<1>4. \A v \in P!OpenVersions : profile[v].credential # None =>
        credential[profile[v].credential].status = "CANDIDATE"
  BY DEF ProfileInv, Credited, P!OpenVersions
<1>5. \A c \in P!Credential : credential[c].status = "CANDIDATE" =>
        \E v \in P!OpenVersions : profile[v].credential = c
  BY DEF ProfileInv, Issuing
<1>6. P!Cardinality(P!OpenVersions) <= 1
  BY Zenon, <1>2, SameNumber
<1>. QED  BY Zenon, <1>1, <1>3, <1>4, <1>5, <1>6, <1>7 DEF P!IssuesWithOne

(* Who works on an attempt owns it.                                         *)
LEMMA WorksIs ==
  ASSUME NEW k \in P!Attempt, attempt[k].status = "RUNNING", P!Works(k)
  PROVE  \E w \in Runner : runner[w].on = k /\ P!Owns(w)
BY DEF P!Works, P!Owns

(* A step of a run that changes neither versions nor attempts: it goes on   *)
(* with its attempt, or leaves it and is not the one that owns it.          *)
LEMMA RunMoves ==
  ASSUME ProfileInv, NEW w \in Runner, NEW r \in Runs, runner' = [runner EXCEPT ![w] = r],
         UNCHANGED <<profile, credential, active, account, opening, fee, attempt>>,
         overruns' \in 0 .. MaxOverruns, overruns' \in {overruns, overruns + 1},
         \/ r.at = "idle" /\ r.on = None /\ (P!Owns(w) => overruns' = overruns + 1)
         \/ /\ r.at # "idle" /\ runner[w].at # "idle"
            /\ r.on = runner[w].on /\ r.run = runner[w].run,
         r.at = "finish" =>
           /\ r.result # "none"
           /\ r.result = "CANCELED" /\ Going(r.on) /\ Current(r.on) =>
                profile[attempt[r.on].of].status = "CANCELED"
  PROVE  ProfileInv'
<1>1. runner' \in [Runner -> Runs] /\ \A x \in Runner : runner'[x] = IF x = w THEN r ELSE runner[x]
  BY ProfileTyped
<1>2. P!TypeOK'
  BY <1>1, ProfileTyped, TypedNext
<1>3. RunsWork'
  BY <1>1 DEF ProfileInv, RunsWork, Going, Current
<1>4. Counted'
  <2>. SUFFICES ASSUME NEW k \in P!Attempt, attempt[k].status = "RUNNING"
                PROVE  attempt[k].runs + (IF attempt[k].due \/ ~P!Works(k)' THEN 1 ELSE 0)
                         <= MaxRuns + overruns'
    BY DEF ProfileInv, Counted
  <2>1. attempt[k].runs \in Nat /\ overruns \in Nat /\ overruns' \in Nat /\ MaxRuns \in Nat
    BY ProfileTyped, NoneIsNothing
  <2>2. attempt[k].runs + (IF attempt[k].due \/ ~P!Works(k) THEN 1 ELSE 0) <= MaxRuns + overruns
    BY DEF ProfileInv, Counted
  <2>3. CASE P!Works(k)'
    <3>1. CASE P!Works(k)
      BY <2>1, <2>2, <2>3, <3>1
    <3>2. CASE ~P!Works(k)
      BY <2>1, <2>2, <2>3, <3>2
    <3>. QED  BY <3>1, <3>2
  <2>4. CASE ~P!Works(k)' /\ ~P!Works(k)
    BY <2>1, <2>2, <2>4
  <2>5. CASE ~P!Works(k)' /\ P!Works(k)
    <3>1. PICK x \in Runner : runner[x].on = k /\ P!Owns(x) /\ runner[x].run = attempt[k].runs
      BY <2>5 DEF P!Works, P!Owns
    <3>2. x = w
      BY <1>1, <2>5, <3>1 DEF P!Works
    <3>3. overruns' = overruns + 1
      BY <1>1, <2>5, <3>1, <3>2 DEF P!Works
    <3>. QED  BY <2>1, <2>2, <3>3
  <2>. QED  BY <2>3, <2>4, <2>5
<1>. QED  BY <1>2, <1>3, <1>4
          DEF ProfileInv, Credited, Asked, OneWaits, Attested, Issuing, Held, Renewing, P!OpenVersions, P!ValidatedAsItIs,
              Going, Current

LEMMA EndedIs ==
  ASSUME NEW k \in P!Attempt, attempt[k] \in Attempts,
         NEW s \in {"SUCCEEDED", "FAILED", "CANCELED"}, NEW h \in P!Hash \cup {None}, NEW f \in 0 .. MaxFees
  PROVE  /\ P!Ended(k, s, h, f) \in Attempts
         /\ P!Ended(k, s, h, f).status = s /\ P!Ended(k, s, h, f).of = attempt[k].of
         /\ P!Ended(k, s, h, f).revision = attempt[k].revision
         /\ P!Ended(k, s, h, f).credential = attempt[k].credential /\ P!Ended(k, s, h, f).hash = h
<1>1. 0 \in 0 .. MaxRuns + MaxOverruns
  BY NoneIsNothing
<1>2. (s = "SUCCEEDED") \in BOOLEAN
  OBVIOUS
<1>3. s \in P!AttemptStatus
  BY DEF P!AttemptStatus
<1>. QED  BY <1>1, <1>2, <1>3 DEF P!Ended, Attempts

LEMMA IdleIs == P!Idle \in Runs /\ P!Idle.at = "idle" /\ P!Idle.on = None
BY NoneIsNothing DEF P!Idle, Runs

LEMMA ReadProfileKeeps == ASSUME ProfileInv, NEW w \in Runner, P!ReadProfile(w) PROVE ProfileInv'
<1>. DEFINE k == runner[w].on
            p == profile[attempt[k].of]
            passes == [runner[w] EXCEPT !.at = "steps"]
            stale == [runner[w] EXCEPT !.at = "finish", !.result = "CANCELED"]
<1>1. /\ runner[w].at = "profile" /\ UNCHANGED <<profile, credential, active, account, opening, fee, attempt, overruns>>
      /\ \/ runner' = [runner EXCEPT ![w] = passes]
         \/ /\ runner' = [runner EXCEPT ![w] = stale]
            /\ ~(/\ p.status = "VALIDATING" /\ p.revision = attempt[k].revision
                 /\ p.credential = attempt[k].credential)
  BY DEF P!ReadProfile, P!Does, P!books
<1>2. runner[w] \in Runs /\ k \in P!Attempt /\ attempt[k].status # "ABSENT"
  BY <1>1, ProfileTyped DEF ProfileInv, RunsWork
<1>3. /\ passes \in Runs /\ passes.at = "steps" /\ passes.on = k /\ passes.run = runner[w].run
      /\ stale \in Runs /\ stale.at = "finish" /\ stale.result = "CANCELED"
      /\ stale.on = k /\ stale.run = runner[w].run
  BY <1>2 DEF Runs
<1>. HIDE DEF passes, stale
<1>4. CASE runner' = [runner EXCEPT ![w] = passes]
  BY <1>1, <1>3, <1>4, RunMoves, ProfileTyped
<1>5. CASE /\ runner' = [runner EXCEPT ![w] = stale]
           /\ ~(/\ p.status = "VALIDATING" /\ p.revision = attempt[k].revision
                /\ p.credential = attempt[k].credential)
  <2>1. Going(k) /\ Current(k) => p.status = "CANCELED"
    BY <1>2, <1>5 DEF ProfileInv, Asked, Current
  <2>. QED  BY <1>1, <1>3, <1>5, <2>1, RunMoves, ProfileTyped
<1>. QED  BY <1>1, <1>4, <1>5

LEMMA StopKeeps == ASSUME ProfileInv, NEW w \in Runner, P!Stop(w) PROVE ProfileInv'
<1>1. /\ overruns' = overruns + 1 /\ overruns < MaxOverruns
      /\ runner' = [runner EXCEPT ![w] = P!Idle]
      /\ UNCHANGED <<profile, credential, active, account, opening, fee, attempt>>
  BY DEF P!Stop, P!Does, P!books
<1>2. overruns' \in 0 .. MaxOverruns
  BY <1>1, ProfileTyped, NoneIsNothing
<1>. QED  BY <1>1, <1>2, IdleIs, RunMoves

LEMMA StepsPassKeeps == ASSUME ProfileInv, NEW w \in Runner, P!StepsPass(w) PROVE ProfileInv'
<1>. DEFINE r == [runner[w] EXCEPT !.at = "hash", !.fee = fee]
<1>1. /\ runner[w].at = "steps"
      /\ UNCHANGED <<profile, credential, active, account, opening, fee, attempt, overruns>>
      /\ \/ runner' = [runner EXCEPT ![w] = r]
         \/ runner' = [runner EXCEPT ![w] = P!Idle] /\ ~P!Owns(w)
  BY DEF P!StepsPass, P!Does, P!books
<1>2. runner[w] \in Runs /\ fee \in 0 .. MaxFees
  BY ProfileTyped
<1>3. r \in Runs /\ r.at = "hash" /\ r.on = runner[w].on /\ r.run = runner[w].run
  BY <1>2 DEF Runs
<1>. HIDE DEF r
<1>. QED  BY <1>1, <1>3, IdleIs, RunMoves, ProfileTyped

LEMMA ComputeHashKeeps == ASSUME ProfileInv, NEW w \in Runner, P!ComputeHash(w) PROVE ProfileInv'
<1>. DEFINE h == P!HashOf(attempt[runner[w].on].of)
            r == [runner[w] EXCEPT !.at = "promote", !.hash = h]
<1>1. /\ runner[w].at = "hash"
      /\ UNCHANGED <<profile, credential, active, account, opening, fee, attempt, overruns>>
      /\ runner' = [runner EXCEPT ![w] = r]
  BY DEF P!ComputeHash, P!Does, P!books
<1>2. attempt[runner[w].on].of \in P!Version /\ profile[attempt[runner[w].on].of].credential # None
  BY <1>1 DEF ProfileInv, RunsWork, Asked
<1>3. h \in P!Hash
  BY <1>2, ProfileTyped DEF P!HashOf, P!Hash
<1>4. runner[w] \in Runs
  BY ProfileTyped
<1>. HIDE DEF h
<1>5. r \in Runs /\ r.at = "promote" /\ r.on = runner[w].on /\ r.run = runner[w].run
  BY <1>3, <1>4 DEF Runs
<1>. HIDE DEF r
<1>. QED  BY <1>1, <1>5, RunMoves, ProfileTyped

(* The end of an attempt by the run that owns it, with its version or not.  *)
LEMMA EndMoves ==
  ASSUME ProfileInv, NEW w \in Runner, P!Owns(w), runner[w].at # "idle",
         NEW s \in {"SUCCEEDED", "FAILED", "CANCELED"}, NEW h \in P!Hash \cup {None}, NEW f \in 0 .. MaxFees,
         attempt' = [attempt EXCEPT ![runner[w].on] = P!Ended(runner[w].on, s, h, f)],
         NEW b \in Profiles,
         \/ profile' = profile
         \/ /\ profile' = [profile EXCEPT ![attempt[runner[w].on].of] = b]
            /\ profile[attempt[runner[w].on].of].status = "VALIDATING"
            /\ \/ b.status = "VALIDATION_FAILED"
               \/ b.status = "READY" /\ s = "SUCCEEDED" /\ b.hash = h,
         profile' = profile /\ Current(runner[w].on) =>
           profile[attempt[runner[w].on].of].status # "VALIDATING",
         profile' # profile =>
           /\ Current(runner[w].on)
           /\ b.revision = profile[attempt[runner[w].on].of].revision
           /\ b.credential = profile[attempt[runner[w].on].of].credential
           /\ b.account = profile[attempt[runner[w].on].of].account
           /\ b.attested = profile[attempt[runner[w].on].of].attested,
         runner' = [runner EXCEPT ![w] = P!Idle],
         UNCHANGED <<credential, active, account, opening, fee, overruns>>
  PROVE  ProfileInv'
<1>. DEFINE k == runner[w].on
            v == attempt[k].of
            a == P!Ended(k, s, h, f)
<1>1. k \in P!Attempt /\ attempt[k].status = "RUNNING" /\ v \in P!Version /\ attempt[k] \in Attempts
  BY ProfileTyped DEF ProfileInv, RunsWork, Asked, P!Owns
<1>2. /\ a \in Attempts /\ a.status = s /\ a.of = v /\ a.revision = attempt[k].revision
      /\ a.credential = attempt[k].credential /\ a.hash = h
  BY <1>1, EndedIs
<1>. HIDE DEF a
<1>3. /\ attempt' \in [P!Attempt -> Attempts]
      /\ \A j \in P!Attempt : attempt'[j] = IF j = k THEN a ELSE attempt[j]
  BY <1>1, <1>2, ProfileTyped DEF a
<1>4. /\ runner' \in [Runner -> Runs]
      /\ \A x \in Runner : runner'[x] = IF x = w THEN P!Idle ELSE runner[x]
  BY IdleIs, ProfileTyped
<1>5. /\ profile' \in [P!Version -> Profiles]
      /\ \A u \in P!Version : /\ u # v => profile'[u] = profile[u]
                              /\ profile'[u].revision = profile[u].revision
                              /\ profile'[u].credential = profile[u].credential
                              /\ profile'[u].account = profile[u].account
                              /\ profile'[u].attested = profile[u].attested
  BY <1>1, ProfileTyped
<1>6. \/ profile' = profile
      \/ /\ profile[v].status = "VALIDATING" /\ Current(k)
         /\ \/ profile'[v].status = "VALIDATION_FAILED"
            \/ profile'[v].status = "READY" /\ s = "SUCCEEDED" /\ profile'[v].hash = h
  BY <1>1, ProfileTyped
<1>. HIDE DEF k, v
<1>7. P!TypeOK'
  BY <1>3, <1>4, <1>5, ProfileTyped, TypedNext
<1>8. P!OpenVersions' = P!OpenVersions
  BY <1>1, <1>5, <1>6 DEF P!OpenVersions, P!Open
<1>9. Credited'
  BY <1>5, <1>6, <1>8 DEF ProfileInv, Credited
<1>10. \A j \in P!Attempt :
         /\ attempt'[j].of = attempt[j].of /\ attempt'[j].revision = attempt[j].revision
         /\ attempt'[j].credential = attempt[j].credential
         /\ (attempt'[j].status = "ABSENT") <=> (attempt[j].status = "ABSENT")
         /\ Going(j)' <=> (Going(j) /\ j # k)
  BY <1>1, <1>2, <1>3 DEF Going, v
<1>11. \A j \in P!Attempt : attempt[j].status # "ABSENT" => (Current(j)' <=> Current(j))
  BY <1>5, <1>10 DEF ProfileInv, Asked, Current
<1>12. Going(k) /\ \A j \in P!Attempt : Going(j) => attempt[j].status # "ABSENT"
  BY <1>1 DEF Going
<1>13. OneWaits'
  BY <1>10, <1>11, <1>12 DEF ProfileInv, OneWaits
<1>14. Asked'
  <2>. SUFFICES ASSUME NEW j \in P!Attempt, attempt[j].status # "ABSENT"
                PROVE  /\ attempt[j].of \in P!Version /\ profile'[attempt[j].of].credential # None
                       /\ attempt[j].revision <= profile'[attempt[j].of].revision
                       /\ Current(j)' => attempt[j].credential = profile'[attempt[j].of].credential
                       /\ Going(j)' /\ Current(j)' =>
                            profile'[attempt[j].of].status \in {"VALIDATING", "CANCELED"}
    BY <1>10 DEF Asked
  <2>1. /\ attempt[j].of \in P!Version /\ profile[attempt[j].of].credential # None
        /\ attempt[j].revision <= profile[attempt[j].of].revision
        /\ Current(j) => attempt[j].credential = profile[attempt[j].of].credential
        /\ Going(j) /\ Current(j) => profile[attempt[j].of].status \in {"VALIDATING", "CANCELED"}
    BY DEF ProfileInv, Asked
  <2>2. ASSUME Going(j)', Current(j)' PROVE profile'[attempt[j].of].status = profile[attempt[j].of].status
    <3>1. Going(j) /\ j # k /\ Current(j)
      BY <1>10, <1>11, <2>2
    <3>2. CASE attempt[j].of # v
      BY <1>5, <2>1, <3>2
    <3>3. CASE attempt[j].of = v /\ Current(k)
      BY <1>1, <1>12, <3>1, <3>3 DEF ProfileInv, OneWaits, v
    <3>4. CASE attempt[j].of = v /\ ~Current(k)
      BY <1>6, <3>4
    <3>. QED  BY <3>2, <3>3, <3>4
  <2>. QED  BY <1>5, <1>10, <1>11, <2>1, <2>2
<1>15. RunsWork'
  <2>1. \A j \in P!Attempt : Going(j)' /\ Current(j)' /\ profile[attempt[j].of].status = "CANCELED" =>
          profile'[attempt[j].of].status = "CANCELED"
    BY <1>5, <1>6, <1>10, <1>12 DEF ProfileInv, Asked
  <2>. QED  BY <1>4, <1>10, <1>11, <1>12, <2>1, IdleIs, NoneIsNothing DEF ProfileInv, RunsWork
<1>16. Counted'
  <2>. SUFFICES ASSUME NEW j \in P!Attempt
                PROVE  /\ attempt'[j].status = "PENDING" => attempt'[j].runs < MaxRuns
                       /\ attempt'[j].status = "RUNNING" =>
                            attempt'[j].runs + (IF attempt'[j].due \/ ~P!Works(j)' THEN 1 ELSE 0)
                              <= MaxRuns + overruns
    BY DEF Counted
  <2>1. CASE j = k
    BY <1>2, <1>3, <2>1
  <2>2. CASE j # k
    <3>1. attempt'[j] = attempt[j]
      BY <1>3, <2>2
    <3>2. P!Works(j) => P!Works(j)'
      BY <1>4, <2>2, <3>1 DEF P!Works, k
    <3>3. P!Works(j)' => P!Works(j)
      BY <1>4, <2>2, <3>1, IdleIs, NoneIsNothing DEF P!Works
    <3>. QED  BY <3>1, <3>2, <3>3 DEF ProfileInv, Counted
  <2>. QED  BY <2>1, <2>2
<1>17. Attested'
  BY <1>1, <1>5, <1>6 DEF ProfileInv, Attested
<1>a. Held' /\ Renewing'
  <2>1. active # None => profile'[active].account = profile[active].account
    BY <1>1, <1>5, <1>6, ProfileTyped
  <2>. QED  BY <2>1, ProfileTyped DEF ProfileInv, Held, Renewing
<1>18. Issuing'
  <2>1. \A u \in P!Version : (profile'[u].status = "ACTIVE") <=> (profile[u].status = "ACTIVE")
    BY <1>1, <1>5, <1>6
  <2>2. active # None => active \in P!Version
    BY ProfileTyped
  <2>. QED  BY <1>5, <1>8, <2>1, <2>2 DEF ProfileInv, Issuing, P!OpenVersions
<1>19. P!ValidatedAsItIs'
  <2>. SUFFICES ASSUME NEW u \in P!Version
                PROVE  /\ profile'[u].status = "VALIDATING" =>
                            \E j \in P!Attempt :
                              /\ attempt'[j].of = u /\ attempt'[j].revision = profile'[u].revision
                              /\ attempt'[j].status \in {"PENDING", "RUNNING"}
                       /\ profile'[u].status = "READY" =>
                            \E j \in P!Attempt :
                              /\ attempt'[j].of = u /\ attempt'[j].revision = profile'[u].revision
                              /\ attempt'[j].status = "SUCCEEDED" /\ attempt'[j].hash = profile'[u].hash
    BY DEF P!ValidatedAsItIs
  <2>1. CASE profile'[u].status = "VALIDATING"
    <3>1. profile[u].status = "VALIDATING" /\ (u = v => profile' = profile)
      BY <1>5, <1>6, <2>1
    <3>2. PICK j \in P!Attempt : /\ attempt[j].of = u /\ attempt[j].revision = profile[u].revision
                                 /\ attempt[j].status \in {"PENDING", "RUNNING"}
      BY <3>1 DEF ProfileInv, P!ValidatedAsItIs
    <3>3. j # k
      BY <3>1, <3>2 DEF Current, k, v
    <3>. QED  BY <1>3, <1>5, <2>1, <3>2, <3>3
  <2>2. CASE profile'[u].status = "READY" /\ profile'[u] = profile[u]
    <3>1. PICK j \in P!Attempt : /\ attempt[j].of = u /\ attempt[j].revision = profile[u].revision
                                 /\ attempt[j].status = "SUCCEEDED" /\ attempt[j].hash = profile[u].hash
      BY <2>2 DEF ProfileInv, P!ValidatedAsItIs
    <3>2. j # k
      BY <1>1, <3>1
    <3>. QED  BY <1>3, <2>2, <3>1, <3>2
  <2>3. CASE profile'[u].status = "READY" /\ profile'[u] # profile[u]
    <3>1. /\ u = v /\ Current(k) /\ s = "SUCCEEDED" /\ profile'[v].hash = h
          /\ profile'[v].revision = profile[v].revision
      BY <1>5, <1>6, <2>3
    <3>. QED  BY <1>1, <1>2, <1>3, <2>3, <3>1 DEF Current, v
  <2>. QED  BY <2>1, <2>2, <2>3
<1>. QED  BY <1>7, <1>9, <1>13, <1>14, <1>15, <1>16, <1>17, <1>18, <1>19, <1>a DEF ProfileInv

(* Where the number of runs is what matters: another attempt is worked on   *)
(* as before.                                                               *)
LEMMA FinishKeeps == ASSUME ProfileInv, NEW w \in Runner, P!Finish(w) PROVE ProfileInv'
<1>. DEFINE k == runner[w].on
            v == attempt[k].of
            b == [profile[v] EXCEPT !.status = "VALIDATION_FAILED"]
<1>1. /\ runner[w].at = "finish" /\ runner' = [runner EXCEPT ![w] = P!Idle]
      /\ UNCHANGED <<credential, active, account, opening, fee, overruns>>
  BY DEF P!Finish, P!Does
<1>2. CASE ~P!Owns(w)
  <2>1. UNCHANGED <<attempt, profile>>
    BY <1>2 DEF P!Finish
  <2>. QED  BY <1>1, <1>2, <2>1, IdleIs, RunMoves, ProfileTyped
<1>3. CASE P!Owns(w)
  <2>1. /\ attempt' = [attempt EXCEPT ![k] = P!Ended(k, runner[w].result, None, 0)]
        /\ \/ /\ runner[w].result = "FAILED" /\ profile[v].status = "VALIDATING" /\ Current(k)
              /\ profile' = [profile EXCEPT ![v].status = "VALIDATION_FAILED"]
           \/ /\ profile' = profile
              /\ ~(/\ runner[w].result = "FAILED"
                   /\ profile[v].status = "VALIDATING" /\ profile[v].revision = attempt[k].revision)
    BY <1>3 DEF P!Finish, Current
  <2>2. /\ k \in P!Attempt /\ attempt[k].status = "RUNNING" /\ v \in P!Version
        /\ runner[w].result \in {"FAILED", "CANCELED"} /\ profile[v] \in Profiles
    BY <1>1, <1>3, ProfileTyped DEF ProfileInv, RunsWork, Asked, P!Owns, Runs
  <2>3. profile' = profile /\ Current(k) => profile[v].status # "VALIDATING"
    <3>1. Going(k)
      BY <2>2 DEF Going
    <3>2. ASSUME profile' = profile, Current(k), profile[v].status = "VALIDATING" PROVE FALSE
      <4>1. CASE runner[w].result = "FAILED"
        BY <2>1, <2>2, <3>2, <4>1, ProfileTyped DEF Current, Profiles
      <4>2. CASE runner[w].result = "CANCELED"
        BY <1>1, <2>2, <3>1, <3>2, <4>2 DEF ProfileInv, RunsWork
      <4>. QED  BY <2>2, <4>1, <4>2
    <3>. QED  BY <3>2
  <2>4. /\ b \in Profiles /\ b.status = "VALIDATION_FAILED" /\ b.revision = profile[v].revision
        /\ b.credential = profile[v].credential /\ b.account = profile[v].account
        /\ b.attested = profile[v].attested
    BY <2>2 DEF Profiles, P!ProfileStatus
  <2>5. \/ profile' = profile
        \/ /\ profile' = [profile EXCEPT ![v] = b] /\ profile[v].status = "VALIDATING" /\ Current(k)
    BY <2>1
  <2>6. 0 \in 0 .. MaxFees
    BY NoneIsNothing
  <2>. HIDE DEF b, v, k
  <2>. QED  BY <1>1, <1>3, <2>1, <2>2, <2>3, <2>4, <2>5, <2>6, EndMoves DEF k, v
<1>. QED  BY <1>2, <1>3

LEMMA PromoteKeeps == ASSUME ProfileInv, NEW w \in Runner, P!Promote(w) PROVE ProfileInv'
<1>. DEFINE k == runner[w].on
            v == attempt[k].of
            h == runner[w].hash
            b == [profile[v] EXCEPT !.status = "READY", !.hash = h]
<1>1. /\ runner[w].at = "promote" /\ runner' = [runner EXCEPT ![w] = P!Idle]
      /\ UNCHANGED <<credential, active, account, opening, fee, overruns>>
  BY DEF P!Promote, P!Does
<1>2. CASE ~P!Owns(w)
  <2>1. UNCHANGED <<attempt, profile>>
    BY <1>2 DEF P!Promote
  <2>. QED  BY <1>1, <1>2, <2>1, IdleIs, RunMoves, ProfileTyped
<1>3. CASE P!Owns(w)
  <2>1. /\ k \in P!Attempt /\ attempt[k].status = "RUNNING" /\ v \in P!Version
        /\ profile[v] \in Profiles /\ h \in P!Hash \cup {None} /\ runner[w].fee \in 0 .. MaxFees
    BY <1>1, <1>3, ProfileTyped DEF ProfileInv, RunsWork, Asked, P!Owns, Runs
  <2>2. CASE P!Unchanged(k)
    <3>1. /\ profile[v].status = "VALIDATING" /\ Current(k)
          /\ profile' = [profile EXCEPT ![v] = b]
          /\ attempt' = [attempt EXCEPT ![k] = P!Ended(k, "SUCCEEDED", h, runner[w].fee)]
      BY <1>3, <2>2 DEF P!Promote, P!Unchanged, Current
    <3>2. /\ b \in Profiles /\ b.status = "READY" /\ b.revision = profile[v].revision
          /\ b.credential = profile[v].credential /\ b.account = profile[v].account
          /\ b.attested = profile[v].attested /\ b.hash = h
      BY <2>1 DEF Profiles, P!ProfileStatus
    <3>3. profile'[v] = b
      BY <2>1, <3>1, ProfileTyped
    <3>4. profile' # profile
      BY <3>1, <3>2, <3>3
    <3>. HIDE DEF b, v, k, h
    <3>. QED  BY <1>1, <1>3, <2>1, <3>1, <3>2, <3>4, EndMoves DEF k, v
  <2>3. CASE ~P!Unchanged(k)
    <3>1. /\ profile' = profile /\ ~(Current(k) /\ profile[v].status = "VALIDATING")
          /\ attempt' = [attempt EXCEPT ![k] = P!Ended(k, "CANCELED", None, runner[w].fee)]
      BY <1>3, <2>3 DEF P!Promote, P!Unchanged, Current
    <3>. HIDE DEF b, v, k, h
    <3>. QED  BY <1>1, <1>3, <2>1, <3>1, EndMoves DEF k, v
  <2>. QED  BY <2>2, <2>3
<1>. QED  BY <1>2, <1>3

(* Steps that change attempts only in what runs and time do to them: when   *)
(* they are due, how often they ran, whether they hold.                     *)
LEMMA AttemptMoves ==
  ASSUME ProfileInv, NEW k \in P!Attempt, NEW a \in Attempts, attempt' = [attempt EXCEPT ![k] = a],
         a.of = attempt[k].of, a.revision = attempt[k].revision,
         a.credential = attempt[k].credential, a.hash = attempt[k].hash,
         \/ a.status = attempt[k].status
         \/ {a.status, attempt[k].status} \subseteq {"PENDING", "RUNNING"},
         runner' \in [Runner -> Runs], overruns' \in 0 .. MaxOverruns, overruns' >= overruns,
         UNCHANGED <<profile, credential, active, account, opening>>, fee' \in 0 .. MaxFees,
         RunsWork',
         \A j \in P!Attempt \ {k} : attempt[j].status = "RUNNING" /\ P!Works(j) => P!Works(j)',
         a.status = "PENDING" => a.runs < MaxRuns,
         a.status = "RUNNING" =>
           a.runs + (IF a.due \/ ~P!Works(k)' THEN 1 ELSE 0) <= MaxRuns + overruns'
  PROVE  ProfileInv'
<1>1. /\ attempt' \in [P!Attempt -> Attempts]
      /\ \A j \in P!Attempt : attempt'[j] = IF j = k THEN a ELSE attempt[j]
  BY ProfileTyped
<1>2. \A j \in P!Attempt :
        /\ attempt'[j].of = attempt[j].of /\ attempt'[j].revision = attempt[j].revision
        /\ attempt'[j].credential = attempt[j].credential /\ attempt'[j].hash = attempt[j].hash
        /\ \/ attempt'[j].status = attempt[j].status
           \/ {attempt'[j].status, attempt[j].status} \subseteq {"PENDING", "RUNNING"}
  BY <1>1
<1>3. P!TypeOK'
  BY <1>1, ProfileTyped, TypedNext
<1>4. \A j \in P!Attempt : /\ Going(j)' <=> Going(j)
                           /\ Current(j)' <=> Current(j)
                           /\ (attempt'[j].status = "ABSENT") <=> (attempt[j].status = "ABSENT")
                           /\ (attempt'[j].status = "SUCCEEDED") <=> (attempt[j].status = "SUCCEEDED")
  BY <1>2 DEF Going, Current
<1>5. Asked' /\ OneWaits'
  BY <1>2, <1>4 DEF ProfileInv, Asked, OneWaits
<1>6. Counted'
  <2>. SUFFICES ASSUME NEW j \in P!Attempt
                PROVE  /\ attempt'[j].status = "PENDING" => attempt'[j].runs < MaxRuns
                       /\ attempt'[j].status = "RUNNING" =>
                            attempt'[j].runs + (IF attempt'[j].due \/ ~P!Works(j)' THEN 1 ELSE 0)
                              <= MaxRuns + overruns'
    BY DEF Counted
  <2>1. CASE j = k
    BY <1>1, <2>1
  <2>2. CASE j # k
    <3>1. attempt'[j] = attempt[j]
      BY <1>1, <2>2
    <3>2. /\ attempt[j].status = "PENDING" => attempt[j].runs < MaxRuns
          /\ attempt[j].status = "RUNNING" =>
               attempt[j].runs + (IF attempt[j].due \/ ~P!Works(j) THEN 1 ELSE 0) <= MaxRuns + overruns
      BY DEF ProfileInv, Counted
    <3>3. attempt[j].runs \in Nat /\ MaxRuns \in Nat /\ overruns \in Nat /\ overruns' \in Nat
      BY ProfileTyped, NoneIsNothing
    <3>4. attempt[j].status = "RUNNING" /\ P!Works(j) => P!Works(j)'
      BY <2>2
    <3>5. CASE P!Works(j)'
      BY <3>1, <3>2, <3>3, <3>5
    <3>6. CASE ~P!Works(j)'
      BY <3>1, <3>2, <3>3, <3>4, <3>6
    <3>. QED  BY <3>5, <3>6
  <2>. QED  BY <2>1, <2>2
<1>7. Credited' /\ Attested' /\ Issuing' /\ Held' /\ Renewing'
  BY DEF ProfileInv, Credited, Attested, Issuing, Held, Renewing, P!OpenVersions
<1>8. P!ValidatedAsItIs'
  <2>1. \A u \in P!Version : profile[u].status = "VALIDATING" =>
          \E j \in P!Attempt : /\ attempt'[j].of = u /\ attempt'[j].revision = profile[u].revision
                               /\ attempt'[j].status \in {"PENDING", "RUNNING"}
    BY <1>2, <1>4 DEF ProfileInv, P!ValidatedAsItIs, Going
  <2>2. \A u \in P!Version : profile[u].status = "READY" =>
          \E j \in P!Attempt : /\ attempt'[j].of = u /\ attempt'[j].revision = profile[u].revision
                               /\ attempt'[j].status = "SUCCEEDED" /\ attempt'[j].hash = profile[u].hash
    BY <1>2, <1>4 DEF ProfileInv, P!ValidatedAsItIs
  <2>. QED  BY <2>1, <2>2 DEF P!ValidatedAsItIs
<1>. QED  BY <1>3, <1>5, <1>6, <1>7, <1>8 DEF ProfileInv

LEMMA ClaimKeeps ==
  ASSUME ProfileInv, NEW w \in Runner, NEW k \in P!Attempt, P!Claim(w, k) PROVE ProfileInv'
<1>. DEFINE n == attempt[k].runs + 1
            a == [attempt[k] EXCEPT !.status = "RUNNING", !.due = FALSE, !.runs = n]
            r == [P!Idle EXCEPT !.at = "profile", !.on = k, !.run = n]
<1>1. /\ runner[w].at = "idle" /\ Going(k) /\ attempt[k].due
      /\ attempt' = [attempt EXCEPT ![k] = a] /\ runner' = [runner EXCEPT ![w] = r]
      /\ UNCHANGED <<profile, credential, active, account, opening, fee, overruns>>
  BY DEF P!Claim, P!Does, P!books, Going
<1>2. n <= MaxRuns + overruns /\ n \in 0 .. MaxRuns + MaxOverruns
  <2>1. /\ attempt[k].runs \in Nat /\ overruns \in Nat /\ overruns <= MaxOverruns
        /\ MaxRuns \in Nat /\ MaxOverruns \in Nat
    BY ProfileTyped, NoneIsNothing
  <2>2. attempt[k].status = "PENDING" => attempt[k].runs < MaxRuns
    BY DEF ProfileInv, Counted
  <2>3. attempt[k].status = "RUNNING" => n <= MaxRuns + overruns
    BY <1>1 DEF ProfileInv, Counted
  <2>4. attempt[k].status \in {"PENDING", "RUNNING"}
    BY <1>1 DEF Going
  <2>5. n <= MaxRuns + overruns
    BY <2>1, <2>2, <2>3, <2>4
  <2>. QED  BY <2>1, <2>5
<1>3. attempt[k] \in Attempts
  BY ProfileTyped
<1>. HIDE DEF n
<1>4. /\ a \in Attempts /\ a.of = attempt[k].of /\ a.revision = attempt[k].revision
      /\ a.credential = attempt[k].credential /\ a.hash = attempt[k].hash
      /\ a.status = "RUNNING" /\ a.due = FALSE /\ a.runs = n
  BY <1>2, <1>3 DEF Attempts, P!AttemptStatus
<1>5. r \in Runs /\ r.at = "profile" /\ r.on = k /\ r.run = n
  <2>1. P!Idle \in Runs
    BY IdleIs
  <2>. QED  BY <1>2, <2>1 DEF Runs
<1>. HIDE DEF a, r
<1>6. /\ runner' \in [Runner -> Runs]
      /\ \A x \in Runner : runner'[x] = IF x = w THEN r ELSE runner[x]
  BY <1>1, <1>5, ProfileTyped
<1>7. \A j \in P!Attempt : attempt'[j] = IF j = k THEN a ELSE attempt[j]
  BY <1>1, ProfileTyped
<1>8. RunsWork'
  <2>1. \A j \in P!Attempt : /\ (attempt'[j].status = "ABSENT") <=> (attempt[j].status = "ABSENT")
                             /\ Going(j)' <=> Going(j)
                             /\ Current(j)' <=> Current(j)
                             /\ attempt'[j].of = attempt[j].of
    BY <1>1, <1>4, <1>7 DEF Going, Current
  <2>2. attempt[k].status # "ABSENT"
    BY <1>1 DEF Going
  <2>. QED  BY <1>1, <1>5, <1>6, <2>1, <2>2 DEF ProfileInv, RunsWork
<1>9. \A j \in P!Attempt \ {k} : attempt[j].status = "RUNNING" /\ P!Works(j) => P!Works(j)'
  <2>1. runner[w].on \notin P!Attempt
    BY <1>1, NoneIsNothing DEF ProfileInv, RunsWork
  <2>. QED  BY <1>6, <1>7, <2>1 DEF P!Works
<1>10. P!Works(k)'
  BY <1>4, <1>5, <1>6, <1>7 DEF P!Works
<1>11. overruns \in 0 .. MaxOverruns /\ overruns \in Nat /\ fee \in 0 .. MaxFees /\ n \in Nat
  BY <1>2, ProfileTyped, NoneIsNothing
<1>12. a.runs + (IF a.due \/ ~P!Works(k)' THEN 1 ELSE 0) <= MaxRuns + overruns
  BY <1>2, <1>4, <1>10, <1>11
<1>13. {a.status, attempt[k].status} \subseteq {"PENDING", "RUNNING"}
  BY <1>1, <1>4 DEF Going
<1>14. /\ overruns' \in 0 .. MaxOverruns /\ overruns' >= overruns /\ fee' \in 0 .. MaxFees
       /\ a.runs + (IF a.due \/ ~P!Works(k)' THEN 1 ELSE 0) <= MaxRuns + overruns'
  BY <1>1, <1>11, <1>12
<1>. QED  BY <1>1, <1>4, <1>6, <1>8, <1>9, <1>13, <1>14, AttemptMoves

LEMMA StepFailsKeeps ==
  ASSUME ProfileInv, NEW w \in Runner, NEW transient \in BOOLEAN, P!StepFails(w, transient)
  PROVE  ProfileInv'
<1>. DEFINE k == runner[w].on
            a == [attempt[k] EXCEPT !.status = "PENDING"]
            r == [runner[w] EXCEPT !.at = "finish", !.result = "FAILED"]
<1>1. /\ runner[w].at = "steps"
      /\ UNCHANGED <<profile, credential, active, account, opening, fee, overruns>>
      /\ \/ ~P!Owns(w) /\ runner' = [runner EXCEPT ![w] = P!Idle] /\ UNCHANGED attempt
         \/ /\ P!Owns(w) /\ runner[w].run < MaxRuns
            /\ runner' = [runner EXCEPT ![w] = P!Idle] /\ attempt' = [attempt EXCEPT ![k] = a]
         \/ runner' = [runner EXCEPT ![w] = r] /\ UNCHANGED attempt
  BY DEF P!StepFails, P!Does, P!books
<1>2. /\ runner[w] \in Runs /\ k \in P!Attempt /\ attempt[k] \in Attempts
      /\ overruns \in 0 .. MaxOverruns /\ overruns \in Nat /\ fee \in 0 .. MaxFees
  BY <1>1, ProfileTyped, NoneIsNothing DEF ProfileInv, RunsWork
<1>3. CASE ~P!Owns(w) /\ runner' = [runner EXCEPT ![w] = P!Idle] /\ UNCHANGED attempt
  BY <1>1, <1>2, <1>3, IdleIs, RunMoves
<1>4. CASE runner' = [runner EXCEPT ![w] = r] /\ UNCHANGED attempt
  <2>1. r \in Runs /\ r.at = "finish" /\ r.result = "FAILED" /\ r.on = k /\ r.run = runner[w].run
    BY <1>2 DEF Runs
  <2>. HIDE DEF r
  <2>. QED  BY <1>1, <1>2, <1>4, <2>1, RunMoves
<1>5. CASE /\ P!Owns(w) /\ runner[w].run < MaxRuns
           /\ runner' = [runner EXCEPT ![w] = P!Idle] /\ attempt' = [attempt EXCEPT ![k] = a]
  <2>1. attempt[k].status = "RUNNING" /\ attempt[k].runs < MaxRuns
    BY <1>5 DEF P!Owns
  <2>2. /\ a \in Attempts /\ a.of = attempt[k].of /\ a.revision = attempt[k].revision
        /\ a.credential = attempt[k].credential /\ a.hash = attempt[k].hash
        /\ a.status = "PENDING" /\ a.runs = attempt[k].runs
    BY <1>2 DEF Attempts, P!AttemptStatus
  <2>. HIDE DEF a
  <2>3. /\ runner' \in [Runner -> Runs]
        /\ \A x \in Runner : runner'[x] = IF x = w THEN P!Idle ELSE runner[x]
        /\ \A j \in P!Attempt : attempt'[j] = IF j = k THEN a ELSE attempt[j]
    BY <1>2, <1>5, IdleIs, ProfileTyped
  <2>4. RunsWork'
    <3>1. \A j \in P!Attempt : /\ (attempt'[j].status = "ABSENT") <=> (attempt[j].status = "ABSENT")
                               /\ Going(j)' <=> Going(j)
                               /\ Current(j)' <=> Current(j)
                               /\ attempt'[j].of = attempt[j].of
      BY <1>1, <2>1, <2>2, <2>3 DEF Going, Current
    <3>. QED  BY <1>1, <2>3, <3>1, IdleIs DEF ProfileInv, RunsWork
  <2>5. \A j \in P!Attempt \ {k} : attempt[j].status = "RUNNING" /\ P!Works(j) => P!Works(j)'
    BY <2>3 DEF P!Works
  <2>6. {a.status, attempt[k].status} \subseteq {"PENDING", "RUNNING"} /\ a.status # "RUNNING"
    BY <2>1, <2>2
  <2>7. overruns' \in 0 .. MaxOverruns /\ overruns' >= overruns /\ fee' \in 0 .. MaxFees
    BY <1>1, <1>2
  <2>8. UNCHANGED <<profile, credential, active, account, opening>>
    BY <1>1
  <2>. HIDE DEF k
  <2>. QED  BY <1>2, <1>5, <2>1, <2>2, <2>3, <2>4, <2>5, <2>6, <2>7, <2>8, AttemptMoves
<1>. QED  BY <1>1, <1>3, <1>4, <1>5

LEMMA DueKeeps == ASSUME ProfileInv, NEW k \in P!Attempt, P!Due(k) PROVE ProfileInv'
<1>. DEFINE a == [attempt[k] EXCEPT !.due = TRUE]
<1>1. /\ Going(k) /\ ~attempt[k].due /\ attempt' = [attempt EXCEPT ![k] = a]
      /\ attempt[k].status = "RUNNING" /\ P!Works(k) => overruns < MaxOverruns /\ overruns' = overruns + 1
      /\ ~(attempt[k].status = "RUNNING" /\ P!Works(k)) => overruns' = overruns
      /\ UNCHANGED <<profile, credential, active, account, opening, fee, runner>>
  BY DEF P!Due, P!books, Going
<1>2. /\ attempt[k] \in Attempts /\ overruns \in Nat /\ MaxOverruns \in Nat /\ MaxRuns \in Nat
      /\ overruns \in 0 .. MaxOverruns /\ attempt[k].runs \in Nat
  BY ProfileTyped, NoneIsNothing
<1>3. overruns' \in 0 .. MaxOverruns /\ overruns' \in Nat /\ overruns' >= overruns
  BY <1>1, <1>2
<1>4. /\ a \in Attempts /\ a.of = attempt[k].of /\ a.revision = attempt[k].revision
      /\ a.credential = attempt[k].credential /\ a.hash = attempt[k].hash
      /\ a.status = attempt[k].status /\ a.runs = attempt[k].runs /\ a.due
  BY <1>2 DEF Attempts
<1>. HIDE DEF a
<1>5. \A j \in P!Attempt : attempt'[j] = IF j = k THEN a ELSE attempt[j]
  BY <1>1, ProfileTyped
<1>6. RunsWork'
  <2>1. \A j \in P!Attempt : /\ attempt'[j].status = attempt[j].status
                             /\ Going(j)' <=> Going(j)
                             /\ Current(j)' <=> Current(j)
                             /\ attempt'[j].of = attempt[j].of
    BY <1>1, <1>4, <1>5 DEF Going, Current
  <2>. QED  BY <1>1, <2>1 DEF ProfileInv, RunsWork
<1>7. \A j \in P!Attempt \ {k} : attempt[j].status = "RUNNING" /\ P!Works(j) => P!Works(j)'
  BY <1>1, <1>5 DEF P!Works
<1>8. attempt[k].status = "PENDING" => attempt[k].runs < MaxRuns
  BY DEF ProfileInv, Counted
<1>9. ASSUME attempt[k].status = "RUNNING" PROVE attempt[k].runs + 1 <= MaxRuns + overruns'
  <2>1. attempt[k].runs + (IF attempt[k].due \/ ~P!Works(k) THEN 1 ELSE 0) <= MaxRuns + overruns
    BY <1>9 DEF ProfileInv, Counted
  <2>2. CASE P!Works(k)
    BY <1>1, <1>2, <1>9, <2>1, <2>2
  <2>3. CASE ~P!Works(k)
    BY <1>1, <1>2, <1>9, <2>1, <2>3
  <2>. QED  BY <2>2, <2>3
<1>10. runner' \in [Runner -> Runs] /\ fee' \in 0 .. MaxFees
  BY <1>1, ProfileTyped
<1>11. a.status = "RUNNING" => a.runs + (IF a.due \/ ~P!Works(k)' THEN 1 ELSE 0) <= MaxRuns + overruns'
  BY <1>4, <1>9
<1>. QED  BY <1>1, <1>3, <1>4, <1>6, <1>7, <1>8, <1>10, <1>11, AttemptMoves

LEMMA ValidityEndsKeeps == ASSUME ProfileInv, NEW k \in P!Attempt, P!ValidityEnds(k) PROVE ProfileInv'
<1>. DEFINE a == [attempt[k] EXCEPT !.fresh = FALSE]
<1>1. /\ attempt' = [attempt EXCEPT ![k] = a]
      /\ UNCHANGED <<profile, credential, active, account, opening, fee, runner, overruns>>
  BY DEF P!ValidityEnds, P!books
<1>2. /\ attempt[k] \in Attempts /\ overruns \in Nat /\ overruns \in 0 .. MaxOverruns
      /\ runner' \in [Runner -> Runs] /\ fee' \in 0 .. MaxFees /\ overruns' \in Nat
  BY <1>1, ProfileTyped, NoneIsNothing
<1>3. /\ a \in Attempts /\ a.of = attempt[k].of /\ a.revision = attempt[k].revision
      /\ a.credential = attempt[k].credential /\ a.hash = attempt[k].hash
      /\ a.status = attempt[k].status /\ a.runs = attempt[k].runs /\ a.due = attempt[k].due
  BY <1>2 DEF Attempts
<1>. HIDE DEF a
<1>4. \A j \in P!Attempt : attempt'[j] = IF j = k THEN a ELSE attempt[j]
  BY <1>1, ProfileTyped
<1>5. RunsWork'
  <2>1. \A j \in P!Attempt : /\ attempt'[j].status = attempt[j].status
                             /\ Going(j)' <=> Going(j)
                             /\ Current(j)' <=> Current(j)
                             /\ attempt'[j].of = attempt[j].of
    BY <1>1, <1>3, <1>4 DEF Going, Current
  <2>. QED  BY <1>1, <2>1 DEF ProfileInv, RunsWork
<1>6. \A j \in P!Attempt : P!Works(j)' <=> P!Works(j)
  BY <1>1, <1>3, <1>4 DEF P!Works
<1>7. /\ a.status = "PENDING" => a.runs < MaxRuns
      /\ a.status = "RUNNING" =>
           a.runs + (IF a.due \/ ~P!Works(k)' THEN 1 ELSE 0) <= MaxRuns + overruns'
  BY <1>1, <1>3, <1>6 DEF ProfileInv, Counted
<1>8. overruns' \in 0 .. MaxOverruns /\ overruns' >= overruns
  BY <1>1, <1>2
<1>. QED  BY <1>1, <1>2, <1>3, <1>5, <1>6, <1>7, <1>8, AttemptMoves

LEMMA ChangeFeeKeeps == ASSUME ProfileInv, P!ChangeFee PROVE ProfileInv'
<1>1. fee' = fee + 1 /\ fee < MaxFees
      /\ UNCHANGED <<profile, credential, active, account, opening, attempt, runner, overruns>>
  BY DEF P!ChangeFee, P!books, P!work
<1>2. fee' \in 0 .. MaxFees
  BY <1>1, ProfileTyped, NoneIsNothing
<1>3. P!TypeOK'
  BY <1>1, <1>2, ProfileTyped, TypedNext
<1>. QED  BY <1>1, <1>3
          DEF ProfileInv, Credited, Asked, OneWaits, RunsWork, Counted, Attested, Issuing, Held, Renewing, P!Works,
              P!OpenVersions, P!ValidatedAsItIs, Going, Current

(* No attempt of a version that neither waits nor was canceled is both      *)
(* under way and of it as it is.                                            *)
LEMMA NobodyDecides ==
  ASSUME ProfileInv, NEW v \in P!Version, profile[v].status \notin {"VALIDATING", "CANCELED"},
         NEW k \in P!Attempt, attempt[k].of = v, Current(k)
  PROVE  ~Going(k)
BY DEF ProfileInv, Asked, Going

LEMMA RequestValidationKeeps ==
  ASSUME ProfileInv, NEW v \in P!Version, NEW k \in P!Attempt, P!RequestValidation(v, k)
  PROVE  ProfileInv'
<1>. DEFINE b == [profile[v] EXCEPT !.status = "VALIDATING", !.hash = None]
            a == [P!NoAttempt EXCEPT !.status = "PENDING", !.of = v, !.revision = profile[v].revision,
                                     !.credential = profile[v].credential, !.due = TRUE]
<1>1. /\ profile[v].status \in {"DRAFT", "READY", "VALIDATION_FAILED"}
      /\ profile[v].attested /\ profile[v].credential # None /\ attempt[k].status = "ABSENT"
      /\ profile' = [profile EXCEPT ![v] = b] /\ attempt' = [attempt EXCEPT ![k] = a]
      /\ UNCHANGED <<credential, active, account, opening, fee, runner, overruns>>
  BY DEF P!RequestValidation
<1>2. profile[v] \in Profiles /\ profile[v].credential \in P!Credential
  BY <1>1, ProfileTyped
<1>3. /\ b \in Profiles /\ b.status = "VALIDATING" /\ b.revision = profile[v].revision
      /\ b.credential = profile[v].credential /\ b.account = profile[v].account
      /\ b.attested = profile[v].attested
  BY <1>2 DEF Profiles, P!ProfileStatus
<1>4. 0 \in 0 .. MaxRuns + MaxOverruns /\ 0 < MaxRuns /\ 0 \in 0 .. MaxFees
  BY NoneIsNothing
<1>5. profile[v].revision \in 0 .. MaxEdits
  BY ProfileTyped
<1>6. /\ a \in Attempts /\ a.status = "PENDING" /\ a.of = v /\ a.revision = profile[v].revision
      /\ a.credential = profile[v].credential /\ a.runs = 0
  BY <1>2, <1>4, <1>5 DEF Attempts, P!NoAttempt, P!AttemptStatus
<1>. HIDE DEF a, b
<1>7. /\ profile' \in [P!Version -> Profiles]
      /\ \A u \in P!Version : profile'[u] = IF u = v THEN b ELSE profile[u]
      /\ attempt' \in [P!Attempt -> Attempts]
      /\ \A j \in P!Attempt : attempt'[j] = IF j = k THEN a ELSE attempt[j]
  BY <1>1, <1>3, <1>6, ProfileTyped
<1>8. P!TypeOK'
  BY <1>1, <1>7, ProfileTyped, TypedNext
<1>9. \A u \in P!Version : /\ profile'[u].revision = profile[u].revision
                           /\ profile'[u].credential = profile[u].credential
                           /\ profile'[u].account = profile[u].account
                           /\ profile'[u].attested = profile[u].attested
                           /\ u # v => profile'[u] = profile[u]
                           /\ (profile'[u].status = "ACTIVE") <=> (profile[u].status = "ACTIVE")
  BY <1>1, <1>3, <1>7
<1>10. P!OpenVersions' = P!OpenVersions
  BY <1>1, <1>3, <1>7 DEF P!OpenVersions, P!Open
<1>11. Credited'
  BY <1>1, <1>3, <1>9, <1>10 DEF ProfileInv, Credited
<1>12. \A j \in P!Attempt \ {k} : Current(j)' <=> (attempt[j].revision = profile'[attempt[j].of].revision)
  BY <1>7 DEF Current
<1>13. \A j \in P!Attempt : j # k /\ attempt[j].status # "ABSENT" =>
         /\ attempt[j].of \in P!Version /\ attempt'[j] = attempt[j]
         /\ Current(j)' <=> Current(j)
         /\ Going(j)' <=> Going(j)
         /\ attempt[j].of = v /\ Current(j) => ~Going(j)
  BY <1>1, <1>7, <1>9, <1>12, NobodyDecides DEF ProfileInv, Asked, Current, Going
<1>14. /\ attempt'[k] = a /\ Current(k)' /\ Going(k)'
       /\ \A j \in P!Attempt : Going(j) => attempt[j].status # "ABSENT"
       /\ \A j \in P!Attempt : Going(j)' /\ j # k => attempt[j].status # "ABSENT"
  BY <1>3, <1>6, <1>7 DEF Current, Going
<1>15. Asked'
  <2>. SUFFICES ASSUME NEW j \in P!Attempt, attempt'[j].status # "ABSENT"
                PROVE  /\ attempt'[j].of \in P!Version /\ profile'[attempt'[j].of].credential # None
                       /\ attempt'[j].revision <= profile'[attempt'[j].of].revision
                       /\ Current(j)' => attempt'[j].credential = profile'[attempt'[j].of].credential
                       /\ Going(j)' /\ Current(j)' =>
                            profile'[attempt'[j].of].status \in {"VALIDATING", "CANCELED"}
    BY DEF Asked
  <2>1. CASE j = k
    <3>1. profile[v].revision <= profile[v].revision
      BY <1>5, NoneIsNothing
    <3>. QED  BY <1>1, <1>3, <1>6, <1>7, <2>1, <3>1
  <2>2. CASE j # k
    <3>1. attempt[j].status # "ABSENT" /\ attempt'[j] = attempt[j]
      BY <1>7, <2>2
    <3>2. /\ attempt[j].of \in P!Version /\ profile[attempt[j].of].credential # None
          /\ attempt[j].revision <= profile[attempt[j].of].revision
          /\ Current(j) => attempt[j].credential = profile[attempt[j].of].credential
          /\ Going(j) /\ Current(j) => profile[attempt[j].of].status \in {"VALIDATING", "CANCELED"}
      BY <3>1 DEF ProfileInv, Asked
    <3>. QED  BY <1>9, <1>13, <2>2, <3>1, <3>2
  <2>. QED  BY <2>1, <2>2
<1>16. OneWaits'
  <2>. SUFFICES ASSUME NEW i \in P!Attempt, NEW j \in P!Attempt, Going(i)', Going(j)',
                       attempt'[i].of = attempt'[j].of, Current(i)', Current(j)'
                PROVE  i = j
    BY DEF OneWaits
  <2>1. CASE i # k /\ j # k
    BY <1>13, <1>14, <2>1 DEF ProfileInv, OneWaits
  <2>2. CASE i = k \/ j = k
    BY <1>6, <1>13, <1>14, <2>2
  <2>. QED  BY <2>1, <2>2
<1>17. RunsWork'
  <2>1. \A x \in Runner : runner[x].at # "idle" => runner[x].on # k
    BY <1>1 DEF ProfileInv, RunsWork
  <2>2. \A u \in P!Version : profile[u].status = "CANCELED" => profile'[u].status = "CANCELED"
    BY <1>1, <1>7
  <2>. QED  BY <1>1, <1>13, <1>14, <2>1, <2>2 DEF ProfileInv, RunsWork
<1>18. Counted'
  <2>1. \A j \in P!Attempt : j # k => (P!Works(j)' <=> P!Works(j))
    BY <1>1, <1>7 DEF P!Works
  <2>. QED  BY <1>1, <1>4, <1>6, <1>7, <2>1 DEF ProfileInv, Counted
<1>19. Attested'
  BY <1>1, <1>9 DEF ProfileInv, Attested
<1>a. Held' /\ Renewing'
  <2>1. active # None => profile'[active].account = profile[active].account
    BY <1>1, <1>9, ProfileTyped
  <2>. QED  BY <1>1, <2>1, ProfileTyped DEF ProfileInv, Held, Renewing
<1>20. Issuing'
  <2>1. active # None => active \in P!Version
    BY ProfileTyped
  <2>. QED  BY <1>1, <1>9, <1>10, <2>1 DEF ProfileInv, Issuing, P!OpenVersions
<1>21. P!ValidatedAsItIs'
  <2>1. ASSUME NEW u \in P!Version, profile'[u].status = "VALIDATING"
        PROVE  \E j \in P!Attempt : /\ attempt'[j].of = u /\ attempt'[j].revision = profile'[u].revision
                                    /\ attempt'[j].status \in {"PENDING", "RUNNING"}
    <3>1. CASE u = v
      BY <1>3, <1>6, <1>7, <3>1
    <3>2. CASE u # v
      <4>1. PICK j \in P!Attempt : /\ attempt[j].of = u /\ attempt[j].revision = profile[u].revision
                                   /\ attempt[j].status \in {"PENDING", "RUNNING"}
        BY <1>7, <2>1, <3>2 DEF ProfileInv, P!ValidatedAsItIs
      <4>2. j # k
        BY <1>1, <4>1
      <4>. QED  BY <1>7, <3>2, <4>1, <4>2
    <3>. QED  BY <3>1, <3>2
  <2>2. ASSUME NEW u \in P!Version, profile'[u].status = "READY"
        PROVE  \E j \in P!Attempt : /\ attempt'[j].of = u /\ attempt'[j].revision = profile'[u].revision
                                    /\ attempt'[j].status = "SUCCEEDED" /\ attempt'[j].hash = profile'[u].hash
    <3>1. profile'[u] = profile[u]
      BY <1>3, <1>7, <2>2
    <3>2. PICK j \in P!Attempt : /\ attempt[j].of = u /\ attempt[j].revision = profile[u].revision
                                 /\ attempt[j].status = "SUCCEEDED" /\ attempt[j].hash = profile[u].hash
      BY <2>2, <3>1 DEF ProfileInv, P!ValidatedAsItIs
    <3>3. j # k
      BY <1>1, <3>2
    <3>. QED  BY <1>7, <3>1, <3>2, <3>3
  <2>. QED  BY <2>1, <2>2 DEF P!ValidatedAsItIs
<1>. QED  BY <1>8, <1>11, <1>15, <1>16, <1>17, <1>18, <1>19, <1>20, <1>21, <1>a DEF ProfileInv

(* A change of versions after which an attempt of a version either is no    *)
(* longer of it as it is, or finds it as before or canceled.                *)
LEMMA AttemptsStand ==
  ASSUME ProfileInv, UNCHANGED <<attempt, runner, overruns>>,
         \A u \in P!Version :
           /\ profile'[u].revision \in Nat
           /\ profile'[u].status \in {"VALIDATING", "READY"} => profile'[u] = profile[u]
           /\ profile[u].status # "ABSENT" =>
                /\ profile[u].credential # None => profile'[u].credential # None
                /\ profile'[u].revision >= profile[u].revision
                /\ profile'[u].revision = profile[u].revision =>
                     /\ profile'[u].credential = profile[u].credential
                     /\ profile[u].status \in {"VALIDATING", "CANCELED"} =>
                          profile'[u].status \in {profile[u].status, "CANCELED"}
  PROVE  Asked' /\ OneWaits' /\ RunsWork' /\ Counted' /\ Attested' /\ P!ValidatedAsItIs'
<1>1. \A j \in P!Attempt : attempt[j].status # "ABSENT" =>
        /\ attempt[j].of \in P!Version /\ profile[attempt[j].of].credential # None
        /\ profile[attempt[j].of].status # "ABSENT"
        /\ attempt[j].revision \in Nat /\ profile[attempt[j].of].revision \in Nat
        /\ attempt[j].revision <= profile[attempt[j].of].revision
  BY ProfileTyped, NoneIsNothing DEF ProfileInv, Asked, Credited
<1>2. \A j \in P!Attempt : attempt[j].status # "ABSENT" /\ Current(j)' =>
        Current(j) /\ profile'[attempt[j].of].revision = profile[attempt[j].of].revision
  BY <1>1 DEF Current
<1>3. \A j \in P!Attempt : /\ Going(j)' <=> Going(j)
                           /\ Going(j) => attempt[j].status # "ABSENT"
  BY DEF Going
<1>4. Asked'
  <2>. SUFFICES ASSUME NEW j \in P!Attempt, attempt[j].status # "ABSENT"
                PROVE  /\ attempt[j].of \in P!Version /\ profile'[attempt[j].of].credential # None
                       /\ attempt[j].revision <= profile'[attempt[j].of].revision
                       /\ Current(j)' => attempt[j].credential = profile'[attempt[j].of].credential
                       /\ Going(j)' /\ Current(j)' =>
                            profile'[attempt[j].of].status \in {"VALIDATING", "CANCELED"}
    BY DEF Asked
  <2>1. /\ Current(j) => attempt[j].credential = profile[attempt[j].of].credential
        /\ Going(j) /\ Current(j) => profile[attempt[j].of].status \in {"VALIDATING", "CANCELED"}
    BY DEF ProfileInv, Asked
  <2>. QED  BY <1>1, <1>2, <1>3, <2>1
<1>5. OneWaits'
  BY <1>2, <1>3 DEF ProfileInv, OneWaits
<1>6. RunsWork'
  <2>1. \A x \in Runner : runner[x].at # "idle" => runner[x].on \in P!Attempt
    BY DEF ProfileInv, RunsWork
  <2>. QED  BY <1>1, <1>2, <1>3, <2>1 DEF ProfileInv, RunsWork
<1>7. Counted'
  BY DEF ProfileInv, Counted, P!Works
<1>8. Attested'
  BY DEF ProfileInv, Attested
<1>9. P!ValidatedAsItIs'
  BY DEF ProfileInv, P!ValidatedAsItIs
<1>. QED  BY <1>4, <1>5, <1>6, <1>7, <1>8, <1>9

(* The one open version, or a new one, becomes a draft with the one         *)
(* candidate, or is canceled and no candidate is left.                      *)
LEMMA CandidateMoves ==
  ASSUME ProfileInv, NEW v \in P!Version, NEW b \in Profiles, profile' = [profile EXCEPT ![v] = b],
         P!OpenVersions \subseteq {v}, profile[v].status # "ACTIVE",
         b.status \in {"DRAFT", "CANCELED"},
         profile[v].status # "ABSENT" =>
           /\ profile[v].credential # None => b.credential # None
           /\ b.revision >= profile[v].revision
           /\ b.revision = profile[v].revision =>
                b.status = "CANCELED" /\ b.credential = profile[v].credential,
         credential' \in [P!Credential -> Credentials],
         \A c \in P!Credential :
           /\ credential[c].status # "ABSENT" =>
                credential'[c].status # "ABSENT" /\ credential'[c].account = credential[c].account
           /\ (credential'[c].status = "ACTIVE") <=> (credential[c].status = "ACTIVE")
           /\ (credential'[c].status = "UNRECORDED") <=> (credential[c].status = "UNRECORDED")
           /\ credential'[c].status = "CANDIDATE" => b.status = "DRAFT" /\ b.credential = c,
         b.credential # None =>
           /\ credential'[b.credential].status \notin {"ABSENT", "UNRECORDED"} /\ credential'[b.credential].account = b.account
           /\ b.status = "DRAFT" => credential'[b.credential].status = "CANDIDATE",
         UNCHANGED <<active, account, opening, fee, attempt, runner, overruns>>
  PROVE  ProfileInv'
<1>1. /\ profile' \in [P!Version -> Profiles]
      /\ \A u \in P!Version : profile'[u] = IF u = v THEN b ELSE profile[u]
  BY ProfileTyped
<1>2. P!TypeOK'
  BY <1>1, ProfileTyped, TypedNext
<1>3. b.revision \in Nat /\ \A u \in P!Version : profile[u].revision \in Nat
  BY ProfileTyped, NoneIsNothing DEF Profiles
<1>4. Asked' /\ OneWaits' /\ RunsWork' /\ Counted' /\ Attested' /\ P!ValidatedAsItIs'
  <2>1. \A u \in P!Version : u # v => profile'[u] = profile[u]
    BY <1>1
  <2>2. \A u \in P!Version : profile'[u].status \in {"VALIDATING", "READY"} => profile'[u] = profile[u]
    BY <1>1
  <2>3. \A u \in P!Version : profile[u].status # "ABSENT" =>
          /\ profile[u].credential # None => profile'[u].credential # None
          /\ profile'[u].revision >= profile[u].revision
          /\ profile'[u].revision = profile[u].revision =>
               /\ profile'[u].credential = profile[u].credential
               /\ profile[u].status \in {"VALIDATING", "CANCELED"} =>
                    profile'[u].status \in {profile[u].status, "CANCELED"}
    BY <1>1, <1>3
  <2>4. \A u \in P!Version : profile'[u].revision \in Nat
    BY <1>1, <1>3
  <2>. QED  BY <2>2, <2>3, <2>4, AttemptsStand
<1>5. P!OpenVersions' \subseteq {v} /\ (v \in P!OpenVersions' <=> b.status = "DRAFT")
  BY <1>1 DEF P!OpenVersions, P!Open
<1>6. Credited'
  <2>. SUFFICES ASSUME NEW u \in P!Version
                PROVE  /\ profile'[u].status = "ABSENT" => profile'[u].credential = None
                       /\ profile'[u].credential # None =>
                            /\ credential'[profile'[u].credential].status \notin {"ABSENT", "UNRECORDED"}
                            /\ credential'[profile'[u].credential].account = profile'[u].account
                       /\ u \in P!OpenVersions' /\ profile'[u].credential # None =>
                            credential'[profile'[u].credential].status = "CANDIDATE"
    BY DEF Credited
  <2>1. CASE u = v
    BY <1>1, <1>5, <2>1
  <2>2. CASE u # v
    BY <1>1, <1>5, <2>2, ProfileTyped DEF ProfileInv, Credited
  <2>. QED  BY <2>1, <2>2
<1>7. Issuing'
  <2>1. \A u \in P!Version : (profile'[u].status = "ACTIVE") <=> (profile[u].status = "ACTIVE")
    BY <1>1
  <2>2. active # None => active \in P!Version /\ active # v /\ profile'[active] = profile[active]
    BY <1>1, ProfileTyped DEF ProfileInv, Issuing
  <2>3. \A c \in P!Credential : credential'[c].status = "ACTIVE" => credential'[c].account = credential[c].account
    OBVIOUS
  <2>4. \A c \in P!Credential : credential'[c].status = "CANDIDATE" =>
          \E u \in P!OpenVersions' : profile'[u].credential = c
    BY <1>1, <1>5
  <2>5. \A u, x \in P!OpenVersions' : u = x
    BY <1>5
  <2>. QED  BY <2>1, <2>2, <2>3, <2>4, <2>5 DEF ProfileInv, Issuing
<1>8. Held' /\ Renewing'
  <2>1. active # None => active \in P!Version /\ active # v /\ profile'[active] = profile[active]
    BY <1>1, ProfileTyped DEF ProfileInv, Issuing
  <2>2. account # None => account \in P!Credential
    BY ProfileTyped
  <2>. QED  BY <2>1, <2>2 DEF ProfileInv, Held, Renewing
<1>. QED  BY <1>2, <1>4, <1>6, <1>7, <1>8 DEF ProfileInv

(* A version is put in force with its credential, in the place of the one   *)
(* that was.                                                                *)
LEMMA PublishMoves ==
  ASSUME ProfileInv, NEW v \in P!Version, NEW b \in Profiles, profile' = [P!Superseded EXCEPT ![v] = b],
         b.status = "ACTIVE", b.credential \in P!Credential,
         \/ profile[v].status = "ABSENT" /\ credential[b.credential].status = "UNRECORDED"
         \/ /\ profile[v].status = "READY" /\ b.revision = profile[v].revision
            /\ b.credential = profile[v].credential /\ b.account = profile[v].account,
         credential' \in [P!Credential -> Credentials],
         credential'[b.credential].status = "ACTIVE", credential'[b.credential].account = b.account,
         \A d \in P!Credential : d # b.credential =>
           /\ credential'[d].account = credential[d].account
           /\ IF credential[d].account = b.account /\ credential[d].status = "ACTIVE"
              THEN credential'[d].status = "RETIRED" ELSE credential'[d].status = credential[d].status,
         active' = v, account' = b.credential, UNCHANGED <<opening, fee, attempt, runner, overruns>>
  PROVE  ProfileInv'
<1>1. active # None => active \in P!Version /\ active # v /\ profile[active].status = "ACTIVE"
  BY ProfileTyped DEF ProfileInv, Issuing
<1>2. \A u \in P!Version : u # v /\ profile[u].status = "ACTIVE" => u = active
  BY DEF ProfileInv, Issuing
<1>3. /\ profile' \in [P!Version -> Profiles]
      /\ profile'[v] = b
      /\ \A u \in P!Version : u # v => /\ u # active => profile'[u] = profile[u]
                                       /\ u = active => profile'[u] = [profile[u] EXCEPT !.status = "SUPERSEDED"]
  <2>1. ASSUME active # None
        PROVE  [profile[active] EXCEPT !.status = "SUPERSEDED"] \in Profiles
    BY <1>1, <2>1, ProfileTyped DEF Profiles, P!ProfileStatus
  <2>2. CASE active = None
    BY <2>2, ProfileTyped, NoneIsNothing DEF P!Superseded
  <2>3. CASE active # None
    BY <1>1, <2>1, <2>3, ProfileTyped DEF P!Superseded
  <2>. QED  BY <2>2, <2>3
<1>4. \A u \in P!Version : u # v =>
        /\ profile'[u].revision = profile[u].revision /\ profile'[u].credential = profile[u].credential
        /\ profile'[u].account = profile[u].account
        /\ \/ profile'[u] = profile[u] /\ profile[u].status # "ACTIVE"
           \/ u = active /\ profile[u].status = "ACTIVE" /\ profile'[u].status = "SUPERSEDED"
  <2>. SUFFICES ASSUME NEW u \in P!Version, u # v
                PROVE  /\ profile'[u].revision = profile[u].revision
                       /\ profile'[u].credential = profile[u].credential
                       /\ profile'[u].account = profile[u].account
                       /\ \/ profile'[u] = profile[u] /\ profile[u].status # "ACTIVE"
                          \/ /\ u = active /\ profile[u].status = "ACTIVE"
                             /\ profile'[u].status = "SUPERSEDED"
    OBVIOUS
  <2>1. CASE u = active
    <3>1. profile[u] \in Profiles /\ profile'[u] = [profile[u] EXCEPT !.status = "SUPERSEDED"]
      BY <1>3, <2>1, ProfileTyped
    <3>. QED  BY <1>1, <2>1, <3>1, NoneIsNothing DEF Profiles
  <2>2. CASE u # active
    BY <1>2, <1>3, <2>2
  <2>. QED  BY <2>1, <2>2
<1>5. P!TypeOK'
  BY <1>3, ProfileTyped, TypedNext
<1>6. \A u \in P!Version : profile[u].revision \in Nat /\ profile'[u].revision \in Nat
  BY <1>3, ProfileTyped, NoneIsNothing DEF Profiles
<1>7. Asked' /\ OneWaits' /\ RunsWork' /\ Counted' /\ Attested' /\ P!ValidatedAsItIs'
  <2>1. \A u \in P!Version : profile'[u].status \in {"VALIDATING", "READY"} => profile'[u] = profile[u]
    BY <1>3, <1>4
  <2>2. \A u \in P!Version : profile[u].status # "ABSENT" =>
          /\ profile[u].credential # None => profile'[u].credential # None
          /\ profile'[u].revision >= profile[u].revision
          /\ profile'[u].revision = profile[u].revision =>
               /\ profile'[u].credential = profile[u].credential
               /\ profile[u].status \in {"VALIDATING", "CANCELED"} =>
                    profile'[u].status \in {profile[u].status, "CANCELED"}
    <3>. SUFFICES ASSUME NEW u \in P!Version, profile[u].status # "ABSENT"
                  PROVE  /\ profile[u].credential # None => profile'[u].credential # None
                         /\ profile'[u].revision >= profile[u].revision
                         /\ profile'[u].revision = profile[u].revision =>
                              /\ profile'[u].credential = profile[u].credential
                              /\ profile[u].status \in {"VALIDATING", "CANCELED"} =>
                                   profile'[u].status \in {profile[u].status, "CANCELED"}
      OBVIOUS
    <3>1. CASE u = v
      BY <1>3, <1>6, <3>1
    <3>2. CASE u # v
      BY <1>4, <1>6, <3>2
    <3>. QED  BY <3>1, <3>2
  <2>. QED  BY <1>6, <2>1, <2>2, AttemptsStand
<1>8. \A u \in P!Version : u \in P!OpenVersions' <=> u \in P!OpenVersions /\ u # v
  <2>1. \A u \in P!Version : u # v => (profile'[u].status \in P!Open <=> profile[u].status \in P!Open)
    BY <1>4 DEF P!Open
  <2>. QED  BY <1>3, <2>1 DEF P!OpenVersions, P!Open
<1>9. \A u \in P!Version : u # v /\ profile[u].credential = b.credential => u \notin P!OpenVersions
  <2>1. CASE profile[v].status = "ABSENT" /\ credential[b.credential].status = "UNRECORDED"
    BY <2>1, NoneIsNothing DEF ProfileInv, Credited
  <2>2. CASE profile[v].status = "READY"
    BY <2>2 DEF ProfileInv, Issuing, P!OpenVersions, P!Open
  <2>. QED  BY <2>1, <2>2
<1>10. \A d \in P!Credential : credential[d].status \notin {"ABSENT", "UNRECORDED"} =>
         credential'[d].status \notin {"ABSENT", "UNRECORDED"} /\ credential'[d].account = credential[d].account
  <2>1. credential[b.credential].status \notin {"ABSENT", "UNRECORDED"} => credential[b.credential].account = b.account
    BY NoneIsNothing DEF ProfileInv, Credited
  <2>. QED  BY <2>1
<1>11. Credited'
  <2>. SUFFICES ASSUME NEW u \in P!Version
                PROVE  /\ profile'[u].status = "ABSENT" => profile'[u].credential = None
                       /\ profile'[u].credential # None =>
                            /\ credential'[profile'[u].credential].status \notin {"ABSENT", "UNRECORDED"}
                            /\ credential'[profile'[u].credential].account = profile'[u].account
                       /\ u \in P!OpenVersions' /\ profile'[u].credential # None =>
                            credential'[profile'[u].credential].status = "CANDIDATE"
    BY DEF Credited
  <2>1. CASE u = v
    BY <1>3, <1>8, <2>1
  <2>2. CASE u # v
    <3>1. /\ profile[u].status = "ABSENT" => profile[u].credential = None
          /\ profile[u].credential # None =>
               /\ profile[u].credential \in P!Credential
               /\ credential[profile[u].credential].status \notin {"ABSENT", "UNRECORDED"}
               /\ credential[profile[u].credential].account = profile[u].account
          /\ u \in P!OpenVersions /\ profile[u].credential # None =>
               credential[profile[u].credential].status = "CANDIDATE"
      BY ProfileTyped DEF ProfileInv, Credited
    <3>2. u \in P!OpenVersions' => u \in P!OpenVersions /\ profile[u].credential # b.credential
      BY <1>8, <1>9, <2>2
    <3>3. profile'[u].status = "ABSENT" => profile[u].status = "ABSENT"
      BY <1>4, <2>2
    <3>4. profile'[u].credential = profile[u].credential /\ profile'[u].account = profile[u].account
      BY <1>4, <2>2
    <3>. QED  BY <1>10, <3>1, <3>2, <3>3, <3>4
  <2>. QED  BY <2>1, <2>2
<1>12. Issuing'
  <2>1. \A u \in P!Version : (profile'[u].status = "ACTIVE") <=> (u = v)
    BY <1>3, <1>4
  <2>2. \A u, x \in P!OpenVersions' : u = x
    BY <1>8 DEF ProfileInv, Issuing, P!OpenVersions
  <2>3. \A d \in P!Credential : (credential'[d].status = "ACTIVE" /\ credential'[d].account = b.account)
                                   <=> (d = b.credential)
    OBVIOUS
  <2>4. ASSUME NEW d \in P!Credential, credential'[d].status = "CANDIDATE"
        PROVE  \E u \in P!OpenVersions' : profile'[u].credential = d
    <3>1. d # b.credential /\ credential[d].status = "CANDIDATE"
      BY <2>4
    <3>2. PICK u \in P!OpenVersions : profile[u].credential = d
      BY <3>1 DEF ProfileInv, Issuing
    <3>3. u \in P!Version /\ u # v
      BY <3>1, <3>2 DEF P!OpenVersions, P!Open
    <3>. QED  BY <1>4, <1>8, <3>2, <3>3
  <2>. QED  BY <1>3, <2>1, <2>2, <2>3, <2>4, NoneIsNothing DEF Issuing
<1>13. Held' /\ Renewing'
  BY <1>3, NoneIsNothing DEF Held, Renewing
<1>. QED  BY <1>5, <1>7, <1>11, <1>12, <1>13 DEF ProfileInv

LEMMA RejectedIs ==
  ASSUME ProfileInv, NEW c \in P!Credential \cup {None}
  PROVE  /\ P!Rejected(c) \in [P!Credential -> Credentials]
         /\ \A d \in P!Credential :
              /\ P!Rejected(c)[d].account = credential[d].account
              /\ P!Rejected(c)[d].status =
                   IF d = c /\ credential[d].status = "CANDIDATE" THEN "REJECTED" ELSE credential[d].status
<1>1. \A d \in P!Credential :
        LET r == [credential[d] EXCEPT !.status = "REJECTED"] IN
        r \in Credentials /\ r.status = "REJECTED" /\ r.account = credential[d].account
  BY ProfileTyped DEF Credentials, P!CredentialStatus
<1>2. \A d \in P!Credential : credential[d] \in Credentials
  BY ProfileTyped
<1>. QED  BY <1>1, <1>2 DEF P!Rejected

(* The candidates are those of the open version.                            *)
LEMMA CandidatesAre ==
  ASSUME ProfileInv, NEW v \in P!Version, P!OpenVersions \subseteq {v},
         NEW c \in P!Credential, credential[c].status = "CANDIDATE"
  PROVE  v \in P!OpenVersions /\ profile[v].credential = c
BY DEF ProfileInv, Issuing

LEMMA OpenIs ==
  ASSUME ProfileInv, NEW v \in P!OpenVersions
  PROVE  /\ v \in P!Version /\ P!OpenVersions \subseteq {v}
         /\ profile[v].status \in P!Open /\ profile[v].status \notin {"ABSENT", "ACTIVE"}
         /\ profile[v] \in Profiles /\ profile[v].revision \in Nat
         /\ profile[v].credential \in P!Credential \cup {None}
BY ProfileTyped, NoneIsNothing DEF ProfileInv, Issuing, P!OpenVersions, P!Open

LEMMA CreateCandidateKeeps ==
  ASSUME ProfileInv, NEW v \in P!Version, P!CreateCandidate(v) PROVE ProfileInv'
<1>. DEFINE b == [P!NoProfile EXCEPT !.status = "DRAFT"]
<1>1. /\ profile[v].status = "ABSENT" /\ P!OpenVersions = {} /\ profile' = [profile EXCEPT ![v] = b]
      /\ UNCHANGED <<credential, active, account, opening, fee, attempt, runner, overruns>>
  BY DEF P!CreateCandidate, P!NextVersion, P!work
<1>2. 0 \in 0 .. MaxEdits
  BY NoneIsNothing
<1>3. b \in Profiles /\ b.status = "DRAFT" /\ b.credential = None
  BY <1>2 DEF P!NoProfile, Profiles, P!ProfileStatus
<1>. HIDE DEF b
<1>4. /\ credential' \in [P!Credential -> Credentials]
      /\ \A c \in P!Credential : credential[c].status # "CANDIDATE"
  BY <1>1, ProfileTyped DEF ProfileInv, Issuing
<1>. QED  BY <1>1, <1>3, <1>4, CandidateMoves

LEMMA UpdateConfigurationKeeps ==
  ASSUME ProfileInv, NEW v \in P!Version, NEW attested \in BOOLEAN, P!UpdateConfiguration(v, attested)
  PROVE  ProfileInv'
<1>. DEFINE p == [profile[v] EXCEPT !.attested = attested]
            b == P!Edited(v, p)
<1>1. /\ v \in P!OpenVersions /\ profile[v].revision < MaxEdits /\ profile' = [profile EXCEPT ![v] = b]
      /\ UNCHANGED <<credential, active, account, opening, fee, attempt, runner, overruns>>
  BY DEF P!UpdateConfiguration, P!work
<1>2. profile[v].revision + 1 \in 0 .. MaxEdits /\ profile[v].revision + 1 > profile[v].revision
  BY <1>1, OpenIs, NoneIsNothing
<1>a. /\ p \in Profiles /\ p.credential = profile[v].credential
      /\ p.account = profile[v].account /\ p.revision = profile[v].revision
  BY <1>1, OpenIs DEF Profiles
<1>. HIDE DEF p
<1>3. /\ b \in Profiles /\ b.status = "DRAFT" /\ b.credential = profile[v].credential
      /\ b.account = profile[v].account /\ b.revision = profile[v].revision + 1
  BY <1>2, <1>a DEF P!Edited, Profiles, P!ProfileStatus
<1>. HIDE DEF b
<1>4. /\ b.revision >= profile[v].revision /\ b.revision # profile[v].revision
  BY <1>1, <1>3, OpenIs
<1>5. credential' \in [P!Credential -> Credentials]
  BY <1>1, ProfileTyped
<1>6. \A c \in P!Credential :
        /\ credential[c].status # "ABSENT" =>
             credential'[c].status # "ABSENT" /\ credential'[c].account = credential[c].account
        /\ (credential'[c].status = "ACTIVE") <=> (credential[c].status = "ACTIVE")
        /\ (credential'[c].status = "UNRECORDED") <=> (credential[c].status = "UNRECORDED")
        /\ credential'[c].status = "CANDIDATE" => b.status = "DRAFT" /\ b.credential = c
  BY <1>1, <1>3, OpenIs, CandidatesAre
<1>7. b.credential # None =>
        /\ credential'[b.credential].status \notin {"ABSENT", "UNRECORDED"} /\ credential'[b.credential].account = b.account
        /\ b.status = "DRAFT" => credential'[b.credential].status = "CANDIDATE"
  BY <1>1, <1>3 DEF ProfileInv, Credited, P!OpenVersions
<1>8. P!OpenVersions \subseteq {v} /\ profile[v].status # "ACTIVE"
  BY <1>1, OpenIs
<1>9. /\ profile[v].credential # None => b.credential # None
      /\ b.revision >= profile[v].revision
      /\ b.revision = profile[v].revision =>
           b.status = "CANCELED" /\ b.credential = profile[v].credential
  BY <1>3, <1>4
<1>10. UNCHANGED <<active, account, opening, fee, attempt, runner, overruns>>
  BY <1>1
<1>11. profile' = [profile EXCEPT ![v] = b] /\ b \in Profiles /\ b.status \in {"DRAFT", "CANCELED"}
  BY <1>1, <1>3
<1>. QED  BY <1>5, <1>6, <1>7, <1>8, <1>9, <1>10, <1>11, CandidateMoves

LEMMA UploadCredentialsKeeps ==
  ASSUME ProfileInv, NEW v \in P!Version, NEW c \in P!Credential, NEW a \in Account,
         P!UploadCredentials(v, c, a)
  PROVE  ProfileInv'
<1>. DEFINE g == profile[v].attested /\ profile[v].account = a
            p == [profile[v] EXCEPT !.account = a, !.credential = c, !.attested = g]
            b == P!Edited(v, p)
            n == [status |-> "CANDIDATE", account |-> a]
            old == P!Rejected(profile[v].credential)
<1>1. /\ v \in P!OpenVersions /\ profile[v].revision < MaxEdits /\ credential[c].status = "ABSENT"
      /\ profile' = [profile EXCEPT ![v] = b] /\ credential' = [old EXCEPT ![c] = n]
      /\ UNCHANGED <<active, account, opening, fee, attempt, runner, overruns>>
  BY DEF P!UploadCredentials, P!NextCredential, P!work
<1>2. profile[v].revision + 1 \in 0 .. MaxEdits
  BY <1>1, OpenIs, NoneIsNothing
<1>3. g \in BOOLEAN
  OBVIOUS
<1>. HIDE DEF g
<1>a. profile[v] \in Profiles
  BY <1>1, OpenIs
<1>4. /\ p \in Profiles /\ p.credential = c /\ p.account = a /\ p.revision = profile[v].revision
  BY <1>a, <1>3 DEF Profiles
<1>. HIDE DEF p
<1>5. /\ b \in Profiles /\ b.status = "DRAFT" /\ b.credential = c
      /\ b.account = a /\ b.revision = profile[v].revision + 1
  BY <1>2, <1>4 DEF P!Edited, Profiles, P!ProfileStatus
<1>. HIDE DEF b
<1>6. b.revision >= profile[v].revision /\ b.revision # profile[v].revision
  BY <1>1, <1>5, OpenIs
<1>7. n \in Credentials /\ n.status = "CANDIDATE" /\ n.account = a
  BY DEF Credentials, P!CredentialStatus
<1>. HIDE DEF n
<1>8. /\ old \in [P!Credential -> Credentials]
      /\ \A d \in P!Credential :
           /\ old[d].account = credential[d].account
           /\ old[d].status = IF d = profile[v].credential /\ credential[d].status = "CANDIDATE"
                              THEN "REJECTED" ELSE credential[d].status
  BY <1>1, OpenIs, RejectedIs
<1>. HIDE DEF old
<1>9. /\ credential' \in [P!Credential -> Credentials]
      /\ \A d \in P!Credential : credential'[d] = IF d = c THEN n ELSE old[d]
  BY <1>1, <1>7, <1>8
<1>10. \A d \in P!Credential : credential[d].status = "CANDIDATE" => d = profile[v].credential
  BY <1>1, OpenIs, CandidatesAre
<1>11. \A d \in P!Credential :
         /\ credential[d].status # "ABSENT" =>
              credential'[d].status # "ABSENT" /\ credential'[d].account = credential[d].account
         /\ (credential'[d].status = "ACTIVE") <=> (credential[d].status = "ACTIVE")
         /\ (credential'[d].status = "UNRECORDED") <=> (credential[d].status = "UNRECORDED")
         /\ credential'[d].status = "CANDIDATE" => b.status = "DRAFT" /\ b.credential = d
  BY <1>1, <1>5, <1>7, <1>8, <1>9, <1>10
<1>12. b.credential # None =>
         /\ credential'[b.credential].status \notin {"ABSENT", "UNRECORDED"} /\ credential'[b.credential].account = b.account
         /\ b.status = "DRAFT" => credential'[b.credential].status = "CANDIDATE"
  BY <1>5, <1>7, <1>9
<1>13. b.credential # None
  BY <1>5, NoneIsNothing
<1>14. P!OpenVersions \subseteq {v} /\ profile[v].status # "ACTIVE"
  BY <1>1, OpenIs
<1>. QED  BY <1>1, <1>5, <1>6, <1>9, <1>11, <1>12, <1>13, <1>14, CandidateMoves

LEMMA CancelKeeps ==
  ASSUME ProfileInv, NEW v \in P!Version, P!Cancel(v) PROVE ProfileInv'
<1>. DEFINE b == [profile[v] EXCEPT !.status = "CANCELED"]
            old == P!Rejected(profile[v].credential)
<1>1. /\ v \in P!OpenVersions /\ profile' = [profile EXCEPT ![v] = b] /\ credential' = old
      /\ UNCHANGED <<active, account, opening, fee, attempt, runner, overruns>>
  BY DEF P!Cancel, P!work
<1>2. /\ b \in Profiles /\ b.status = "CANCELED" /\ b.credential = profile[v].credential
      /\ b.account = profile[v].account /\ b.revision = profile[v].revision
  BY <1>1, OpenIs DEF Profiles, P!ProfileStatus
<1>. HIDE DEF b
<1>3. /\ old \in [P!Credential -> Credentials]
      /\ \A d \in P!Credential :
           /\ old[d].account = credential[d].account
           /\ old[d].status = IF d = profile[v].credential /\ credential[d].status = "CANDIDATE"
                              THEN "REJECTED" ELSE credential[d].status
  BY <1>1, OpenIs, RejectedIs
<1>. HIDE DEF old
<1>4. \A d \in P!Credential : credential[d].status = "CANDIDATE" => d = profile[v].credential
  BY <1>1, OpenIs, CandidatesAre
<1>5. \A d \in P!Credential :
        /\ credential[d].status # "ABSENT" =>
             credential'[d].status # "ABSENT" /\ credential'[d].account = credential[d].account
        /\ (credential'[d].status = "ACTIVE") <=> (credential[d].status = "ACTIVE")
        /\ (credential'[d].status = "UNRECORDED") <=> (credential[d].status = "UNRECORDED")
        /\ credential'[d].status # "CANDIDATE"
  BY <1>1, <1>3, <1>4
<1>6. b.credential # None =>
        /\ credential'[b.credential].status \notin {"ABSENT", "UNRECORDED"}
        /\ credential'[b.credential].account = b.account
  <2>1. b.credential # None =>
          /\ b.credential \in P!Credential /\ credential[b.credential].status \notin {"ABSENT", "UNRECORDED"}
          /\ credential[b.credential].account = b.account
    BY <1>1, <1>2, OpenIs DEF ProfileInv, Credited
  <2>. QED  BY <1>5, <2>1
<1>7. b.revision >= profile[v].revision /\ credential' \in [P!Credential -> Credentials]
  BY <1>1, <1>2, <1>3, OpenIs
<1>. QED  BY <1>1, <1>2, <1>5, <1>6, <1>7, OpenIs, CandidateMoves

(* The credential in use of an account changes.                             *)
LEMMA InUseIs ==
  ASSUME ProfileInv, NEW c \in P!Credential, NEW a \in Account \cup {None}
  PROVE  /\ P!InUse(c, a) \in [P!Credential -> Credentials]
         /\ P!InUse(c, a)[c].status = "ACTIVE" /\ P!InUse(c, a)[c].account = a
         /\ \A d \in P!Credential : d # c =>
              /\ P!InUse(c, a)[d].account = credential[d].account
              /\ IF credential[d].account = a /\ credential[d].status = "ACTIVE"
                 THEN P!InUse(c, a)[d].status = "RETIRED"
                 ELSE P!InUse(c, a)[d].status = credential[d].status
<1>1. \A d \in P!Credential :
        /\ credential[d] \in Credentials
        /\ LET r == [credential[d] EXCEPT !.status = "RETIRED"] IN
           r \in Credentials /\ r.status = "RETIRED" /\ r.account = credential[d].account
  BY ProfileTyped DEF Credentials, P!CredentialStatus
<1>2. [status |-> "ACTIVE", account |-> a] \in Credentials
  BY DEF Credentials, P!CredentialStatus
<1>. QED  BY <1>1, <1>2 DEF P!InUse

LEMMA ActivateKeeps ==
  ASSUME ProfileInv, NEW v \in P!Version, NEW k \in P!Attempt, P!Activate(v, k) PROVE ProfileInv'
<1>. DEFINE b == [profile[v] EXCEPT !.status = "ACTIVE"]
            c == profile[v].credential
<1>1. /\ profile[v].status = "READY" /\ P!Holds(v, k)
      /\ profile' = [P!Superseded EXCEPT ![v].status = "ACTIVE"]
      /\ credential' = P!InUse(c, profile[v].account) /\ active' = v /\ account' = c
      /\ UNCHANGED <<opening, fee, attempt, runner, overruns>>
  BY DEF P!Activate, P!work
<1>2. /\ active # None => active \in P!Version /\ active # v
      /\ P!Superseded[v] = profile[v]
  BY <1>1, ProfileTyped DEF ProfileInv, Issuing, P!Superseded
<1>3. profile' = [P!Superseded EXCEPT ![v] = b]
  BY <1>1, <1>2
<1>4. profile[v] \in Profiles /\ c \in P!Credential
  <2>1. attempt[k].status # "ABSENT" /\ attempt[k].of = v
    BY <1>1 DEF P!Holds
  <2>. QED  BY <2>1, ProfileTyped DEF ProfileInv, Asked
<1>5. /\ b \in Profiles /\ b.status = "ACTIVE" /\ b.credential = c
      /\ b.account = profile[v].account /\ b.revision = profile[v].revision
  BY <1>4 DEF Profiles, P!ProfileStatus
<1>6. b.account \in Account \cup {None} /\ b.credential = profile[v].credential
  BY <1>4, <1>5 DEF Profiles
<1>. HIDE DEF b, c
<1>7. /\ credential' \in [P!Credential -> Credentials]
      /\ credential'[b.credential].status = "ACTIVE" /\ credential'[b.credential].account = b.account
      /\ \A d \in P!Credential : d # b.credential =>
           /\ credential'[d].account = credential[d].account
           /\ IF credential[d].account = b.account /\ credential[d].status = "ACTIVE"
              THEN credential'[d].status = "RETIRED" ELSE credential'[d].status = credential[d].status
  BY <1>1, <1>4, <1>5, <1>6, InUseIs
<1>8. account' = b.credential /\ b.credential \in P!Credential
  BY <1>1, <1>4, <1>5
<1>. QED  BY <1>1, <1>3, <1>5, <1>6, <1>7, <1>8, PublishMoves

LEMMA OpeningPublishesKeeps ==
  ASSUME ProfileInv, NEW v \in P!Version, NEW a \in Account, P!OpeningPublishes(v, a)
  PROVE  ProfileInv'
<1>. DEFINE b == [P!NoProfile EXCEPT !.status = "ACTIVE", !.origin = "AUTOMATIC_OPENING",
                                     !.account = a, !.credential = account, !.attested = TRUE]
<1>1. /\ profile[v].status = "ABSENT" /\ account # None /\ credential[account].status = "UNRECORDED"
      /\ profile' = [P!Superseded EXCEPT ![v] = b]
      /\ credential' = P!InUse(account, a)
      /\ active' = v /\ account' = account /\ UNCHANGED <<opening, fee, attempt, runner, overruns>>
  BY DEF P!OpeningPublishes, P!NextVersion, P!work
<1>2. 0 \in 0 .. MaxEdits /\ account \in P!Credential
  BY <1>1, ProfileTyped, NoneIsNothing
<1>3. b \in Profiles /\ b.status = "ACTIVE" /\ b.credential = account /\ b.account = a
  BY <1>2 DEF P!NoProfile, Profiles, P!ProfileStatus
<1>. HIDE DEF b
<1>4. /\ credential' \in [P!Credential -> Credentials]
      /\ credential'[b.credential].status = "ACTIVE" /\ credential'[b.credential].account = b.account
      /\ \A d \in P!Credential : d # b.credential =>
           /\ credential'[d].account = credential[d].account
           /\ IF credential[d].account = b.account /\ credential[d].status = "ACTIVE"
              THEN credential'[d].status = "RETIRED"
              ELSE credential'[d].status = credential[d].status
  BY <1>1, <1>2, <1>3, InUseIs
<1>5. account' = b.credential /\ b.credential \in P!Credential
  BY <1>1, <1>2, <1>3
<1>. QED  BY <1>1, <1>3, <1>4, <1>5, PublishMoves

(* The opening changes what the gateway account holds, and no version.      *)
LEMMA GatewayMoves ==
  ASSUME ProfileInv, credential' \in [P!Credential -> Credentials],
         account' \in P!Credential \cup {None}, opening' \in Openings,
         \A c \in P!Credential :
           /\ credential[c].status \notin {"ABSENT", "UNRECORDED"} =>
                /\ credential'[c].status \notin {"ABSENT", "UNRECORDED"}
                /\ credential'[c].account = credential[c].account
           /\ (credential'[c].status = "CANDIDATE") <=> (credential[c].status = "CANDIDATE"),
         active # None =>
           \E u \in P!Credential : \A c \in P!Credential :
             (credential'[c].status = "ACTIVE" /\ credential'[c].account = profile[active].account) <=> (c = u),
         Held', Renewing',
         UNCHANGED <<profile, active, fee, attempt, runner, overruns>>
  PROVE  ProfileInv'
<1>1. P!TypeOK'
  BY ProfileTyped, TypedNext
<1>2. Asked' /\ OneWaits' /\ RunsWork' /\ Counted' /\ Attested' /\ P!ValidatedAsItIs'
  <2>1. \A u \in P!Version : profile[u].revision \in Nat
    BY ProfileTyped, NoneIsNothing DEF Profiles
  <2>. QED  BY <2>1, AttemptsStand
<1>3. P!OpenVersions' = P!OpenVersions
  BY DEF P!OpenVersions
<1>4. Credited'
  <2>1. \A v \in P!Version : profile[v].credential \in P!Credential \cup {None}
    BY ProfileTyped
  <2>. QED  BY <1>3, <2>1 DEF ProfileInv, Credited
<1>5. Issuing'
  BY <1>3 DEF ProfileInv, Issuing
<1>. QED  BY <1>1, <1>2, <1>4, <1>5 DEF ProfileInv

(* A certificate comes to the gateway account.                              *)
LEMMA BringsKeeps ==
  ASSUME ProfileInv, NEW c \in P!Credential, P!Brings(c), opening' \in Openings,
         opening'.left = opening.left, opening'.at # "idle" => opening.at # "idle"
  PROVE  ProfileInv'
<1>. DEFINE n == [credential[c] EXCEPT !.status = "UNRECORDED"]
<1>1. /\ credential[c].status = "ABSENT" /\ credential' = [credential EXCEPT ![c] = n] /\ account' = c
      /\ UNCHANGED <<profile, active, fee, attempt, runner, overruns>>
  BY DEF P!Brings, P!NextCredential, P!work
<1>2. n \in Credentials /\ n.status = "UNRECORDED"
  BY ProfileTyped DEF Credentials, P!CredentialStatus
<1>. HIDE DEF n
<1>3. /\ credential' \in [P!Credential -> Credentials]
      /\ \A d \in P!Credential : credential'[d] = IF d = c THEN n ELSE credential[d]
  BY <1>1, <1>2, ProfileTyped
<1>4. Held' /\ Renewing'
  BY <1>1, <1>2, <1>3, NoneIsNothing DEF ProfileInv, Held, Renewing
<1>5. active # None =>
        \E u \in P!Credential : \A d \in P!Credential :
          (credential'[d].status = "ACTIVE" /\ credential'[d].account = profile[active].account) <=> (d = u)
  <2>. SUFFICES ASSUME active # None
                PROVE  \E u \in P!Credential : \A d \in P!Credential :
                         (credential'[d].status = "ACTIVE" /\ credential'[d].account = profile[active].account)
                           <=> (d = u)
    OBVIOUS
  <2>1. PICK u \in P!Credential : \A d \in P!Credential :
          (credential[d].status = "ACTIVE" /\ credential[d].account = profile[active].account) <=> (d = u)
    BY DEF ProfileInv, Issuing
  <2>. QED  BY <1>1, <1>2, <1>3, <2>1
<1>6. account' \in P!Credential \cup {None}
  BY <1>1
<1>. QED  BY <1>1, <1>2, <1>3, <1>4, <1>5, <1>6, GatewayMoves

(* The certificate of the gateway account becomes the one in use.           *)
LEMMA SyncKeeps == ASSUME ProfileInv, P!SyncOpeningCredential PROVE ProfileInv'
<1>1. /\ opening.at = "sync" /\ opening' = [opening EXCEPT !.at = "idle"]
      /\ UNCHANGED <<profile, active, account, fee, attempt, runner, overruns>>
      /\ credential' = IF account = None \/ credential[account].status = "ACTIVE" THEN credential
                       ELSE P!InUse(account, profile[active].account)
  BY DEF P!SyncOpeningCredential, P!work
<1>2. opening' \in Openings /\ opening'.left = opening.left /\ opening'.at = "idle"
  BY <1>1, ProfileTyped DEF Openings
<1>3. active # None /\ active \in P!Version /\ profile[active].account \in Account \cup {None}
  BY <1>1, ProfileTyped DEF ProfileInv, Renewing, Profiles
<1>4. CASE account = None \/ credential[account].status = "ACTIVE"
  <2>1. credential' = credential
    BY <1>1, <1>4
  <2>2. Held' /\ Renewing'
    BY <1>1, <1>2, <2>1 DEF ProfileInv, Held, Renewing
  <2>3. active # None =>
          \E u \in P!Credential : \A c \in P!Credential :
            (credential'[c].status = "ACTIVE" /\ credential'[c].account = profile[active].account) <=> (c = u)
    BY <2>1 DEF ProfileInv, Issuing
  <2>. QED  BY <1>1, <1>2, <2>1, <2>2, <2>3, ProfileTyped, GatewayMoves
<1>5. CASE account # None /\ credential[account].status # "ACTIVE"
  <2>1. account \in P!Credential /\ credential[account].status = "UNRECORDED"
    BY <1>5, ProfileTyped DEF ProfileInv, Held
  <2>2. /\ credential' \in [P!Credential -> Credentials]
        /\ credential'[account].status = "ACTIVE" /\ credential'[account].account = profile[active].account
        /\ \A d \in P!Credential : d # account =>
             /\ credential'[d].account = credential[d].account
             /\ IF credential[d].account = profile[active].account /\ credential[d].status = "ACTIVE"
                THEN credential'[d].status = "RETIRED" ELSE credential'[d].status = credential[d].status
    BY <1>1, <1>3, <1>5, <2>1, InUseIs
  <2>3. \A c \in P!Credential :
          (credential'[c].status = "ACTIVE" /\ credential'[c].account = profile[active].account)
            <=> (c = account)
    BY <2>2
  <2>4. Held' /\ Renewing'
    <3>1. Held'
      BY <1>1, <1>3, <1>5, <2>2 DEF Held
    <3>2. Renewing'
      BY <1>2 DEF Renewing
    <3>. QED  BY <3>1, <3>2
  <2>5. \A c \in P!Credential :
          /\ credential[c].status \notin {"ABSENT", "UNRECORDED"} =>
               /\ credential'[c].status \notin {"ABSENT", "UNRECORDED"}
               /\ credential'[c].account = credential[c].account
          /\ (credential'[c].status = "CANDIDATE") <=> (credential[c].status = "CANDIDATE")
    BY <2>1, <2>2
  <2>. QED  BY <1>1, <1>2, <2>1, <2>2, <2>3, <2>4, <2>5, GatewayMoves
<1>. QED  BY <1>4, <1>5

(* Steps of the opening that touch no credential.                           *)
LEMMA OpeningRests ==
  ASSUME ProfileInv, P!StartRenewal \/ P!RenewalEnds \/ P!CheckDisconnect \/ P!Disconnect
  PROVE  ProfileInv'
<1>1. /\ UNCHANGED <<profile, credential, active, fee, attempt, runner, overruns>>
      /\ account' \in {account, None}
  BY DEF P!StartRenewal, P!RenewalEnds, P!CheckDisconnect, P!Disconnect, P!work
<1>2. opening \in Openings
  BY ProfileTyped
<1>3. /\ opening' \in Openings
      /\ opening'.at # "idle" => active # None
      /\ opening.left => opening'.left
      /\ account' = account \/ opening'.left
  <2>1. CASE P!StartRenewal
    BY <1>2, <2>1, ProfileTyped DEF P!StartRenewal, Openings
  <2>2. CASE P!RenewalEnds
    BY <1>2, <2>2 DEF P!RenewalEnds, Openings
  <2>3. CASE P!CheckDisconnect
    BY <1>2, <2>3 DEF P!CheckDisconnect, Openings, ProfileInv, Renewing
  <2>4. CASE P!Disconnect
    BY <1>2, <2>4 DEF P!Disconnect, Openings, ProfileInv, Renewing
  <2>. QED  BY <2>1, <2>2, <2>3, <2>4
<1>4. Held' /\ Renewing'
  BY <1>1, <1>3 DEF ProfileInv, Held, Renewing
<1>5. active # None =>
        \E u \in P!Credential : \A c \in P!Credential :
          (credential'[c].status = "ACTIVE" /\ credential'[c].account = profile[active].account) <=> (c = u)
  BY <1>1 DEF ProfileInv, Issuing
<1>. QED  BY <1>1, <1>3, <1>4, <1>5, ProfileTyped, GatewayMoves

LEMMA OpeningKeeps == ASSUME ProfileInv, P!Opening PROVE ProfileInv'
<1>1. ASSUME NEW c \in P!Credential, P!Provision(c) \/ P!RecoverByHand(c) PROVE ProfileInv'
  BY <1>1, BringsKeeps, ProfileTyped DEF P!Provision, P!RecoverByHand
<1>2. ASSUME NEW c \in P!Credential, P!SaveRenewal(c) PROVE ProfileInv'
  <2>1. /\ P!Brings(c) /\ opening.at = "post" /\ opening' = [opening EXCEPT !.at = "sync"]
    BY <1>2 DEF P!SaveRenewal
  <2>2. opening' \in Openings /\ opening'.left = opening.left
    BY <2>1, ProfileTyped DEF Openings
  <2>. QED  BY <2>1, <2>2, BringsKeeps
<1>. QED  BY <1>1, <1>2, OpeningPublishesKeeps, SyncKeeps, OpeningRests DEF P!Opening

LEMMA AdministrationKeeps == ASSUME ProfileInv, P!Administration PROVE ProfileInv'
BY CreateCandidateKeeps, CancelKeeps, UpdateConfigurationKeeps, UploadCredentialsKeeps,
   RequestValidationKeeps, ActivateKeeps
   DEF P!Administration

LEMMA ValidationKeeps == ASSUME ProfileInv, NEW w \in Runner, P!Validation(w) PROVE ProfileInv'
BY ClaimKeeps, ReadProfileKeeps, StepsPassKeeps, FinishKeeps, ComputeHashKeeps, PromoteKeeps,
   StepFailsKeeps
   DEF P!Validation

LEMMA ProfileKeeps == ASSUME ProfileInv, P!Next PROVE ProfileInv'
BY AdministrationKeeps, OpeningKeeps, ValidationKeeps, StopKeeps, DueKeeps, ValidityEndsKeeps, ChangeFeeKeeps
   DEF P!Next

LEMMA ProfileRests == ASSUME ProfileInv, UNCHANGED profileVars PROVE ProfileInv'
BY DEF profileVars, ProfileInv, P!TypeOK, Credited, Asked, OneWaits, RunsWork, Counted, Attested,
       Issuing, Held, Renewing, P!Works, P!OpenVersions, P!ValidatedAsItIs, Going, Current

LEMMA ProfileBegins == ASSUME P!Init PROVE ProfileInv
<1>1. /\ profile = [v \in P!Version |-> P!NoProfile]
      /\ credential = [c \in P!Credential |-> [status |-> "ABSENT", account |-> None]]
      /\ active = None /\ account = None /\ opening = P!NotOpening /\ fee = 0 /\ overruns = 0
      /\ attempt = [k \in P!Attempt |-> P!NoAttempt] /\ runner = [w \in Runner |-> P!Idle]
  BY DEF P!Init
<1>2. /\ 0 \in 0 .. MaxEdits /\ 0 \in 0 .. MaxRuns + MaxOverruns
      /\ 0 \in 0 .. MaxFees /\ 0 \in 0 .. MaxOverruns
  BY NoneIsNothing
<1>3. P!NoProfile \in Profiles /\ P!NoProfile.status = "ABSENT" /\ P!NoProfile.credential = None
  BY <1>2 DEF P!NoProfile, Profiles, P!ProfileStatus
<1>4. P!NoAttempt \in Attempts /\ P!NoAttempt.status = "ABSENT"
  BY <1>2 DEF P!NoAttempt, Attempts, P!AttemptStatus
<1>5. P!Idle \in Runs /\ P!Idle.at = "idle" /\ P!Idle.on = None
  BY <1>2 DEF P!Idle, Runs
<1>6. [status |-> "ABSENT", account |-> None] \in Credentials
  BY DEF Credentials, P!CredentialStatus
<1>b. P!NotOpening \in Openings /\ P!NotOpening.at = "idle"
  BY DEF P!NotOpening, Openings
<1>7. P!TypeOK
  <2>1. /\ profile \in [P!Version -> Profiles] /\ credential \in [P!Credential -> Credentials]
        /\ active \in P!Version \cup {None} /\ account \in P!Credential \cup {None}
        /\ opening \in Openings
        /\ fee \in 0 .. MaxFees /\ attempt \in [P!Attempt -> Attempts]
        /\ runner \in [Runner -> Runs] /\ overruns \in 0 .. MaxOverruns
    BY <1>1, <1>2, <1>3, <1>4, <1>5, <1>6, <1>b
  <2>. QED  BY <2>1, ProfileTypes
<1>8. \A v \in P!Version : profile[v].status = "ABSENT" /\ profile[v].credential = None
  BY <1>1, <1>3
<1>9. \A k \in P!Attempt : attempt[k].status = "ABSENT"
  BY <1>1, <1>4
<1>10. \A w \in Runner : runner[w].at = "idle" /\ runner[w].on = None
  BY <1>1, <1>5
<1>11. \A c \in P!Credential : credential[c].status = "ABSENT"
  BY <1>1
<1>. QED  BY <1>1, <1>7, <1>8, <1>9, <1>10, <1>11, <1>b, NoneIsNothing
          DEF ProfileInv, Credited, Asked, OneWaits, RunsWork, Counted, Attested, Issuing,
              Held, Renewing, P!OpenVersions, P!Open, P!ValidatedAsItIs, Going

(* Only what was validated as it is becomes active from ready.              *)
LEMMA StepAsValidated == ASSUME ProfileInv, P!Next PROVE P!AsValidated
<1>. SUFFICES ASSUME NEW v \in P!Version, profile[v].status = "READY", profile'[v].status = "ACTIVE"
              PROVE  /\ profile[v].attested
                     /\ \E k \in P!Attempt :
                          /\ attempt[k].status = "SUCCEEDED" /\ attempt[k].of = v
                          /\ attempt[k].revision = profile[v].revision
                          /\ attempt[k].credential = profile[v].credential
                          /\ attempt[k].fee = fee \/ attempt[k].hash.fee = fee
  BY DEF P!AsValidated
<1>1. profile[v].attested
  BY DEF ProfileInv, Attested
<1>2. ASSUME NEW u \in P!Version, P!CreateCandidate(u) \/ P!Cancel(u) PROVE FALSE
  <2>1. CASE P!CreateCandidate(u)
    BY <2>1, ProfileTyped DEF P!CreateCandidate, P!NoProfile
  <2>2. CASE P!Cancel(u)
    <3>1. profile' = [profile EXCEPT ![u].status = "CANCELED"]
      BY <2>2 DEF P!Cancel
    <3>. QED  BY <3>1, ProfileTyped DEF Profiles
  <2>. QED  BY <1>2, <2>1, <2>2
<1>3. ASSUME NEW u \in P!Version, NEW attested \in BOOLEAN, P!UpdateConfiguration(u, attested) PROVE FALSE
  BY <1>3, ProfileTyped DEF P!UpdateConfiguration, P!Edited
<1>4. ASSUME NEW u \in P!Version, NEW c \in P!Credential, NEW a \in Account, P!UploadCredentials(u, c, a)
      PROVE  FALSE
  BY <1>4, ProfileTyped DEF P!UploadCredentials, P!Edited
<1>5. ASSUME NEW u \in P!Version, NEW a \in Account, P!OpeningPublishes(u, a) PROVE FALSE
  <2>1. v # u /\ profile[u].status = "ABSENT"
    BY <1>5 DEF P!OpeningPublishes, P!NextVersion
  <2>2. profile'[v] = P!Superseded[v]
    BY <1>5, <2>1 DEF P!OpeningPublishes, P!NoProfile
  <2>3. active # v
    BY DEF ProfileInv, Issuing
  <2>. QED  BY <2>2, <2>3, ProfileTyped DEF P!Superseded
<1>6. ASSUME NEW u \in P!Version, NEW k \in P!Attempt, P!RequestValidation(u, k) PROVE FALSE
  BY <1>6, ProfileTyped DEF P!RequestValidation
<1>7. ASSUME NEW u \in P!Version, NEW k \in P!Attempt, P!Activate(u, k)
      PROVE  /\ attempt[k].status = "SUCCEEDED" /\ attempt[k].of = v
             /\ attempt[k].revision = profile[v].revision
             /\ attempt[k].credential = profile[v].credential
             /\ attempt[k].fee = fee \/ attempt[k].hash.fee = fee
  <2>1. CASE u = v
    <3>1. /\ attempt[k].status = "SUCCEEDED" /\ attempt[k].of = v
          /\ attempt[k].revision = profile[v].revision /\ attempt[k].hash = P!HashOf(v)
      BY <1>7, <2>1 DEF P!Activate, P!Holds
    <3>2. attempt[k].credential = profile[v].credential
      BY <3>1 DEF ProfileInv, Asked, Current
    <3>3. attempt[k].hash.fee = fee
      BY <3>1 DEF P!HashOf
    <3>. QED  BY <3>1, <3>2, <3>3
  <2>2. CASE u # v
    <3>1. profile'[v] = P!Superseded[v]
      BY <1>7, <2>2 DEF P!Activate
    <3>2. active # v
      BY DEF ProfileInv, Issuing
    <3>. QED  BY <3>1, <3>2, ProfileTyped DEF P!Superseded
  <2>. QED  BY <2>1, <2>2
<1>8. ASSUME NEW w \in Runner, P!Finish(w) \/ P!Promote(w) PROVE FALSE
  <2>1. \/ profile' = profile
        \/ \E u : profile' = [profile EXCEPT ![u].status = "VALIDATION_FAILED"]
        \/ \E u, h : profile' = [profile EXCEPT ![u].status = "READY", ![u].hash = h]
    <3>1. CASE P!Finish(w)
      BY <3>1 DEF P!Finish
    <3>2. CASE P!Promote(w)
      BY <3>2 DEF P!Promote
    <3>. QED  BY <1>8, <3>1, <3>2
  <2>2. ASSUME NEW u, profile' = [profile EXCEPT ![u].status = "VALIDATION_FAILED"] PROVE FALSE
    BY <2>2, ProfileTyped DEF Profiles
  <2>3. ASSUME NEW u, NEW h, profile' = [profile EXCEPT ![u].status = "READY", ![u].hash = h] PROVE FALSE
    BY <2>3, ProfileTyped DEF Profiles
  <2>. QED  BY <2>1, <2>2, <2>3
<1>9. ASSUME NEW w \in Runner, P!Validation(w) \/ P!Stop(w) PROVE FALSE
  BY <1>8, <1>9 DEF P!Validation, P!Stop, P!Claim, P!ReadProfile, P!StepsPass, P!ComputeHash,
                    P!StepFails, P!books
<1>10. ASSUME (\E k \in P!Attempt : P!Due(k) \/ P!ValidityEnds(k)) \/ P!ChangeFee PROVE FALSE
  BY <1>10 DEF P!Due, P!ValidityEnds, P!ChangeFee, P!books
<1>11. ASSUME \/ \E c \in P!Credential : P!Provision(c) \/ P!RecoverByHand(c) \/ P!SaveRenewal(c)
              \/ P!StartRenewal \/ P!RenewalEnds \/ P!SyncOpeningCredential
              \/ P!CheckDisconnect \/ P!Disconnect
       PROVE  FALSE
  BY <1>11 DEF P!Provision, P!RecoverByHand, P!SaveRenewal, P!Brings, P!StartRenewal, P!RenewalEnds,
               P!SyncOpeningCredential, P!CheckDisconnect, P!Disconnect
<1>12. CASE P!Administration
  BY <1>1, <1>2, <1>3, <1>4, <1>6, <1>7, <1>12 DEF P!Administration
<1>13. CASE P!Opening
  BY <1>5, <1>11, <1>13 DEF P!Opening
<1>. QED  BY <1>9, <1>10, <1>12, <1>13 DEF P!Next

(***************************************************************************)
(* The two together, each without the bounds of the parts: MCSpec is a     *)
(* restriction of Spec /\ P!Spec.                                          *)
(***************************************************************************)
LEMMA ProfilesHold == P!Spec => []ProfileInv
<1>1. P!Init => ProfileInv
  BY ProfileBegins
<1>2. ProfileInv /\ [P!Next]_P!vars => ProfileInv'
  BY ProfileKeeps, ProfileRests DEF profileVars, P!vars, P!books, P!work
<1>. QED  BY <1>1, <1>2, PTL DEF P!Spec

LEMMA PartsRestrict == MCSpec => Spec /\ P!Spec
<1>1. MCInit => Init /\ P!Init
  BY DEF MCInit
<1>2. [MCNext]_parts => [Next]_vars /\ [P!Next]_P!vars
  BY DEF MCNext, parts, profileVars, P!vars, P!books, P!work
<1>. QED  BY <1>1, <1>2, PTL DEF MCSpec, Spec, P!Spec

(* Versions, credentials, validations and runs keep to the schema as well:  *)
(* no validation is worked on more often than the limit and the runs that   *)
(* stopped or were overtaken allow.                                         *)
THEOREM PartsAreTyped == Spec /\ P!Spec => []PartsTypeOK
<1>1. IInv /\ ProfileInv => PartsTypeOK
  BY DEF IInv, ProfileInv, PartsTypeOK
<1>. QED  BY <1>1, Invariant, ProfilesHold, PTL

(* What charges are issued with is one and whole, and a profile waits or is *)
(* ready only by a validation of this very revision, however many versions, *)
(* uploads, validations that overlap and runs that stop there are, beside   *)
(* an opening, its renewals, recoveries and disconnections.                 *)
THEOREM ProfilesAreSound == P!Spec => []ProfilesStand
<1>1. ProfileInv => ProfilesStand
  BY IssuingIs DEF ProfileInv, ProfilesStand
<1>. QED  BY <1>1, ProfilesHold, PTL

(* What is in force is what its owners decided: nothing is stored for a     *)
(* company that left, nor over a profile made by hand but by persons, and a *)
(* profile that becomes active was validated with this very credential as   *)
(* it is then, and attested by its owner.                                   *)
THEOREM OwnersHaveDecided == Spec /\ P!Spec => OwnersDecide
<1>1. ProfileInv /\ [P!Next]_P!vars => [P!AsValidated]_P!vars
  BY StepAsValidated
<1>. QED  BY <1>1, OverForGood, ProfilesHold, PTL
          DEF P!Spec, OwnersDecide, P!ActivatedAsValidated

(* So do the behaviours of each part that is looked at on small instances.  *)
THEOREM PartsStand == MCSpec => []PartsTypeOK /\ []ProfilesStand /\ OwnersDecide
BY PartsRestrict, PartsAreTyped, ProfilesAreSound, OwnersHaveDecided, PTL
=============================================================================
