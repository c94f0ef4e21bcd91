--------------------------- MODULE AccountOpening ---------------------------
(***************************************************************************)
(* The opening of a company's account at Efi: a draft is submitted, the    *)
(* representative is told by WhatsApp, the account is asked for, and once  *)
(* the representative agrees its credentials, certificate and Pix key are  *)
(* made and stored. Neither the request of an account nor that of a        *)
(* certificate may be repeated, so each is marked before it is made.       *)
(*                                                                         *)
(* The company has one row, one gateway account and perhaps an active      *)
(* profile, made by the opening or by hand (FinancialActivation). A run of *)
(* the provisioner reads the row and takes it in one step, and a run that  *)
(* lives ends within its lease of fifteen minutes: at most one works.      *)
(***************************************************************************)
EXTENDS Integers, FiniteSets

CONSTANTS
  MaxRevisions,   \* bound: drafts ever saved
  MaxNotices,     \* NOTICE_DELAYS and the last try
  MaxProvisions,  \* runs of the provisioner before it gives up
  MaxHalts,       \* bound: runs that stop halfway
  MaxRetries,     \* bound: interventions of an administrator
  Submitter,      \* submissions that can overlap
  Nobody          \* no account, no keys counted

ASSUME BoundsAssumption ==
  /\ MaxRevisions \in Nat /\ MaxNotices \in Nat /\ MaxProvisions \in Nat
  /\ MaxHalts \in Nat /\ MaxRetries \in Nat
ASSUME NobodyAssumption == Nobody \notin Nat

Revision == 1 .. MaxRevisions
EfiAccount == Revision  \* in the order of creation
Status == {"NONE", "DRAFT", "NOTICE_PENDING", "SUBMISSION_UNCERTAIN",
           "AWAITING_REPRESENTATIVE", "EFI_PROCESSING", "REFUSED", "CORRECTION_REQUIRED",
           "PROVISIONING", "CONFIGURATION_ERROR", "ACTIVE", "DISCONNECTED"}
Pending == {"AWAITING_REPRESENTATIVE", "EFI_PROCESSING"}
InFlight == Pending \cup {"NOTICE_PENDING", "SUBMISSION_UNCERTAIN", "PROVISIONING"}
Maker == {"none", "opening", "renewal", "byhand", "manual"}

VARIABLES
  row,          \* EfiOnboarding; due: what it waits for has come
  gateway,      \* GatewayAccount: whose secrets, by whom its certificate, the key
  origin,       \* of the active profile: "none", "opening" or "manual"
  published,    \* revisions of the profiles the opening published
  efi,          \* the accounts at Efi, and what was ever made for each
  request,      \* revision that submit of a request checked, or 0
  submitter,    \* the submissions
  provisioner,  \* the run of the provisioner
  renewer,      \* the renewal: its step and the certificate it replaces
  leaving,      \* disconnect has seen no profile made by hand
  halts,        \* runs that stopped
  retries       \* interventions

database == <<row, gateway, origin, published>>
runs == <<submitter, provisioner, renewer>>
counters == <<halts, retries>>
vars == <<database, efi, request, runs, leaving, counters>>

NoRow == [status |-> "NONE", revision |-> 0, consented |-> FALSE, notices |-> 0,
          noticed |-> FALSE, due |-> TRUE, request |-> Nobody, runs |-> 0,
          certAsked |-> FALSE, keysBefore |-> Nobody, renewalOf |-> "none"]
NoGateway == [status |-> "NONE", of |-> Nobody, certificate |-> "none", key |-> FALSE]
Wiped == [NoGateway EXCEPT !.status = "DISABLED"]
NotSubmitting == [at |-> "idle", notices |-> 0, noticed |-> FALSE,
                  result |-> "none", account |-> Nobody]
NotProvisioning == [at |-> "idle", run |-> 0]
NotRenewing == [at |-> "idle", had |-> "none"]

Submits(w, becomes) == submitter' = [submitter EXCEPT ![w] = becomes]

(***************************************************************************)
(* The company.                                                            *)
(***************************************************************************)
(* canEditOnboarding: after a refusal, two days later.                      *)
Editable ==
  \/ row.status \in {"NONE", "DRAFT", "CORRECTION_REQUIRED"}
  \/ row.status = "REFUSED" /\ row.due

SaveDraft(consent) ==
  /\ Editable
  /\ row.revision < MaxRevisions
  /\ row' = [NoRow EXCEPT !.status = "DRAFT", !.revision = row.revision + 1, !.consented = consent]
  /\ UNCHANGED <<gateway, origin, published, efi, request, runs, leaving, counters>>

CheckSubmit ==
  /\ request = 0
  /\ origin # "manual"
  /\ row.status = "DRAFT" /\ row.consented
  /\ request' = row.revision
  /\ UNCHANGED <<database, efi, runs, leaving, counters>>

(* Still the draft that was checked, or the request is refused. *)
Submit ==
  /\ request # 0
  /\ request' = 0
  /\ row' = IF row.status = "DRAFT" /\ row.revision = request
            THEN [row EXCEPT !.status = "NOTICE_PENDING"] ELSE row
  /\ UNCHANGED <<gateway, origin, published, efi, runs, leaving, counters>>

(***************************************************************************)
(* The submission: its updates ask for the status only, never the revision.*)
(***************************************************************************)
StartSubmit(w) ==
  /\ submitter[w].at = "idle"
  /\ row.status = "NOTICE_PENDING" /\ row.due
  /\ origin # "manual"
  /\ Submits(w, [NotSubmitting EXCEPT !.at = IF row.noticed THEN "claim" ELSE "notice",
                                      !.notices = row.notices, !.noticed = row.noticed])
  /\ UNCHANGED <<database, efi, request, provisioner, renewer, leaving, counters>>

Fails(from, to) == IF row.status = from THEN [row EXCEPT !.status = to] ELSE row

(* The data of the representative was kept for thirty days, or the          *)
(* company's document changed.                                              *)
DataExpired(w) ==
  /\ submitter[w].at = "notice" \/ (submitter[w].at = "claim" /\ submitter[w].noticed)
  /\ row' = Fails("NOTICE_PENDING", "CORRECTION_REQUIRED")
  /\ Submits(w, NotSubmitting)
  /\ UNCHANGED <<gateway, origin, published, efi, request, provisioner, renewer, leaving, counters>>

ClaimNotice(w) ==
  /\ submitter[w].at = "notice"
  /\ IF row.status = "NOTICE_PENDING" /\ row.notices = submitter[w].notices
     THEN /\ row' = [row EXCEPT !.notices = @ + 1]
          /\ Submits(w, [submitter[w] EXCEPT !.at = "sending", !.notices = @ + 1])
     ELSE UNCHANGED row /\ Submits(w, NotSubmitting)
  /\ UNCHANGED <<gateway, origin, published, efi, request, provisioner, renewer, leaving, counters>>

NoticeAccepted(w) ==
  /\ submitter[w].at = "sending"
  /\ row' = IF row.status = "NOTICE_PENDING" THEN [row EXCEPT !.noticed = TRUE] ELSE row
  /\ Submits(w, [submitter[w] EXCEPT !.at = "claim"])
  /\ UNCHANGED <<gateway, origin, published, efi, request, provisioner, renewer, leaving, counters>>

NoticeFails(w, permanent) ==
  /\ submitter[w].at = "sending"
  /\ row' = IF permanent \/ submitter[w].notices >= MaxNotices
            THEN Fails("NOTICE_PENDING", "CORRECTION_REQUIRED")
            ELSE IF row.status = "NOTICE_PENDING" THEN [row EXCEPT !.due = FALSE] ELSE row
  /\ Submits(w, NotSubmitting)
  /\ UNCHANGED <<gateway, origin, published, efi, request, provisioner, renewer, leaving, counters>>

(* A variant: the request is made before it is marked.                      *)
MarkLater(w) ==
  /\ submitter[w].at = "claim"
  /\ UNCHANGED row
  /\ Submits(w, IF row.status = "NOTICE_PENDING" /\ row.noticed
                THEN [submitter[w] EXCEPT !.at = "post"] ELSE NotSubmitting)
  /\ UNCHANGED <<gateway, origin, published, efi, request, provisioner, renewer, leaving, counters>>

(* From here on it is uncertain whether an account was asked for.           *)
ClaimRequest(w) ==
  /\ submitter[w].at = "claim"
  /\ IF row.status = "NOTICE_PENDING" /\ row.noticed
     THEN /\ row' = [row EXCEPT !.status = "SUBMISSION_UNCERTAIN"]
          /\ Submits(w, [submitter[w] EXCEPT !.at = "post"])
     ELSE UNCHANGED row /\ Submits(w, NotSubmitting)
  /\ UNCHANGED <<gateway, origin, published, efi, request, provisioner, renewer, leaving, counters>>

Absent(a) == efi[a].status = "absent" /\ \A b \in 1 .. a - 1 : efi[b].status # "absent"

(* Efi creates the account, and its answer may be lost, or refuses the data *)
(* or the credentials of the platform.                                      *)
PostAccount(w) ==
  /\ submitter[w].at = "post"
  /\ \/ \E a \in EfiAccount, answered \in BOOLEAN :
          /\ Absent(a)
          /\ efi' = [efi EXCEPT ![a].status = "waiting"]
          /\ Submits(w, [submitter[w] EXCEPT !.at = "record",
               !.account = IF answered THEN a ELSE Nobody,
               !.result = IF answered THEN "AWAITING_REPRESENTATIVE" ELSE "SUBMISSION_UNCERTAIN"])
     \/ \E result \in {"CORRECTION_REQUIRED", "CONFIGURATION_ERROR", "SUBMISSION_UNCERTAIN"} :
          /\ UNCHANGED efi
          /\ Submits(w, [submitter[w] EXCEPT !.at = "record", !.result = result])
  /\ UNCHANGED <<database, request, provisioner, renewer, leaving, counters>>

RecordRequest(w) ==
  /\ submitter[w].at = "record"
  /\ row' = IF row.status = "SUBMISSION_UNCERTAIN"
            THEN [row EXCEPT !.status = submitter[w].result,
                             !.request = IF submitter[w].account = Nobody THEN @ ELSE submitter[w].account]
            ELSE row
  /\ Submits(w, NotSubmitting)
  /\ UNCHANGED <<gateway, origin, published, efi, request, provisioner, renewer, leaving, counters>>

Submission(w) ==
  \/ StartSubmit(w) \/ DataExpired(w) \/ ClaimNotice(w) \/ NoticeAccepted(w)
  \/ \E permanent \in BOOLEAN : NoticeFails(w, permanent)
  \/ ClaimRequest(w) \/ PostAccount(w) \/ RecordRequest(w)

(***************************************************************************)
(* Efi and its representative, and how the company hears of them.          *)
(***************************************************************************)
EfiMoves(a, to) ==
  /\ efi[a].status = IF to = "open" THEN "processing" ELSE "waiting"
  /\ efi' = [efi EXCEPT ![a].status = to]
  /\ UNCHANGED <<database, request, runs, leaving, counters>>

(* conta_aberta, or reconcile by asking for the credentials.                *)
HearOpened ==
  /\ row.status \in Pending /\ efi[row.request].status = "open"
  /\ row' = [row EXCEPT !.status = "PROVISIONING", !.runs = 0, !.due = TRUE]
  /\ UNCHANGED <<gateway, origin, published, efi, request, runs, leaving, counters>>

HearProcessing ==
  /\ row.status = "AWAITING_REPRESENTATIVE" /\ efi[row.request].status = "processing"
  /\ row' = [row EXCEPT !.status = "EFI_PROCESSING"]
  /\ UNCHANGED <<gateway, origin, published, efi, request, runs, leaving, counters>>

HearDeclined ==
  /\ row.status \in Pending /\ efi[row.request].status = "declined"
  /\ row' = [row EXCEPT !.status = "REFUSED", !.consented = FALSE, !.due = FALSE]
  /\ UNCHANGED <<gateway, origin, published, efi, request, runs, leaving, counters>>

(***************************************************************************)
(* The provisioner.                                                        *)
(***************************************************************************)
At(step) == provisioner.at = step
GoesTo(step) == provisioner' = [provisioner EXCEPT !.at = step]

(* A variant: the lease is of the row in whatever status it is.             *)
LeasedByRun == row.runs = provisioner.run

Leased == row.status = "PROVISIONING" /\ row.runs = provisioner.run

(* A variant: it never gives up.                                            *)
StartAgain ==
  /\ At("idle")
  /\ row.status = "PROVISIONING" /\ row.due
  /\ row' = [row EXCEPT !.runs = @ + 1, !.due = FALSE]
  /\ provisioner' = [at |-> "credentials", run |-> row.runs + 1]
  /\ UNCHANGED <<gateway, origin, published, efi, request, submitter, renewer, leaving, counters>>

StartProvision ==
  /\ At("idle")
  /\ row.status = "PROVISIONING" /\ row.due /\ row.runs < MaxProvisions
  /\ IF origin = "manual"
     THEN row' = [row EXCEPT !.status = "CONFIGURATION_ERROR"] /\ UNCHANGED provisioner
     ELSE /\ row' = [row EXCEPT !.runs = @ + 1, !.due = FALSE]
          /\ provisioner' = [at |-> "credentials", run |-> row.runs + 1]
  /\ UNCHANGED <<gateway, origin, published, efi, request, submitter, renewer, leaving, counters>>

(* The credentials of the account, stored under the lease.                  *)
StoreCredentials ==
  /\ At("credentials")
  /\ IF Leased
     THEN /\ gateway' = [gateway EXCEPT !.status = "PENDING", !.of = row.request]
          /\ GoesTo(IF gateway.certificate # "none" THEN "key"
                    ELSE IF row.certAsked THEN "terminal" ELSE "certificate")
     ELSE UNCHANGED gateway /\ GoesTo("terminal")
  /\ UNCHANGED <<row, origin, published, efi, request, submitter, renewer, leaving, counters>>

MarkCertificate ==
  /\ At("certificate")
  /\ row' = IF Leased THEN [row EXCEPT !.certAsked = TRUE] ELSE row
  /\ GoesTo(IF Leased THEN "makeCertificate" ELSE "terminal")
  /\ UNCHANGED <<gateway, origin, published, efi, request, submitter, renewer, leaving, counters>>

MakeCertificate ==
  /\ At("makeCertificate")
  /\ efi' = [efi EXCEPT ![row.request].certificates = @ + 1]
  /\ \E answered \in BOOLEAN : GoesTo(IF answered THEN "saveCertificate" ELSE "fails")
  /\ UNCHANGED <<database, request, submitter, renewer, leaving, counters>>

SaveCertificate ==
  /\ At("saveCertificate")
  /\ gateway' = IF Leased THEN [gateway EXCEPT !.certificate = "opening"] ELSE gateway
  /\ GoesTo(IF Leased THEN "key" ELSE "terminal")
  /\ UNCHANGED <<row, origin, published, efi, request, submitter, renewer, leaving, counters>>

(* ensureEvp: a key asked for before is the one the account has gained.     *)
EnsureKey ==
  /\ At("key")
  /\ IF gateway.key THEN UNCHANGED row /\ GoesTo("finish")
     ELSE IF row.keysBefore # Nobody
     THEN /\ UNCHANGED row
          /\ GoesTo(IF efi[row.request].keys - row.keysBefore = 1 THEN "saveKey" ELSE "terminal")
     ELSE /\ row' = IF Leased THEN [row EXCEPT !.keysBefore = efi[row.request].keys] ELSE row
          /\ GoesTo(IF Leased THEN "makeKey" ELSE "terminal")
  /\ UNCHANGED <<gateway, origin, published, efi, request, submitter, renewer, leaving, counters>>

MakeKey ==
  /\ At("makeKey")
  /\ efi' = [efi EXCEPT ![row.request].keys = @ + 1]
  /\ \E answered \in BOOLEAN : GoesTo(IF answered THEN "saveKey" ELSE "fails")
  /\ UNCHANGED <<database, request, submitter, renewer, leaving, counters>>

SaveKey ==
  /\ At("saveKey")
  /\ gateway' = IF Leased THEN [gateway EXCEPT !.key = TRUE] ELSE gateway
  /\ GoesTo(IF Leased THEN "finish" ELSE "terminal")
  /\ UNCHANGED <<row, origin, published, efi, request, submitter, renewer, leaving, counters>>

(* The row, the gateway account and the profile become active together. The *)
(* profile of a revision is created once: a second one is a failure.        *)
FinishOpening ==
  /\ At("finish")
  /\ IF Leased /\ origin # "manual" /\ row.revision \notin published
     THEN /\ row' = [row EXCEPT !.status = "ACTIVE", !.certAsked = FALSE, !.keysBefore = Nobody,
                                     !.renewalOf = "none"]
          /\ gateway' = [gateway EXCEPT !.status = "ACTIVE"]
          /\ origin' = "opening"
          /\ published' = published \cup {row.revision}
          /\ provisioner' = NotProvisioning
     ELSE /\ UNCHANGED database
          /\ GoesTo(IF Leased /\ origin # "manual" THEN "fails" ELSE "terminal")
  /\ UNCHANGED <<efi, request, submitter, renewer, leaving, counters>>

(* What a step asks of Efi or the database, or finds in its answer.         *)
StepBreaks ==
  /\ provisioner.at \notin {"idle", "fails", "terminal"}
  /\ \E to \in {"fails", "terminal"} : GoesTo(to)
  /\ UNCHANGED <<database, efi, request, submitter, renewer, leaving, counters>>

ProvisionFails ==
  /\ provisioner.at \in {"fails", "terminal"}
  /\ row' = IF ~Leased THEN row
            ELSE IF At("terminal") \/ provisioner.run >= MaxProvisions
            THEN [row EXCEPT !.status = "CONFIGURATION_ERROR"]
            ELSE [row EXCEPT !.due = FALSE]
  /\ provisioner' = NotProvisioning
  /\ UNCHANGED <<gateway, origin, published, efi, request, submitter, renewer, leaving, counters>>

Provisioning ==
  \/ StartProvision \/ StoreCredentials \/ MarkCertificate \/ MakeCertificate \/ SaveCertificate
  \/ EnsureKey \/ MakeKey \/ SaveKey \/ FinishOpening \/ StepBreaks \/ ProvisionFails

(* A variant: one run too many is waited for.                               *)
ExhaustedLater ==
  /\ row.status = "PROVISIONING" /\ row.due /\ row.runs > MaxProvisions
  /\ row' = [row EXCEPT !.status = "CONFIGURATION_ERROR"]
  /\ UNCHANGED <<gateway, origin, published, efi, request, runs, leaving, counters>>

(* recover: the last lease is over.                                         *)
Exhausted ==
  /\ row.status = "PROVISIONING" /\ row.due /\ row.runs >= MaxProvisions
  /\ row' = [row EXCEPT !.status = "CONFIGURATION_ERROR"]
  /\ UNCHANGED <<gateway, origin, published, efi, request, runs, leaving, counters>>

(***************************************************************************)
(* The renewal of a certificate about to expire, once per certificate.     *)
(***************************************************************************)
ClaimRenewal ==
  /\ renewer.at = "idle"
  /\ row.status = "ACTIVE" /\ row.request # Nobody
  /\ origin # "manual"
  /\ gateway.certificate \in {"opening", "byhand"} \* bound: one renewal of a renewed one
  /\ row.renewalOf # gateway.certificate
  /\ row' = [row EXCEPT !.renewalOf = gateway.certificate]
  /\ renewer' = [at |-> "post", had |-> gateway.certificate]
  /\ UNCHANGED <<gateway, origin, published, efi, request, submitter, provisioner, leaving, counters>>

PostRenewal ==
  /\ renewer.at = "post"
  /\ efi' = [efi EXCEPT ![row.request].renewals = @ + 1]
  /\ \E answered \in BOOLEAN :
       renewer' = IF answered THEN [renewer EXCEPT !.at = "save"] ELSE NotRenewing
  /\ UNCHANGED <<database, request, submitter, provisioner, leaving, counters>>

SaveRenewal ==
  /\ renewer.at = "save"
  /\ gateway' = IF gateway.status = "ACTIVE" /\ gateway.certificate = renewer.had
                THEN [gateway EXCEPT !.certificate = "renewal"] ELSE gateway
  /\ renewer' = NotRenewing
  /\ UNCHANGED <<row, origin, published, efi, request, submitter, provisioner, leaving, counters>>

(***************************************************************************)
(* The administration.                                                     *)
(***************************************************************************)
Intervenes == retries < MaxRetries /\ retries' = retries + 1 /\ UNCHANGED halts

Retry ==
  /\ Intervenes
  /\ row.status = "CONFIGURATION_ERROR" /\ row.request # Nobody
  /\ row' = [row EXCEPT !.status = "PROVISIONING", !.runs = 0, !.due = TRUE]
  /\ UNCHANGED <<gateway, origin, published, efi, request, runs, leaving>>

(* manual, whose last step is Retry: the account found in Efi's panel, and  *)
(* perhaps a certificate made there.                                        *)
ByHand(a, certificate) ==
  /\ Intervenes
  /\ row.status \in {"SUBMISSION_UNCERTAIN", "CONFIGURATION_ERROR", "ACTIVE"}
  /\ row.status = "ACTIVE" => certificate
  /\ row.request \in {Nobody, a}
  /\ efi[a].status = "open"
  /\ row' = [row EXCEPT !.status = "CONFIGURATION_ERROR", !.request = a]
  /\ gateway' = IF certificate
                THEN [gateway EXCEPT !.status = "PENDING", !.of = a, !.certificate = "byhand"]
                ELSE gateway
  /\ UNCHANGED <<origin, published, efi, request, runs, leaving>>

CloseForManual ==
  /\ row.status \in InFlight
  /\ row' = [row EXCEPT !.status = "DISCONNECTED"]
  /\ UNCHANGED <<gateway, origin, published, efi, request, runs, leaving, counters>>

(* The activation of a profile made by hand, in FinancialActivation.        *)
ActivateByHand ==
  /\ row.status \notin InFlight
  /\ origin # "manual"
  /\ origin' = "manual"
  /\ gateway' = [status |-> "ACTIVE", of |-> Nobody, certificate |-> "manual", key |-> TRUE]
  /\ UNCHANGED <<row, published, efi, request, runs, leaving, counters>>

CheckDisconnect ==
  /\ ~leaving
  /\ origin # "manual" /\ row.status # "NONE"
  /\ leaving' = TRUE
  /\ UNCHANGED <<database, efi, request, runs, counters>>

Disconnect ==
  /\ leaving
  /\ leaving' = FALSE
  /\ row' = [row EXCEPT !.status = "DISCONNECTED"]
  /\ gateway' = IF gateway.status = "NONE" THEN gateway ELSE Wiped
  /\ UNCHANGED <<origin, published, efi, request, runs, counters>>

Administering ==
  \/ Retry \/ CloseForManual \/ ActivateByHand \/ CheckDisconnect \/ Disconnect
  \/ \E a \in EfiAccount, certificate \in BOOLEAN : ByHand(a, certificate)

(***************************************************************************)
(* Time, and processes that stop.                                          *)
(***************************************************************************)
(* The delay of a retry, the lease of a run that ended, or the two days     *)
(* after a refusal.                                                         *)
RowDue ==
  /\ ~row.due
  /\ row.status = "NOTICE_PENDING" \/ row.status = "REFUSED"
       \/ (row.status = "PROVISIONING" /\ At("idle"))
  /\ row' = [row EXCEPT !.due = TRUE]
  /\ UNCHANGED <<gateway, origin, published, efi, request, runs, leaving, counters>>

Halts == halts < MaxHalts /\ halts' = halts + 1 /\ UNCHANGED <<retries, database, efi, request, leaving>>

Halt ==
  \/ \E w \in Submitter : submitter[w].at # "idle" /\ Submits(w, NotSubmitting)
                         /\ Halts /\ UNCHANGED <<provisioner, renewer>>
  \/ ~At("idle") /\ provisioner' = NotProvisioning /\ Halts /\ UNCHANGED <<submitter, renewer>>
  \/ renewer.at # "idle" /\ renewer' = NotRenewing /\ Halts /\ UNCHANGED <<submitter, provisioner>>

Init ==
  /\ row = NoRow
  /\ gateway = NoGateway
  /\ origin = "none"
  /\ published = {}
  /\ efi = [a \in EfiAccount |-> [status |-> "absent", certificates |-> 0, keys |-> 0, renewals |-> 0]]
  /\ request = 0
  /\ submitter = [w \in Submitter |-> NotSubmitting]
  /\ provisioner = NotProvisioning
  /\ renewer = NotRenewing
  /\ leaving = FALSE
  /\ halts = 0
  /\ retries = 0

Next ==
  \/ \E consent \in BOOLEAN : SaveDraft(consent)
  \/ CheckSubmit \/ Submit
  \/ \E w \in Submitter : Submission(w)
  \/ \E a \in EfiAccount, to \in {"processing", "open", "declined"} : EfiMoves(a, to)
  \/ HearOpened \/ HearProcessing \/ HearDeclined
  \/ Provisioning \/ Exhausted
  \/ ClaimRenewal \/ PostRenewal \/ SaveRenewal
  \/ Administering
  \/ RowDue \/ Halt

Spec == Init /\ [][Next]_vars

(***************************************************************************)
(* Properties.                                                             *)
(***************************************************************************)
Row == [status : Status, revision : 0 .. MaxRevisions, consented : BOOLEAN, notices : Nat,
        noticed : BOOLEAN, due : BOOLEAN, request : EfiAccount \cup {Nobody},
        runs : 0 .. MaxProvisions, certAsked : BOOLEAN, keysBefore : {0, Nobody}, renewalOf : Maker]
Gateway == [status : {"NONE", "PENDING", "ACTIVE", "DISABLED"}, of : EfiAccount \cup {Nobody},
            certificate : Maker, key : BOOLEAN]
AtEfi == [status : {"absent", "waiting", "processing", "open", "declined"},
          certificates : {0, 1}, keys : {0, 1}, renewals : {0, 1}]
Submitting == [at : {"idle", "notice", "sending", "claim", "post", "record"},
               notices : Nat, noticed : BOOLEAN,
               result : {"none", "AWAITING_REPRESENTATIVE", "SUBMISSION_UNCERTAIN",
                         "CORRECTION_REQUIRED", "CONFIGURATION_ERROR"},
               account : EfiAccount \cup {Nobody}]
Run == [at : {"idle", "credentials", "certificate", "makeCertificate", "saveCertificate",
              "key", "makeKey", "saveKey", "finish", "fails", "terminal"},
        run : 0 .. MaxProvisions]

(* The row's fields are the schema's, and runs are at known steps.          *)
TypeOK ==
  /\ row \in Row
  /\ gateway \in Gateway
  /\ origin \in {"none", "opening", "manual"}
  /\ published \subseteq Revision
  /\ efi \in [EfiAccount -> AtEfi]
  /\ request \in 0 .. MaxRevisions
  /\ submitter \in [Submitter -> Submitting]
  /\ provisioner \in Run
  /\ renewer \in [at : {"idle", "post", "save"}, had : Maker]
  /\ leaving \in BOOLEAN
  /\ halts \in 0 .. MaxHalts /\ retries \in 0 .. MaxRetries

(* What Efi does not undo is done once, whatever stops, is lost or is tried *)
(* again: the company never has two accounts at Efi that were not declined, *)
(* and an account gets one certificate, one renewal of it and one key. And  *)
(* an opening is complete only with all it is made of, of one account: the  *)
(* credentials, a certificate, the key and the profile of this revision.    *)
NeverTwice ==
  /\ Cardinality({a \in EfiAccount : efi[a].status \in {"waiting", "processing", "open"}}) <= 1
  /\ \A a \in EfiAccount :
       efi[a].certificates <= 1 /\ efi[a].keys <= 1 /\ efi[a].renewals <= 1

Whole ==
  row.status = "ACTIVE" /\ origin = "opening" =>
    /\ gateway.status = "ACTIVE"
    /\ gateway.of = row.request
    /\ gateway.certificate # "none" /\ gateway.key
    /\ efi[row.request].status = "open"
    /\ row.revision \in published

OpenedOnce == NeverTwice /\ Whole

(* Once the company disconnected it stays so, and nothing is stored in its  *)
(* gateway account unless a profile is then made by hand; once a profile    *)
(* made by hand owns its money, that profile stays. Runs and renewals still *)
(* under way store nothing over either. Over a profile made by hand the     *)
(* gateway account is changed by persons alone: an administrator's recovery *)
(* of the opening (manual), and a disconnection that was asked for before   *)
(* the profile was activated.                                               *)
OpeningIsOver ==
  [][/\ row.status = "DISCONNECTED" =>
          /\ row'.status = "DISCONNECTED"
          /\ gateway' \in {gateway, Wiped} \/ (origin # "manual" /\ origin' = "manual")
     /\ origin = "manual" =>
          /\ origin' = "manual"
          /\ gateway' = gateway \/ (leaving /\ gateway' = Wiped) \/ retries' > retries]_vars

(* A submission ends, and so does the provisioning, unless a profile made   *)
(* by hand stands in the way of the former.                                 *)
OpeningEnds ==
  /\ row.status = "NOTICE_PENDING" ~> row.status # "NOTICE_PENDING" \/ origin = "manual"
  /\ row.status = "PROVISIONING" ~> row.status # "PROVISIONING"
=============================================================================
