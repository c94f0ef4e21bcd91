------------------------- MODULE FinancialActivation ------------------------
(***************************************************************************)
(* The financial profile of a company: candidates are prepared by hand,    *)
(* validated against Efi by a worker, and activated; the active one, its   *)
(* account and its credential are what charges are issued with.            *)
(*                                                                         *)
(* A version is a FinancialProfileVersion, an attempt a                    *)
(* FinancialValidationAttempt, a credential a certificate brought here and *)
(* the EfiCredentialVersion that records it, if any; each is numbered in   *)
(* the order of creation. A claim of an attempt is known by its number     *)
(* (attempts): it stands for leaseOwner. A database statement or           *)
(* transaction is one step; the steps of a validation, which read the fees *)
(* and ask Efi, are one that passes or fails. What may change outside the  *)
(* profile, and enters its hash, is the company's fee version.             *)
(*                                                                         *)
(* The opening of an account (AccountOpening) writes the gateway account   *)
(* too; what it may do to it is here, of its row no more than whether the  *)
(* company disconnected.                                                   *)
(***************************************************************************)
EXTENDS Integers, FiniteSets

CONSTANTS
  MaxVersions,   \* bound: profile versions ever created
  MaxRevisions,  \* bound: edits of a version
  MaxUploads,    \* bound: certificates ever brought here
  MaxFees,       \* bound: changes of the fee
  MaxAttempts,   \* bound: validations ever requested
  MaxRuns,       \* VALIDATION_MAX_ATTEMPTS
  MaxStops,      \* bound: runs that stop or outlive their lease
  Account,       \* the company's accounts at Efi
  Runner,        \* runs of the worker and of the recovery that can overlap
  None           \* no version, credential, account or hash

Version == 1 .. MaxVersions
Credential == 1 .. MaxUploads
Attempt == 1 .. MaxAttempts
ProfileStatus == {"ABSENT", "DRAFT", "VALIDATING", "VALIDATION_FAILED", "READY",
                  "ACTIVE", "SUPERSEDED", "CANCELED"}
Open == {"DRAFT", "VALIDATING", "VALIDATION_FAILED", "READY"}
\* In the gateway account alone: of no EfiCredentialVersion.
CredentialStatus == {"ABSENT", "UNRECORDED", "CANDIDATE", "ACTIVE", "RETIRED", "REJECTED"}
AttemptStatus == {"ABSENT", "PENDING", "RUNNING", "SUCCEEDED", "FAILED", "CANCELED"}
\* What computeValidationHash digests of a version, and the fee.
Hash == [revision : 0 .. MaxRevisions, credential : Credential, fee : 0 .. MaxFees]

VARIABLES
  profile,     \* FinancialProfileVersion
  credential,  \* EfiCredentialVersion; REJECTED ones have lost their secrets
  active,      \* Company.activeFinancialProfileId
  gateway,     \* the credential whose secrets GatewayAccount holds
  opening,     \* the opening: disconnection and renewal
  fee,         \* number of the company's active fee version
  attempt,     \* FinancialValidationAttempt
  runner,      \* each run: its step, the attempt, its claim and what it read
  stops        \* runs that stopped or were overtaken

books == <<profile, credential, active, gateway, opening>>
work == <<attempt, runner, stops>>
vars == <<books, fee, work>>

NoProfile == [status |-> "ABSENT", origin |-> "MANUAL_ADMIN", revision |-> 0,
              account |-> None, credential |-> None, attested |-> FALSE, hash |-> None]
NoAttempt == [status |-> "ABSENT", of |-> None, revision |-> 0, credential |-> None,
              runs |-> 0, due |-> FALSE, hash |-> None, fee |-> 0, fresh |-> FALSE]
Idle == [at |-> "idle", on |-> None, run |-> 0, result |-> "none", fee |-> 0, hash |-> None]
\* Whether the company left or is leaving; the renewal: its step, and the
\* certificate it is of (renewalRequestedFor).
NotOpening == [left |-> FALSE, leaving |-> FALSE, at |-> "idle", had |-> None]

OpenVersions == {v \in Version : profile[v].status \in Open}
NextVersion(v) == profile[v].status = "ABSENT" /\ \A u \in 1 .. v - 1 : profile[u].status # "ABSENT"
NextCredential(c) ==
  credential[c].status = "ABSENT" /\ \A d \in 1 .. c - 1 : credential[d].status # "ABSENT"
HashOf(v) == [revision |-> profile[v].revision, credential |-> profile[v].credential,
              fee |-> fee]

(***************************************************************************)
(* Candidates. Each transaction locks the version, and an edit is of the   *)
(* revision its form was filled with: the current one.                     *)
(***************************************************************************)
(* rejectCandidateCredential *)
Rejected(c) ==
  [d \in Credential |->
    IF d = c /\ credential[d].status = "CANDIDATE"
    THEN [credential[d] EXCEPT !.status = "REJECTED"] ELSE credential[d]]

(* bumpRevision: an edit voids the validation.                              *)
Edited(v, becomes) ==
  [becomes EXCEPT !.revision = @ + 1, !.status = "DRAFT", !.hash = None]

CreateCandidate(v) ==
  /\ NextVersion(v)
  /\ OpenVersions = {}
  /\ profile' = [profile EXCEPT ![v] = [NoProfile EXCEPT !.status = "DRAFT"]]
  /\ UNCHANGED <<credential, active, gateway, opening, fee, work>>

(* The methods, the authorization and the attestation of who owns the account. *)
UpdateConfiguration(v, attested) ==
  /\ v \in OpenVersions
  /\ profile[v].revision < MaxRevisions
  /\ profile' = [profile EXCEPT ![v] = Edited(v, [@ EXCEPT !.attested = attested])]
  /\ UNCHANGED <<credential, active, gateway, opening, fee, work>>

UploadCredentials(v, c, a) ==
  /\ v \in OpenVersions
  /\ profile[v].revision < MaxRevisions
  /\ NextCredential(c)
  /\ profile' = [profile EXCEPT ![v] = Edited(v, [@ EXCEPT
       !.account = a, !.credential = c,
       !.attested = profile[v].attested /\ profile[v].account = a])]
  /\ credential' = [Rejected(profile[v].credential) EXCEPT ![c] = [status |-> "CANDIDATE", account |-> a]]
  /\ UNCHANGED <<active, gateway, opening, fee, work>>

(* By an administrator, or by the nightly job after thirty days untouched:  *)
(* EXPIRED is part of CANCELED here.                                        *)
Cancel(v) ==
  /\ v \in OpenVersions
  /\ profile' = [profile EXCEPT ![v].status = "CANCELED"]
  /\ credential' = Rejected(profile[v].credential)
  /\ UNCHANGED <<active, gateway, opening, fee, work>>

RequestValidation(v, k) ==
  /\ profile[v].status \in {"DRAFT", "READY", "VALIDATION_FAILED"}
  /\ profile[v].attested
  /\ profile[v].credential # None
  /\ credential[profile[v].credential].status \in {"CANDIDATE", "ACTIVE"}
  /\ attempt[k].status = "ABSENT" /\ \A j \in 1 .. k - 1 : attempt[j].status # "ABSENT"
  /\ profile' = [profile EXCEPT ![v].status = "VALIDATING", ![v].hash = None]
  /\ attempt' = [attempt EXCEPT ![k] = [NoAttempt EXCEPT
       !.status = "PENDING", !.of = v, !.revision = profile[v].revision,
       !.credential = profile[v].credential, !.due = TRUE]]
  /\ UNCHANGED <<credential, active, gateway, opening, fee, runner, stops>>

(***************************************************************************)
(* The validation of an attempt, by runs that may overlap.                 *)
(***************************************************************************)
Does(w, becomes) == runner' = [runner EXCEPT ![w] = becomes]

(* The attempt is still this run's: leaseOwner is its own. *)
Owns(w) ==
  /\ attempt[runner[w].on].status = "RUNNING"
  /\ attempt[runner[w].on].runs = runner[w].run

Claim(w, k) ==
  /\ runner[w].at = "idle"
  /\ attempt[k].status \in {"PENDING", "RUNNING"} /\ attempt[k].due
  /\ attempt' = [attempt EXCEPT ![k].status = "RUNNING", ![k].due = FALSE, ![k].runs = @ + 1]
  /\ Does(w, [Idle EXCEPT !.at = "profile", !.on = k, !.run = attempt[k].runs + 1])
  /\ UNCHANGED <<books, fee, stops>>

(* Any edit moves the profile on. *)
ReadProfile(w) ==
  /\ runner[w].at = "profile"
  /\ LET k == attempt[runner[w].on]
         p == profile[k.of] IN
     Does(w, IF /\ p.status = "VALIDATING"
                /\ p.revision = k.revision /\ p.credential = k.credential
             THEN [runner[w] EXCEPT !.at = "steps"]
             ELSE [runner[w] EXCEPT !.at = "finish", !.result = "CANCELED"])
  /\ UNCHANGED <<books, fee, attempt, stops>>

(* Each step, the fees first and then the calls to Efi, ends by persisting  *)
(* the steps: a run that lost its lease stops.                              *)
StepsPass(w) ==
  /\ runner[w].at = "steps"
  /\ Does(w, IF Owns(w) THEN [runner[w] EXCEPT !.at = "hash", !.fee = fee] ELSE Idle)
  /\ UNCHANGED <<books, fee, attempt, stops>>

StepFails(w, transient) ==
  /\ runner[w].at = "steps"
  /\ IF ~Owns(w) THEN Does(w, Idle) /\ UNCHANGED attempt
     ELSE IF transient /\ runner[w].run < MaxRuns
     THEN /\ attempt' = [attempt EXCEPT ![runner[w].on].status = "PENDING"]
          /\ Does(w, Idle)
     ELSE /\ Does(w, [runner[w] EXCEPT !.at = "finish", !.result = "FAILED"])
          /\ UNCHANGED attempt
  /\ UNCHANGED <<books, fee, stops>>

(* The attempt is over: nobody owns it, nothing is due. Its steps tell the  *)
(* fee they saw.                                                            *)
Ended(k, status, hash, seen) ==
  [attempt[k] EXCEPT !.status = status, !.runs = 0, !.due = FALSE,
                     !.hash = hash, !.fee = seen, !.fresh = status = "SUCCEEDED"]

(* A variant: the end of an attempt does not reach its profile.             *)
FinishAttemptOnly(w) ==
  /\ runner[w].at = "finish"
  /\ IF Owns(w)
     THEN attempt' = [attempt EXCEPT ![runner[w].on] = Ended(runner[w].on, runner[w].result, None, 0)]
     ELSE UNCHANGED attempt
  /\ Does(w, Idle)
  /\ UNCHANGED <<books, fee, stops>>

Finish(w) ==
  /\ runner[w].at = "finish"
  /\ LET k == runner[w].on
         v == attempt[k].of IN
     IF ~Owns(w) THEN UNCHANGED <<attempt, profile>>
     ELSE /\ attempt' = [attempt EXCEPT ![k] = Ended(k, runner[w].result, None, 0)]
          /\ IF /\ runner[w].result = "FAILED"
                /\ profile[v].status = "VALIDATING" /\ profile[v].revision = attempt[k].revision
             THEN profile' = [profile EXCEPT ![v].status = "VALIDATION_FAILED"]
             ELSE UNCHANGED profile
  /\ Does(w, Idle)
  /\ UNCHANGED <<credential, active, gateway, opening, fee, stops>>

ComputeHash(w) ==
  /\ runner[w].at = "hash"
  /\ Does(w, [runner[w] EXCEPT !.at = "promote", !.hash = HashOf(attempt[runner[w].on].of)])
  /\ UNCHANGED <<books, fee, attempt, stops>>

Unchanged(k) ==
  /\ profile[attempt[k].of].status = "VALIDATING"
  /\ profile[attempt[k].of].revision = attempt[k].revision

(* The promotion and the end of the attempt, or neither if the lease is lost. *)
Promote(w) ==
  /\ runner[w].at = "promote"
  /\ LET k == runner[w].on
         v == attempt[k].of IN
     IF ~Owns(w) THEN UNCHANGED <<attempt, profile>>
     ELSE IF Unchanged(k)
     THEN /\ profile' = [profile EXCEPT ![v].status = "READY", ![v].hash = runner[w].hash]
          /\ attempt' = [attempt EXCEPT ![k] = Ended(k, "SUCCEEDED", runner[w].hash, runner[w].fee)]
     ELSE /\ attempt' = [attempt EXCEPT ![k] = Ended(k, "CANCELED", None, runner[w].fee)]
          /\ UNCHANGED profile
  /\ Does(w, Idle)
  /\ UNCHANGED <<credential, active, gateway, opening, fee, stops>>

Validation(w) ==
  \/ \E k \in Attempt : Claim(w, k)
  \/ ReadProfile(w) \/ StepsPass(w) \/ Finish(w) \/ ComputeHash(w) \/ Promote(w)
  \/ \E transient \in BOOLEAN : StepFails(w, transient)

(* The process stops. *)
Stop(w) ==
  /\ runner[w].at # "idle"
  /\ stops < MaxStops
  /\ stops' = stops + 1
  /\ Does(w, Idle)
  /\ UNCHANGED <<books, fee, attempt>>

(***************************************************************************)
(* Activation.                                                             *)
(***************************************************************************)
(* A variant: the hash of the validation is not computed again.             *)
HoldsAsRecorded(v, k) ==
  /\ attempt[k].status = "SUCCEEDED" /\ attempt[k].of = v
  /\ attempt[k].revision = profile[v].revision
  /\ attempt[k].fresh
  /\ attempt[k].hash = profile[v].hash

(* The validation is of this version as it is now. *)
Holds(v, k) ==
  /\ attempt[k].status = "SUCCEEDED" /\ attempt[k].of = v
  /\ attempt[k].revision = profile[v].revision
  /\ attempt[k].fresh
  /\ attempt[k].hash = profile[v].hash
  /\ HashOf(v) = profile[v].hash

(* A variant: the previous credential of the account is not retired.        *)
InUseBeside(c, a) == [credential EXCEPT ![c] = [status |-> "ACTIVE", account |-> a]]

(* The credential in use of the account a becomes c. *)
InUse(c, a) ==
  [d \in Credential |->
    IF d = c THEN [status |-> "ACTIVE", account |-> a]
    ELSE IF credential[d].account = a /\ credential[d].status = "ACTIVE"
    THEN [credential[d] EXCEPT !.status = "RETIRED"]
    ELSE credential[d]]

Superseded ==
  IF active = None THEN profile ELSE [profile EXCEPT ![active].status = "SUPERSEDED"]

(* The opening of the account at Efi is over by then: AccountOpening. *)
Activate(v, k) ==
  /\ profile[v].status = "READY"
  /\ Holds(v, k)
  /\ profile' = [Superseded EXCEPT ![v].status = "ACTIVE"]
  /\ credential' = InUse(profile[v].credential, profile[v].account)
  /\ active' = v
  /\ gateway' = profile[v].credential
  /\ UNCHANGED <<opening, fee, work>>

Administration ==
  \/ \E v \in Version :
       \/ CreateCandidate(v) \/ Cancel(v)
       \/ \E attested \in BOOLEAN : UpdateConfiguration(v, attested)
       \/ \E c \in Credential, a \in Account : UploadCredentials(v, c, a)
       \/ \E k \in Attempt : RequestValidation(v, k) \/ Activate(v, k)

(***************************************************************************)
(* The opening. It leaves what was activated by hand alone, except where   *)
(* it does not look.                                                       *)
(***************************************************************************)
ByHand == active # None /\ profile[active].origin = "MANUAL_ADMIN"

(* A certificate comes to the gateway account; no version records it yet. *)
Brings(c) ==
  /\ NextCredential(c)
  /\ credential' = [credential EXCEPT ![c].status = "UNRECORDED"]
  /\ gateway' = c
  /\ UNCHANGED <<profile, active, fee, work>>

(* The provisioner, which asks for a certificate only if there is none. *)
Provision(c) ==
  /\ ~opening.left /\ ~ByHand /\ gateway = None
  /\ Brings(c)
  /\ UNCHANGED opening

(* manual, by an administrator: it does not look at the profile in force. *)
RecoverByHand(c) ==
  /\ ~opening.left
  /\ Brings(c)
  /\ UNCHANGED opening

(* publishOpeningProfile: what the gateway account holds is recorded. *)
OpeningPublishes(v, a) ==
  /\ ~opening.left /\ ~ByHand
  /\ gateway # None /\ credential[gateway].status = "UNRECORDED"
  /\ NextVersion(v)
  /\ profile' = [Superseded EXCEPT ![v] = [NoProfile EXCEPT
       !.status = "ACTIVE", !.origin = "AUTOMATIC_OPENING",
       !.account = a, !.credential = gateway, !.attested = TRUE]]
  /\ credential' = InUse(gateway, a)
  /\ active' = v
  /\ UNCHANGED <<gateway, opening, fee, work>>

(* renew, once for each certificate, of an opening that is in force. *)
StartRenewal ==
  /\ opening.at = "idle" /\ ~opening.left
  /\ active # None /\ ~ByHand
  /\ gateway # None /\ opening.had # gateway
  /\ opening' = [opening EXCEPT !.at = "post", !.had = gateway]
  /\ UNCHANGED <<profile, credential, active, gateway, fee, work>>

(* In the place of the certificate it was asked for, whoever is in force by *)
(* now.                                                                     *)
SaveRenewal(c) ==
  /\ opening.at = "post" /\ gateway = opening.had
  /\ Brings(c)
  /\ opening' = [opening EXCEPT !.at = "sync"]

(* Efi's answer is lost, the certificate is another one, or it stops. *)
RenewalEnds ==
  /\ opening.at # "idle"
  /\ opening' = [opening EXCEPT !.at = "idle"]
  /\ UNCHANGED <<profile, credential, active, gateway, fee, work>>

(* syncOpeningCredential: the account of the gateway is that of the profile *)
(* in force.                                                                *)
SyncOpeningCredential ==
  /\ opening.at = "sync"
  /\ credential' = IF gateway = None \/ credential[gateway].status = "ACTIVE" THEN credential
                   ELSE InUse(gateway, profile[active].account)
  /\ opening' = [opening EXCEPT !.at = "idle"]
  /\ UNCHANGED <<profile, active, gateway, fee, work>>

CheckDisconnect ==
  /\ ~opening.leaving /\ ~ByHand
  /\ opening' = [opening EXCEPT !.leaving = TRUE]
  /\ UNCHANGED <<profile, credential, active, gateway, fee, work>>

(* The gateway account is wiped; the profile stays in force. *)
Disconnect ==
  /\ opening.leaving
  /\ opening' = [opening EXCEPT !.leaving = FALSE, !.left = TRUE]
  /\ gateway' = None
  /\ UNCHANGED <<profile, credential, active, fee, work>>

Opening ==
  \/ \E c \in Credential : Provision(c) \/ RecoverByHand(c) \/ SaveRenewal(c)
  \/ \E v \in Version, a \in Account : OpeningPublishes(v, a)
  \/ StartRenewal \/ RenewalEnds \/ SyncOpeningCredential
  \/ CheckDisconnect \/ Disconnect

(***************************************************************************)
(* Time and the fee.                                                       *)
(***************************************************************************)
(* The delay of a retry is over, or the lease of a run: it stopped, or it   *)
(* is slow.                                                                 *)
Works(k) == \E w \in Runner : runner[w].on = k /\ runner[w].run = attempt[k].runs
Due(k) ==
  /\ attempt[k].status \in {"PENDING", "RUNNING"} /\ ~attempt[k].due
  /\ attempt[k].status = "RUNNING" /\ Works(k) => stops < MaxStops
  /\ stops' = IF attempt[k].status = "RUNNING" /\ Works(k) THEN stops + 1 ELSE stops
  /\ attempt' = [attempt EXCEPT ![k].due = TRUE]
  /\ UNCHANGED <<books, fee, runner>>

ValidityEnds(k) ==
  /\ attempt[k].fresh
  /\ attempt' = [attempt EXCEPT ![k].fresh = FALSE]
  /\ UNCHANGED <<books, fee, runner, stops>>

ChangeFee ==
  /\ fee < MaxFees
  /\ fee' = fee + 1
  /\ UNCHANGED <<books, work>>

Init ==
  /\ profile = [v \in Version |-> NoProfile]
  /\ credential = [c \in Credential |-> [status |-> "ABSENT", account |-> None]]
  /\ active = None
  /\ gateway = None
  /\ opening = NotOpening
  /\ fee = 0
  /\ attempt = [k \in Attempt |-> NoAttempt]
  /\ runner = [w \in Runner |-> Idle]
  /\ stops = 0

Next ==
  \/ Administration \/ Opening
  \/ \E w \in Runner : Validation(w) \/ Stop(w)
  \/ \E k \in Attempt : Due(k) \/ ValidityEnds(k)
  \/ ChangeFee

Spec == Init /\ [][Next]_vars

(***************************************************************************)
(* Properties.                                                             *)
(***************************************************************************)
(* Rows refer to rows that exist, and runs work on real attempts.           *)
TypeOK ==
  /\ profile \in [Version ->
       [status : ProfileStatus, origin : {"MANUAL_ADMIN", "AUTOMATIC_OPENING"},
        revision : 0 .. MaxRevisions, account : Account \cup {None},
        credential : Credential \cup {None}, attested : BOOLEAN, hash : Hash \cup {None}]]
  /\ credential \in [Credential -> [status : CredentialStatus, account : Account \cup {None}]]
  /\ active \in Version \cup {None} /\ gateway \in Credential \cup {None}
  /\ opening \in [left : BOOLEAN, leaving : BOOLEAN, at : {"idle", "post", "sync"},
                 had : Credential \cup {None}]
  /\ fee \in 0 .. MaxFees
  /\ attempt \in [Attempt ->
       [status : AttemptStatus, of : Version \cup {None}, revision : 0 .. MaxRevisions,
        credential : Credential \cup {None}, runs : 0 .. MaxRuns + MaxStops, due : BOOLEAN,
        hash : Hash \cup {None}, fee : 0 .. MaxFees, fresh : BOOLEAN]]
  /\ runner \in [Runner ->
       [at : {"idle", "profile", "steps", "hash", "promote", "finish"},
        on : Attempt \cup {None}, run : 0 .. MaxRuns + MaxStops,
        result : {"none", "CANCELED", "FAILED"}, fee : 0 .. MaxFees, hash : Hash \cup {None}]]
  /\ stops \in 0 .. MaxStops

(* What charges are issued with is one and whole: the company's profile is  *)
(* the only active one, and its account has one credential in use. The      *)
(* gateway account holds the secrets of that one, or a certificate that no  *)
(* version records (a renewal, a recovery or an opening that was not        *)
(* synchronised or published), or none after the company disconnected:      *)
(* never those of another account, or that were retired, rejected or not    *)
(* activated. And no version that may still be activated names a credential *)
(* whose secrets were wiped.                                                *)
IssuesWithOne ==
  /\ {v \in Version : profile[v].status = "ACTIVE"} = {active} \ {None}
  /\ Cardinality(OpenVersions) <= 1
  /\ active # None =>
       \E c \in Credential :
         {d \in Credential : /\ credential[d].status = "ACTIVE"
                             /\ credential[d].account = profile[active].account} = {c}
  /\ gateway # None =>
       \/ credential[gateway].status = "UNRECORDED"
       \/ /\ credential[gateway].status = "ACTIVE"
          /\ active # None /\ credential[gateway].account = profile[active].account
  /\ gateway = None /\ active # None => opening.left
  /\ \A v \in OpenVersions : profile[v].credential # None =>
       credential[profile[v].credential].status = "CANDIDATE"
  /\ \A c \in Credential : credential[c].status = "CANDIDATE" =>
       \E v \in OpenVersions : profile[v].credential = c

(* A profile waits for its validation only while an attempt of this very    *)
(* revision works on it, and is ready only by one that succeeded: the end   *)
(* of an attempt of another revision never decides.                         *)
ValidatedAsItIs ==
  \A v \in Version :
    /\ profile[v].status = "VALIDATING" =>
         \E k \in Attempt : /\ attempt[k].of = v /\ attempt[k].revision = profile[v].revision
                            /\ attempt[k].status \in {"PENDING", "RUNNING"}
    /\ profile[v].status = "READY" =>
         \E k \in Attempt : /\ attempt[k].of = v /\ attempt[k].revision = profile[v].revision
                            /\ attempt[k].status = "SUCCEEDED" /\ attempt[k].hash = profile[v].hash

(* What is activated was validated as it is then: an attempt tried this     *)
(* revision with this very credential, and the owner attested it, however   *)
(* edits, uploads and validations interleave. The fee is the one its steps  *)
(* saw, or one that came after them and before the hash of that run: then   *)
(* no step saw it (financial-validation.service.ts:242-248, 324).           *)
AsValidated ==
  \A v \in Version : profile[v].status = "READY" /\ profile'[v].status = "ACTIVE" =>
    /\ profile[v].attested
    /\ \E k \in Attempt :
         /\ attempt[k].status = "SUCCEEDED" /\ attempt[k].of = v
         /\ attempt[k].revision = profile[v].revision
         /\ attempt[k].credential = profile[v].credential
         /\ attempt[k].fee = fee \/ attempt[k].hash.fee = fee
ActivatedAsValidated == [][AsValidated]_vars

(* Every validation ends, with its profile.                                 *)
ValidationEnds ==
  \A v \in Version : profile[v].status = "VALIDATING" ~> profile[v].status # "VALIDATING"
=============================================================================
