---------------------------- MODULE MCActivation ----------------------------
(***************************************************************************)
(* What a company's charges are issued with, on small instances: the       *)
(* opening of its account at Efi, and the profiles in force. Each has in   *)
(* its module what the other may do to it, so a behaviour of this module   *)
(* follows one of them, with the other at rest. The opening is looked at   *)
(* twice: submissions that overlap before Efi opens the account, and whole *)
(* openings with one submission at a time. The profiles three times: one   *)
(* version whose uploads and edits meet validations that overlap and stop; *)
(* two versions that follow each other while the fee changes; and versions *)
(* of the opening and by hand, beside renewals, recoveries and             *)
(* disconnections.                                                         *)
(***************************************************************************)
EXTENDS AccountOpening, ActivationBounds

CONSTANT
  Parts         \* the parts that are looked at

VARIABLES part, profile, credential, active, account, opening, fee, attempt, runner, overruns

P == INSTANCE FinancialActivation WITH
  MaxRevisions <- MaxEdits, MaxStops <- MaxOverruns, gateway <- account, stops <- overruns

profileVars == <<profile, credential, active, account, opening, fee, attempt, runner, overruns>>
parts == <<part, vars, profileVars>>

\* Which steps of an opening a part is about.
NotOpened == \A a \in EfiAccount : efi'[a].status \in {"absent", "waiting", "declined"}
Single == Cardinality({w \in Submitter : submitter'[w].at # "idle"}) <= 1

\* Which steps of the profiles: one version, and one fee; runs that
\* neither overlap nor stop, after two edits; two credentials and nothing of
\* the opening; and one validation.
OneVersion ==
  /\ \A v \in P!Version \ {1} : profile'[v].status = "ABSENT"
  /\ fee' = 0
OneRun ==
  /\ \A w \in Runner : runner'[w].at # "idle" => w = CHOOSE x \in Runner : TRUE
  /\ overruns' = 0
  /\ \A v \in P!Version : profile'[v].revision <= 2
NoOpening ==
  /\ opening' = opening
  /\ \A c \in P!Credential :
       credential'[c].status # "UNRECORDED" /\ (c > 2 => credential'[c].status = "ABSENT")
OneAttempt ==
  /\ fee' = 0
  /\ \A k \in P!Attempt \ {1} : attempt'[k].status = "ABSENT"

MCInit == part \in Parts /\ Init /\ P!Init

MCNext ==
  /\ UNCHANGED part
  /\ \/ part = "submitting" /\ Next /\ NotOpened /\ UNCHANGED profileVars
     \/ part = "opening" /\ Next /\ Single /\ UNCHANGED profileVars
     \/ part = "validating" /\ P!Next /\ OneVersion /\ NoOpening /\ UNCHANGED vars
     \/ part = "replacing" /\ P!Next /\ OneRun /\ NoOpening /\ UNCHANGED vars
     \/ part = "bridging" /\ P!Next /\ OneRun /\ OneAttempt /\ UNCHANGED vars

MCSpec == MCInit /\ [][MCNext]_parts

(***************************************************************************)
(* Fairness. The jobs that are due are run, those that were lost are       *)
(* scheduled again by a cron every few minutes, calls return or time out,  *)
(* and delays and leases end. Nothing obliges the company, its             *)
(* representative, Efi or an administrator to do anything.                 *)
(*                                                                         *)
(* A behaviour has the steps of one part only, so a requirement on the one *)
(* and a requirement on the other make one together.                       *)
(***************************************************************************)
Opening(action) == /\ part \in {"submitting", "opening"}
                   /\ action /\ UNCHANGED <<part, profileVars>>
                   /\ part = "opening" => Single
Validating(action) == part = "validating" /\ action /\ OneVersion /\ NoOpening /\ UNCHANGED <<part, vars>>

Fairness ==
  /\ \A w \in Submitter : WF_parts(Opening(Submission(w)))
  /\ WF_parts(Opening(RowDue))
  /\ WF_parts(Opening(Provisioning \/ Exhausted))
  /\ \A w \in Runner : WF_parts(Validating(P!Validation(w)))
  /\ \A k \in P!Attempt : WF_parts(Validating(P!Due(k)))

LiveSpec == MCSpec /\ Fairness

(* The type invariants of the parts.                                        *)
PartsTypeOK == TypeOK /\ P!TypeOK

(* The properties of the profiles, stated in their module: IssuesWithOne    *)
(* and ValidatedAsItIs.                                                     *)
ProfilesStand == P!IssuesWithOne /\ P!ValidatedAsItIs

(* What is in force is what its owners decided: OpeningIsOver, and          *)
(* ActivatedAsValidated.                                                    *)
OwnersDecide == OpeningIsOver /\ P!ActivatedAsValidated

(* An opening and a validation end: see OpeningEnds and ValidationEnds.     *)
WorkEnds == OpeningEnds /\ (part = "validating" => P!ValidationEnds)
=============================================================================
