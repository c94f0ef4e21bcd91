-------------------------- MODULE MCDisbursements ---------------------------
(***************************************************************************)
(* Payments to collaborators on small instances: their approval and their  *)
(* sending. Both are about the rows of a batch, but the one begins where   *)
(* the other ends, so a behaviour of this module follows one of them, with *)
(* the other at rest. Contents and phones are interchangeable.             *)
(***************************************************************************)
EXTENDS DisbursementSending, ApprovalBounds, TLC

CONSTANTS
  Parts,        \* the parts that are looked at: "approval", "sending"
  Content, Approver

VARIABLES
  part,
  on, approver, changes, batchStatus, content, current, asked, state, of, shown, to,
  linked, day, sender, message, taps, worker

A == INSTANCE DisbursementApproval WITH
  Batch <- {"b"}, enabled <- on, batch <- batchStatus

approvalVars == <<on, approver, changes, batchStatus, content, current, asked, state, of,
                  shown, to, linked, day, sender, message, taps, worker>>
parts == <<part, vars, approvalVars>>

MCInit ==
  /\ part \in Parts
  /\ Init /\ A!Init
  /\ part = "sending" =>
       /\ approver = CHOOSE a \in Approver : TRUE
       /\ content = [b \in {"b"} |-> CHOOSE c \in Content : TRUE]

MCNext ==
  /\ UNCHANGED part
  /\ \/ part = "approval" /\ A!Next /\ UNCHANGED vars
     \/ part = "sending" /\ Next /\ UNCHANGED approvalVars

MCSpec == MCInit /\ [][MCNext]_parts

(***************************************************************************)
(* Fairness. The worker ticks for ever and no stop or failure hits the same *)
(* step every time; the calls of a live process return; Efi handles and     *)
(* settles what it got; days end. No notice need ever be delivered.         *)
(*                                                                         *)
(* A behaviour has the steps of one part only, so a requirement on the one  *)
(* and a requirement on the other make one together.                       *)
(***************************************************************************)
Sends(action) == part = "sending" /\ action /\ UNCHANGED <<part, approvalVars>>
Approving(action) == part = "approval" /\ action /\ UNCHANGED <<part, vars>>

DaysEnd == \E r \in A!Request : A!DayEnds(r) \/ A!GraceEnds(r)

Fairness ==
  /\ \A s \in Sender :
       /\ WF_parts(Sends(Send(s)) \/ Approving(DaysEnd))
       /\ WF_parts(Sends(TimeOut(s) \/ Record(s)) \/ Approving(A!StartTick))
       /\ SF_parts(Sends(\E b \in Batch : Begin(s, b)) \/ Approving(\E r \in A!Request : A!ReadTaps(r)))
       /\ SF_parts(Sends(FailPending(s) \/ AccountReady(s)) \/ Approving(A!Decide))
       /\ SF_parts(Sends(NextItem(s)) \/ Approving(A!StartExpiring))
       /\ SF_parts(Sends(Claim(s)) \/ Approving(\E r \in A!Request : A!Expire(r)))
  /\ \A i \in Payment :
       /\ WF_parts(Sends(Efi(i)) \/ Approving(A!EndTick))
       /\ WF_parts(Sends(MarkLost(i)))
       /\ \A c \in Checker :
            /\ SF_parts(Sends(StartCheck(c, i)))
            /\ SF_parts(Sends(Ask(c, i)))
            /\ SF_parts(Sends(WriteCheck(c, i)))
  /\ \A b \in Batch : WF_parts(Sends(Complete(b)))

LiveSpec == MCSpec /\ Fairness

Symmetry == Permutations(Content) \cup Permutations(Approver)

(* The type invariants of the parts.                                        *)
PartsTypeOK == IF part = "approval" THEN A!TypeOK ELSE TypeOK

(* The properties of the approval, stated in its module.                    *)
OneOpenRequest == A!OneOpenRequest
OnlyAuthorizedIsPaid == A!OnlyAuthorizedIsPaid

(* What was started ends: BatchEnds and RequestEnds.                        *)
DisbursementsEnd == BatchEnds /\ A!RequestEnds
=============================================================================
