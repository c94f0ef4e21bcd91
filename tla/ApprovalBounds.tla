--------------------------- MODULE ApprovalBounds ---------------------------
(* The bounds of DisbursementApproval.                                      *)
EXTENDS Naturals

CONSTANTS
  MaxRequests,  \* approval requests ever made
  MaxTaps,      \* taps ever made
  MaxChanges,   \* changes of the settings and of what batches pay
  PageSize      \* requests read per pass (take: 100)

ASSUME BoundsAssumption ==
  /\ MaxRequests \in Nat /\ MaxTaps \in Nat /\ MaxChanges \in Nat /\ PageSize \in Nat
=============================================================================
