-------------------------- MODULE ActivationBounds --------------------------
(* What the profiles of a company are bounded by.                           *)
EXTENDS Naturals

CONSTANTS
  MaxVersions, MaxEdits, MaxFees, MaxUploads, MaxAttempts, MaxRuns, MaxOverruns,
  Account, Runner, None

ASSUME ActivationAssumption ==
  /\ {MaxVersions, MaxEdits, MaxFees, MaxUploads, MaxAttempts, MaxOverruns} \subseteq Nat
  /\ MaxRuns \in Nat \ {0}
  /\ None \notin Nat /\ None \notin Account
=============================================================================
