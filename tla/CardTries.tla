----------------------------- MODULE CardTries ------------------------------
(* The bounds of CardCharge.                                                *)
EXTENDS Naturals

CONSTANTS
  MaxTries,  \* tries the payer confirms
  MaxReads,  \* readings of one try not applied yet
  MaxStops   \* answers, readings and bookings lost

ASSUME BoundsAssumption == MaxTries \in Nat /\ MaxReads \in Nat /\ MaxStops \in Nat
=============================================================================
