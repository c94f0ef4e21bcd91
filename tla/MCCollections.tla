--------------------------- MODULE MCCollections ----------------------------
(***************************************************************************)
(* What an invoice is paid with, on small instances: its Pix and Bolix     *)
(* charges, ChargeIssuance, and its card charge, CardCharge. They meet in  *)
(* the database only, and a behaviour of this module follows one of them,  *)
(* with the other at rest.                                                 *)
(***************************************************************************)
EXTENDS ChargeIssuance, CardTries

VARIABLES
  part,
  cardInvoice, billing, card, made, try, named, olds, sender, efi, sees, booking, cancel, stops

K == INSTANCE CardCharge WITH
  invoice <- cardInvoice, charge <- card, old <- olds

cardVars == <<cardInvoice, billing, card, made, try, named, olds, sender, efi, sees, booking,
              cancel, stops>>
parts == <<part, vars, cardVars>>

MCInit ==
  /\ part \in {"issuance", "card"}
  /\ Init /\ K!Init
  /\ part # "card" => cardInvoice = "DRAFT"
  /\ part = "card" => late

MCNext ==
  /\ UNCHANGED part
  /\ \/ /\ part = "issuance" /\ Next
        /\ UNCHANGED cardVars
     \/ part = "card" /\ K!Next /\ UNCHANGED vars

\* The parts at rest have no step that fairness asks for.
MCSpec == MCInit /\ [][MCNext]_parts /\ Fairness /\ K!Fairness

(* The type invariants of the parts.                                        *)
PartsTypeOK == TypeOK /\ K!TypeOK

(* Of the card's tries one at most may debit the payer, and the books say   *)
(* what Efi did.                                                            *)
CardIsDebitedOnce == K!CardIsDebitedOnce

(* What was paid, by any means, is booked in the end.                       *)
PaymentsAreBooked == PaymentIsBooked /\ K!CardIsBooked
=============================================================================
