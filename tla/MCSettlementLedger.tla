------------------------ MODULE MCSettlementLedger ------------------------
(* SettlementLedger on a small instance: the Pix are interchangeable, the fee *)
(* is two thirds of the amount, rounded down.                                 *)
EXTENDS SettlementLedger, TLC

CONSTANTS e1, e2

MCPayment == {e1, e2}
MCFee(amount) == (2 * amount) \div 3
Symmetry == Permutations(MCPayment)
=============================================================================
