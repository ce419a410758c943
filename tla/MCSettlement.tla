---------------------------- MODULE MCSettlement ----------------------------
(* Small instances of Settlement, with readers, for TLC. *)
EXTENDS PaymentView

CONSTANTS p1, p2, r1, w1, w2, m1

(* Every refund is one of p1. *)
MCPaymentOf == [r \in Refunds |-> p1]
=============================================================================
