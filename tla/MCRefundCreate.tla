--------------------------- MODULE MCRefundCreate ---------------------------
(* Small instances of RefundCreate for TLC. *)
EXTENDS RefundCreate, TLC

CONSTANTS c1, c2, c3, i1, i2, i3, t1, t2, k1, k2, blank, p1, p2

(* Every payment is t1's; calls of t2 must not reach it. *)
MCPayTenant == [p \in Payments |-> t1]
(* p1 has room for a full refund or for two partial ones, p2 only for a    *)
(* full one.                                                               *)
MCPayAmount == [p \in Payments |-> IF p = p1 THEN 4 ELSE 1]
(* Amounts whose sum leaves the int64 range. *)
WidePayAmount == [p \in Payments |-> MaxInt - 1]

(* Negative, full, and partial or too large. *)
MCAmounts == {-1, 0, 2}

MCIntents == Payments \X (Amounts \cup {PayAmount[p] : p \in Payments})
=============================================================================
