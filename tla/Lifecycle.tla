----------------------------- MODULE Lifecycle -----------------------------
(***************************************************************************)
(* What a merchant sees of payments and refunds: a payment is accepted and *)
(* in the end succeeds, a refund is accepted only for a payment that has   *)
(* succeeded and in the end succeeds too, and nothing goes back.           *)
(***************************************************************************)
CONSTANTS Payments, Refunds, PaymentOf

VARIABLE status

Jobs == Payments \cup Refunds

Init == status = [j \in Jobs |-> "absent"]

Move(j, from, to) == /\ status[j] = from
                     /\ status' = [status EXCEPT ![j] = to]

AcceptPayment(p) == Move(p, "absent", "pending")
AcceptRefund(r)  == status[PaymentOf[r]] = "succeeded"
                      /\ Move(r, "absent", "pending")
Settle(j)        == Move(j, "pending", "succeeded")

Next == \/ \E p \in Payments : AcceptPayment(p)
        \/ \E r \in Refunds : AcceptRefund(r)
        \/ \E j \in Jobs : Settle(j)

Spec == Init /\ [][Next]_status

(* What was accepted is settled. *)
LiveSpec == Spec /\ \A j \in Jobs : WF_status(Settle(j))
=============================================================================
