------------------------------ MODULE Delivery ------------------------------
(***************************************************************************)
(* What PayFlow promises about a merchant's webhooks, seen from the        *)
(* webhook_deliveries rows: one row per settled payment or refund, which   *)
(* is pending until the merchant has acknowledged the event or the row is  *)
(* dead-lettered, and which only a retry takes out of the dead letters.    *)
(***************************************************************************)
CONSTANTS Events

VARIABLES settled,    \* events whose payment or refund has succeeded
          row,        \* status of the event's delivery row
          acked       \* events the merchant has answered with a 2xx

vars == <<settled, row, acked>>

Init == /\ settled = {}
        /\ row = [e \in Events |-> "none"]
        /\ acked = {}

Move(e, from, to) == /\ row[e] = from
                     /\ row' = [row EXCEPT ![e] = to]
                     /\ UNCHANGED <<settled, acked>>

Settle(e)      == settled' = settled \cup {e} /\ UNCHANGED <<row, acked>>
Create(e)      == e \in settled /\ Move(e, "none", "pending")
Acknowledge(e) == /\ row[e] # "none"
                  /\ acked' = acked \cup {e}
                  /\ UNCHANGED <<settled, row>>
Succeed(e)     == e \in acked /\ Move(e, "pending", "succeeded")
DeadLetter(e)  == Move(e, "pending", "dlq")
Retry(e)       == Move(e, "dlq", "pending")

Next == \E e \in Events : \/ Settle(e) \/ Create(e) \/ Acknowledge(e)
                          \/ Succeed(e) \/ DeadLetter(e) \/ Retry(e)

Spec == Init /\ [][Next]_vars
=============================================================================
