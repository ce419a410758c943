------------------------------ MODULE MCPayFlow ------------------------------
(* Small instances of PayFlow for TLC. *)
EXTENDS PayFlow

CONSTANTS p1, r1, w1, w2, t1, c1

MCPaymentOf == [r \in Refunds |-> p1]
MCTenantOf  == [j \in Jobs |-> t1]

SignedHook   == [url |-> "good", secret |-> TRUE]
UnsignedHook == [url |-> "good", secret |-> FALSE]
MCHooks      == {SignedHook, UnsignedHook}

(* AcceptedIsNotified says nothing of a behaviour once something has been  *)
(* lost after a commit: TLC takes the step that loses it, and stops there. *)
NothingLost == losses = 0
=============================================================================
