-------------------------- MODULE MCWebhookDelivery --------------------------
(* Small instances of WebhookDelivery for TLC. *)
EXTENDS WebhookDelivery

CONSTANTS e1, e2, t1, t2, w1, w2, c1, c2

(* Every event is t1's; calls of t2 must not reach it. *)
MCTenantOf == [e \in Events |-> t1]

SignedHook   == [url |-> "good", secret |-> TRUE]
UnsignedHook == [url |-> "good", secret |-> FALSE]
BrokenHook   == [url |-> "bad", secret |-> TRUE]

OnlySigned == {SignedHook}
MCHooks    == {SignedHook, UnsignedHook}
OnlyBroken == {BrokenHook}
=============================================================================
