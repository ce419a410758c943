----------------------------- MODULE MCTenancy -----------------------------
(* A small instance of Tenancy for TLC. *)
EXTENDS Tenancy

CONSTANTS t1, t2, k1, k2, m1, c1, c2
=============================================================================
