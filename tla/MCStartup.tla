------------------------------ MODULE MCStartup ------------------------------
(* Small instances of Startup for TLC. *)
EXTENDS Startup

CONSTANTS a1, a2, a3, w1, w2
=============================================================================
