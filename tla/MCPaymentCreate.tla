--------------------------- MODULE MCPaymentCreate ---------------------------
(* Small instances of PaymentCreate for TLC. *)
EXTENDS PaymentCreate, TLC

CONSTANTS c1, c2, c3, i1, i2, i3, t1, t2, k1, k2, blank

MCCanon   == ("usd" :> "USD") @@ ("USD" :> "USD") @@ ("eur" :> "EUR")
               @@ ("euro" :> "EURO")
MCIntents == {1, 2} \X {"USD", "EUR"}
=============================================================================
