---------------------------- MODULE PaymentCreate ----------------------------
(***************************************************************************)
(* POST /v1/payments: httpapi.postPayment and payment.Service.Create, run  *)
(* concurrently by the goroutines of every API replica.                    *)
(***************************************************************************)
EXTENDS CreateTx

CONSTANTS Amounts,        \* amount_cents of request bodies
          RawCurrencies,  \* currency of request bodies, as sent
          Canon,          \* strings.ToUpper(strings.TrimSpace(_)) on them
          ISO,            \* the canonical currencies of length 3
          UsableKeys      \* keys that are not blank and at most 200 bytes

VARIABLE PaymentsCreated  \* metrics.PaymentsCreated, over all replicas

vars == <<txVars, PaymentsCreated>>

ASSUME PaymentConstants ==
    /\ Amounts \subseteq Int
    /\ UsableKeys \subseteq Keys
    /\ \A a \in Amounts, cur \in RawCurrencies :
          a > 0 /\ Canon[cur] \in ISO => <<a, Canon[cur]>> \in Intents

PaymentInit == Init /\ PaymentsCreated = 0

(* Mutant: the amount is not checked. *)
validateCreateAnyAmount(amount, currency, key) ==
    /\ key \in UsableKeys
    /\ Canon[currency] \in ISO

validateCreate(amount, currency, key) ==
    /\ key \in UsableKeys
    /\ amount > 0
    /\ Canon[currency] \in ISO

(* SHA-256 of the canonical JSON, taken to be injective. *)
RequestFingerprint(amount, currency) == <<amount, Canon[currency]>>

(* The handler up to tx.Begin: everything before the first statement is    *)
(* local to the call.  The tenant is the authenticated one.                *)
postPayment(c) ==
    /\ pc[c] = "idle"
    /\ \E t \in Tenants, k \in Keys, a \in Amounts, cur \in RawCurrencies :
         IF validateCreate(a, cur, k)
           THEN /\ req' = [req EXCEPT ![c] =
                             [tenant |-> t, key |-> k,
                              intent |-> RequestFingerprint(a, cur)]]
                /\ Goto(c, "insert")
                /\ UNCHANGED <<rowid, buf, answer, db>>
           ELSE Refuse(c, "invalid")
    /\ UNCHANGED PaymentsCreated

(* The statements of payment.Create's transaction. *)
CreateStep(c) == TxNext(c) /\ UNCHANGED PaymentsCreated

CommitPayment(c) == Commit(c) /\ UNCHANGED PaymentsCreated

(* Mutant: an idempotent replay is counted as a new payment. *)
ReplayCounted(c) == CommitReplay(c) /\ PaymentsCreated' = PaymentsCreated + 1

(* created = false: the metric is not touched. *)
ReplayPayment(c) == CommitReplay(c) /\ UNCHANGED PaymentsCreated

(* The increment sits between the commit and the return. *)
ReplyCreated(c) == Reply(c) /\ PaymentsCreated' = PaymentsCreated + 1

(* The response is lost before or after the increment. *)
ReplyLost(c) ==
    /\ LoseReply(c)
    /\ PaymentsCreated' \in {PaymentsCreated, PaymentsCreated + 1}

(* Rollback, with a 500 or no answer. *)
AbortPayment(c) == Abort(c) /\ UNCHANGED PaymentsCreated

(* A call that has arrived and meets no failure. *)
Progress(c) ==
    \/ CreateStep(c) \/ ReplayPayment(c) \/ CommitPayment(c) \/ ReplyCreated(c)

(* Every call has been answered or lost. *)
Idle == Quiescent /\ UNCHANGED vars

Next == \/ \E c \in Calls : \/ postPayment(c) \/ Progress(c)
                           \/ AbortPayment(c) \/ ReplyLost(c)
        \/ Idle

Spec == PaymentInit /\ [][Next]_vars

(* A goroutine whose next statement can run does run it: a statement that  *)
(* waits for another transaction's key is woken when that one ends.        *)
(* Nothing forces a request to arrive or a failure to happen.              *)
FairSpec == Spec /\ \A c \in Calls : WF_vars(Progress(c))

-----------------------------------------------------------------------------
(* Every variable keeps its type. *)
TypeOK == TxTypeOK /\ PaymentsCreated \in Nat

(* metrics.go: the counter counts new rows, never idempotent replays, so   *)
(* it never runs ahead of the table, whatever answers are lost.            *)
MetricNeverOvercounts == PaymentsCreated <= Cardinality(Committed)

(* payment.Create implements the contract of idempotency.md: first writer  *)
(* wins, the same key and body get the same payment, another body a 409.   *)
HonoursContract == Contract!Spec

(* Every request that arrives is answered or lost; no call waits for ever  *)
(* for a key another one holds.                                            *)
EveryCallEnds == \A c \in Calls : pc[c] # "idle" ~> pc[c] = "done"
=============================================================================
