---------------------------- MODULE RefundCreate ----------------------------
(***************************************************************************)
(* POST /v1/payments/{id}/refunds: httpapi.postRefund and                  *)
(* refund.Service.Create, run concurrently by every API replica, while     *)
(* payments are accepted and settled around them.                          *)
(*                                                                         *)
(* The intent of a refund is <<payment, amount>>.  Until LockPayment has   *)
(* read the payment it is the amount of the request body, where 0 stands   *)
(* for the full amount.                                                    *)
(***************************************************************************)
EXTENDS CreateTx

CONSTANTS Payments, PayTenant, PayAmount,  \* payments and their fixed columns
          Amounts,      \* amount_cents of request bodies
          UsableKeys,   \* keys that are not blank and at most 200 bytes
          MaxInt        \* the largest int64

ASSUME RefundConstants ==
    /\ MaxInt \in Nat
    /\ PayTenant \in [Payments -> Tenants]
    /\ PayAmount \in [Payments -> 1..MaxInt]
    /\ Amounts \subseteq -(MaxInt + 1)..MaxInt
    /\ UsableKeys \subseteq Keys
    /\ Intents \subseteq Payments \X Int
    /\ \A p \in Payments : {<<p, a>> : a \in Amounts \cup {PayAmount[p]}}
                             \subseteq Intents
    /\ Payments \cap (Ids \X Payments) = {}

VARIABLE payStatus  \* payments.status, or "absent"

vars == <<txVars, payStatus>>

RefundInit ==
    /\ Init
    /\ payStatus = [p \in Payments |-> "absent"]

PayOf(r) == r.intent[1]
AmtOf(r) == r.intent[2]

(* Stages at which a call holds the row lock of its payment. *)
LockStages == {"sum", "insert", "conflict", "replay"} \cup OwnerStages
Holds(c, p) == pc[c] \in LockStages /\ PayOf(req[c]) = p

(* Mutant: the payment is read without FOR UPDATE. *)
UnlockedNoWait(p) == TRUE

(* Mutant: a call that failed leaves its transaction open. *)
UnlockedLeaked(p) == \A d \in Calls :
    ~Holds(d, p) /\ (answer[d] = "error" => PayOf(req[d]) # p)

Unlocked(p) == \A d \in Calls : ~Holds(d, p)

-----------------------------------------------------------------------------
(* The handler up to tx.Begin. *)
postRefund(c) ==
    /\ pc[c] = "idle"
    /\ \E t \in Tenants, k \in Keys, p \in Payments, a \in Amounts :
         IF k \in UsableKeys
           THEN /\ req' = [req EXCEPT ![c] = [tenant |-> t, key |-> k,
                                              intent |-> <<p, a>>]]
                /\ Goto(c, "lock")
                /\ UNCHANGED <<rowid, buf, answer, db>>
           ELSE Refuse(c, "invalid")
    /\ UNCHANGED payStatus

(* amount_cents 0 means the full payment amount. *)
RefundAmount(r) == IF AmtOf(r) = 0 THEN PayAmount[PayOf(r)] ELSE AmtOf(r)

Found(r)      == payStatus[PayOf(r)] # "absent" /\ PayTenant[PayOf(r)] = r.tenant

(* Mutant: a payment that is still pending can be refunded. *)
RefundableEarly(r) == TRUE

Refundable(r) == payStatus[PayOf(r)] = "succeeded"

(* Mutant: a negative amount is let through. *)
AmountFitsNegative(r) == RefundAmount(r) <= PayAmount[PayOf(r)]

AmountFits(r) == RefundAmount(r) > 0 /\ RefundAmount(r) <= PayAmount[PayOf(r)]

(* Mutant: the tenant of the payment is not compared. *)
PaymentCheckAnyTenant(r) ==
    IF payStatus[PayOf(r)] = "absent" THEN "not_found"
    ELSE IF ~Refundable(r) THEN "not_refundable"
    ELSE IF ~AmountFits(r) THEN "invalid"
    ELSE "ok"

(* The checks on the payment row, in the code's order. *)
PaymentCheck(r) ==
    IF ~Found(r) THEN "not_found"
    ELSE IF ~Refundable(r) THEN "not_refundable"
    ELSE IF ~AmountFits(r) THEN "invalid"
    ELSE "ok"

(* SELECT ... FROM payments FOR UPDATE and the checks on what it returns. *)
LockPayment(c) ==
    LET p == PayOf(req[c]) IN
    /\ pc[c] = "lock"
    /\ Unlocked(p)
    /\ IF PaymentCheck(req[c]) = "ok"
         THEN /\ req' = [req EXCEPT ![c].intent = <<p, RefundAmount(req[c])>>]
              /\ Goto(c, "sum")
              /\ UNCHANGED <<rowid, buf, answer, db>>
         ELSE Refuse(c, PaymentCheck(req[c]))
    /\ UNCHANGED payStatus

(* Addition of int64 values that are not negative. *)
Plus64(x, y) == IF x + y > MaxInt THEN x + y - 2 * (MaxInt + 1) ELSE x + y

RowsOf(p) == {i \in Committed : PayOf(rows[i]) = p}

(* The cents that the refund rows of a payment stand for. *)
CentsOf(p) == UNION {{i} \X (1..AmtOf(rows[i])) : i \in RowsOf(p)}

(* SUM(amount_cents) of the refunds in the table, counted cent by cent:    *)
(* all of them, since none is ever other than pending or succeeded.        *)
Reserved(p) == Cardinality(CentsOf(p))

(* SELECT SUM(amount_cents), which is numeric: scanning it into an int64   *)
(* fails when it is too large.  Then reserved + amt is compared in int64.  *)
SumReserved(c) ==
    LET p == PayOf(req[c]) IN
    /\ pc[c] = "sum"
    /\ \/ /\ Reserved(p) > MaxInt
          /\ Refuse(c, "error")
       \/ /\ Reserved(p) <= MaxInt
          /\ Plus64(Reserved(p), AmtOf(req[c])) > PayAmount[p]
          /\ Refuse(c, "exceeded")
       \/ /\ Reserved(p) <= MaxInt
          /\ Plus64(Reserved(p), AmtOf(req[c])) <= PayAmount[p]
          /\ Goto(c, "insert")
          /\ UNCHANGED <<req, rowid, buf, answer, db>>
    /\ UNCHANGED payStatus

(* The statements of the transaction from the insert to the outbox. *)
CreateStep(c) == TxNext(c) /\ UNCHANGED payStatus

ReplayRefund(c) == CommitReplay(c) /\ UNCHANGED payStatus

CommitRefund(c) == Commit(c) /\ UNCHANGED payStatus

ReplyCreated(c) == Reply(c) /\ UNCHANGED payStatus
ReplyLost(c)    == LoseReply(c) /\ UNCHANGED payStatus
AbortRefund(c)  == Abort(c) /\ UNCHANGED payStatus

(* payment.Create commits a payment. *)
AcceptPayment(p) ==
    /\ payStatus[p] = "absent"
    /\ payStatus' = [payStatus EXCEPT ![p] = "pending"]
    /\ UNCHANGED txVars

(* payment.SettleMockTx, which needs the row lock of the payment. *)
SettlePayment(p) ==
    /\ payStatus[p] = "pending"
    /\ Unlocked(p)
    /\ payStatus' = [payStatus EXCEPT ![p] = "succeeded"]
    /\ UNCHANGED txVars

-----------------------------------------------------------------------------
(* A call that has arrived and meets no failure. *)
Progress(c) == \/ LockPayment(c) \/ SumReserved(c) \/ CreateStep(c)
               \/ ReplayRefund(c) \/ CommitRefund(c) \/ ReplyCreated(c)

(* Every call has been answered or lost, and every payment is settled. *)
Idle == /\ Quiescent
        /\ \A p \in Payments : payStatus[p] = "succeeded"
        /\ UNCHANGED vars

Next == \/ \E c \in Calls : \/ postRefund(c) \/ Progress(c)
                            \/ AbortRefund(c) \/ ReplyLost(c)
        \/ \E p \in Payments : AcceptPayment(p) \/ SettlePayment(p)
        \/ Idle

Spec == RefundInit /\ [][Next]_vars

(* Statements that can run do run.  The calls are finitely many, so a call *)
(* waiting for the payment's row lock is not overtaken for ever.           *)
FairSpec == Spec /\ \A c \in Calls : WF_vars(Progress(c))

-----------------------------------------------------------------------------
(* Every variable keeps its type, and the amounts in the table are cents.  *)
TypeOK == /\ TxTypeOK
          /\ payStatus \in [Payments -> {"absent", "pending", "succeeded"}]
          /\ \A i \in Committed : AmtOf(rows[i]) \in 1..MaxInt

(* The refunds in the table never add up to more than their payment,       *)
(* however many calls check the remaining balance at the same time.        *)
NeverOverRefunded == \A p \in Payments : Reserved(p) <= PayAmount[p]

(* A committed refund belongs to the tenant of its payment, the payment is *)
(* settled, and the amount is one the payment can carry: what a call read  *)
(* of the payment still holds when it commits, and ever after.             *)
RefundsAreBacked ==
    \A i \in Committed :
        LET p == PayOf(rows[i]) IN
        /\ payStatus[p] = "succeeded"
        /\ PayTenant[p] = rows[i].tenant
        /\ AmtOf(rows[i]) \in 1..PayAmount[p]

(* refund.Create implements the contract of idempotency.md as far as its   *)
(* 200, 201 and idempotency-conflict answers go.                           *)
HonoursContract == Contract!Spec

(* What a merchant sees of payments, and of refunds up to their settlement *)
(* by the workers.  A refund is its id and its payment.                    *)
Shown == [j \in Payments \cup (Ids \X Payments) |->
            IF j \in Payments THEN payStatus[j]
            ELSE IF j[1] \in RowsOf(j[2]) THEN "pending" ELSE "absent"]

Merchant == INSTANCE Lifecycle
              WITH Refunds <- Ids \X Payments, status <- Shown,
                   PaymentOf <- [r \in Ids \X Payments |-> r[2]]

(* Refunds enter the life cycle as Settlement assumes they do: after their *)
(* payment has succeeded, and for good.                                    *)
FollowsLifecycle == Merchant!Spec

(* idempotency.md: retries with the same key return the same logical       *)
(* outcome; so a request that is stored under its key is never told that   *)
(* the balance is exceeded.                                                *)
ReplayKeepsOutcome ==
    \A c \in Calls : answer[c] = "exceeded" =>
        \A i \in Committed : rows[i] # req[c]

(* Every refund request that arrives ends: no cycle of calls waiting for   *)
(* each other's payment lock and idempotency key.                          *)
EveryCallEnds == \A c \in Calls : pc[c] # "idle" ~> pc[c] = "done"
-----------------------------------------------------------------------------
(* The strengthening that makes NeverOverRefunded and RefundsAreBacked     *)
(* inductive.                                                              *)

(* One call at a time holds the row lock of a payment. *)
LockIsExclusive ==
    \A c, d \in Calls :
        c # d /\ pc[c] \in LockStages /\ pc[d] \in LockStages =>
            PayOf(req[c]) # PayOf(req[d])

(* What a call read of its payment stays true while it holds the lock. *)
CheckStillHolds ==
    \A c \in Calls : pc[c] \in LockStages =>
        /\ payStatus[PayOf(req[c])] = "succeeded"
        /\ PayTenant[PayOf(req[c])] = req[c].tenant
        /\ AmtOf(req[c]) \in 1..PayAmount[PayOf(req[c])]

(* Once the balance is checked there is room for the refund until it is    *)
(* committed.                                                              *)
RoomIsKept ==
    \A c \in Calls : pc[c] \in LockStages \ {"sum"} =>
        Reserved(PayOf(req[c])) + AmtOf(req[c]) <= PayAmount[PayOf(req[c])]

(* No sum of two amounts that the code adds leaves the int64 range. *)
AmountsFit == \A p \in Payments : 2 * PayAmount[p] <= MaxInt

(* The part of the invariant that does not depend on the sums. *)
BackedInv == /\ TxInv /\ TypeOK
             /\ LockIsExclusive /\ CheckStillHolds /\ RefundsAreBacked

(* The SUMs are over finitely many cents. *)
CentsAreFinite == \A p \in Payments : IsFiniteSet(CentsOf(p))

(* The inductive invariant. *)
RefundInv == BackedInv /\ CentsAreFinite /\ RoomIsKept /\ NeverOverRefunded
=============================================================================
