----------------------------- MODULE Settlement -----------------------------
(***************************************************************************)
(* The transactional outbox and the workers that drain it: cmd/worker's    *)
(* tryProcessOutbox and the settlement cases of its main loop, with        *)
(* payment.SettleMockTx and refund.SettleMockTx at the grain of one SQL    *)
(* statement per step.  Every replica of the worker runs the same loop.    *)
(*                                                                         *)
(* A job is a payment or a refund.  What a worker's transaction has        *)
(* written is in wrote until Commit; the row locks it holds follow from    *)
(* the statement it has reached.                                           *)
(***************************************************************************)
EXTENDS Integers

CONSTANTS Payments, Refunds,
          PaymentOf,    \* refunds.payment_id
          Workers,
          NoJob,
          Stamps,       \* values of async_outbox.created_at
          MaxFaults     \* how many transactions fail or are cut by a crash

Jobs == Payments \cup Refunds

ASSUME SettlementConstants ==
    /\ Payments \cap Refunds = {}
    /\ PaymentOf \in [Refunds -> Payments]
    /\ NoJob \notin Jobs
    /\ Stamps \subseteq Nat
    /\ MaxFaults \in Nat

VARIABLES status,     \* payments.status and refunds.status
          settled,    \* jobs with a settlement.completed / refund succeeded
                      \* ledger event: a set, by the unique dedupe_key
          outbox,     \* the job's async_outbox row: "none", "new", "processed"
          stamp,      \* its created_at
          pc,         \* the statement each worker executes next
          job,        \* the job it works on
          source,     \* where the job came from: "outbox" or "queue"
          wrote,      \* what its open transaction has written
          faults

dbVars == <<status, settled, outbox, stamp>>
vars   == <<status, settled, outbox, stamp, pc, job, source, wrote, faults>>

Init ==
    /\ status  = [j \in Jobs |-> "absent"]
    /\ settled = {}
    /\ outbox  = [j \in Jobs |-> "none"]
    /\ stamp   = [j \in Jobs |-> 0]
    /\ pc      = [w \in Workers |-> "loop"]
    /\ job     = [w \in Workers |-> NoJob]
    /\ source  = [w \in Workers |-> "outbox"]
    /\ wrote   = [w \in Workers |-> {}]
    /\ faults  = 0

-----------------------------------------------------------------------------
(* Stages after both rows of the job have been locked. *)
LockedStages == {"ledger", "update", "mark", "commit"}

(* Worker w holds the row lock of payment or refund x.  A refund's row is  *)
(* locked first, then its payment's (FOR UPDATE OF r, p).                  *)
Holds(w, x) ==
    \/ job[w] = x /\ pc[w] \in LockedStages
    \/ job[w] = x /\ pc[w] = "lockpay"
    \/ job[w] \in Refunds /\ PaymentOf[job[w]] = x /\ pc[w] \in LockedStages

Unlocked(x) == \A w \in Workers : ~Holds(w, x)

(* Worker w has claimed the outbox row of j, and holds its row lock. *)
Claims(w, j) == pc[w] # "loop" /\ source[w] = "outbox" /\ job[w] = j

Claimable == {j \in Jobs : outbox[j] = "new"
                             /\ \A w \in Workers : ~Claims(w, j)}

Goto(w, stage) == pc' = [pc EXCEPT ![w] = stage]

(* The end of a transaction, committed or rolled back. *)
BackToLoop(w) == /\ Goto(w, "loop")
                 /\ job'    = [job EXCEPT ![w] = NoJob]
                 /\ source' = [source EXCEPT ![w] = "outbox"]
                 /\ wrote'  = [wrote EXCEPT ![w] = {}]

-----------------------------------------------------------------------------
(* payment.Create commits: the payment and its outbox row appear together. *)
(* created_at is the start of that transaction, so rows need not become    *)
(* visible in its order.                                                   *)
AcceptPayment(p) ==
    /\ status[p] = "absent"
    /\ status' = [status EXCEPT ![p] = "pending"]
    /\ outbox' = [outbox EXCEPT ![p] = "new"]
    /\ \E s \in Stamps : stamp' = [stamp EXCEPT ![p] = s]
    /\ UNCHANGED <<settled, pc, job, source, wrote, faults>>

(* Mutant: the refund is accepted whatever the payment's status. *)
AcceptRefundUnchecked(r) ==
    /\ status[r] = "absent"
    /\ status[PaymentOf[r]] # "absent"
    /\ Unlocked(PaymentOf[r])
    /\ status' = [status EXCEPT ![r] = "pending"]
    /\ outbox' = [outbox EXCEPT ![r] = "new"]
    /\ \E s \in Stamps : stamp' = [stamp EXCEPT ![r] = s]
    /\ UNCHANGED <<settled, pc, job, source, wrote, faults>>

(* refund.Create commits: it has held the payment's row lock since it read *)
(* the status.                                                             *)
AcceptRefund(r) ==
    /\ status[r] = "absent"
    /\ status[PaymentOf[r]] = "succeeded"
    /\ Unlocked(PaymentOf[r])
    /\ status' = [status EXCEPT ![r] = "pending"]
    /\ outbox' = [outbox EXCEPT ![r] = "new"]
    /\ \E s \in Stamps : stamp' = [stamp EXCEPT ![r] = s]
    /\ UNCHANGED <<settled, pc, job, source, wrote, faults>>

(* SELECT ... WHERE processed_at IS NULL ORDER BY created_at LIMIT 1       *)
(* FOR UPDATE SKIP LOCKED: the oldest row no other worker has claimed.     *)
Claim(w) ==
    /\ pc[w] = "loop"
    /\ \E j \in Claimable :
         /\ \A k \in Claimable : stamp[j] <= stamp[k]
         /\ job' = [job EXCEPT ![w] = j]
    /\ source' = [source EXCEPT ![w] = "outbox"]
    /\ Goto(w, "settle")
    /\ UNCHANGED <<dbVars, wrote, faults>>

(* No outbox row is free, so the worker pops the settlement or refund      *)
(* queue.  Nothing in this version publishes to them, but messages an      *)
(* earlier one left may name any job, any number of times.                 *)
PopJob(w) ==
    /\ pc[w] = "loop"
    /\ Claimable = {}
    /\ \E j \in Jobs : job' = [job EXCEPT ![w] = j]
    /\ source' = [source EXCEPT ![w] = "queue"]
    /\ Goto(w, "settle")
    /\ UNCHANGED <<dbVars, wrote, faults>>

(* After SettleMockTx: the outbox row is marked, a queue job just commits. *)
AfterSettle(w) == IF source[w] = "outbox" THEN "mark" ELSE "commit"

(* SettleMockTx's SELECT ... FOR UPDATE on the job's own row.  A row that  *)
(* is not there is no error; a payment that has succeeded needs no more.   *)
LockJob(w) ==
    LET j == job[w] IN
    /\ pc[w] = "settle"
    /\ Unlocked(j)
    /\ Goto(w, IF status[j] # "absent" /\ j \in Refunds THEN "lockpay"
               ELSE IF status[j] = "pending" THEN "ledger"
               ELSE AfterSettle(w))
    /\ job' = IF status[j] = "absent" THEN [job EXCEPT ![w] = NoJob] ELSE job
    /\ UNCHANGED <<dbVars, source, wrote, faults>>

(* The rest of refund.SettleMockTx's SELECT: the payment's row.  A payment *)
(* that has not succeeded is an error, which rolls the transaction back    *)
(* and leaves the outbox row for another try.                              *)
LockPaymentOfRefund(w) ==
    LET r == job[w] IN
    /\ pc[w] = "lockpay"
    /\ Unlocked(PaymentOf[r])
    /\ IF status[r] = "pending" /\ status[PaymentOf[r]] # "succeeded"
         THEN BackToLoop(w)
         ELSE /\ Goto(w, IF status[r] = "pending" THEN "ledger"
                                                  ELSE AfterSettle(w))
              /\ UNCHANGED <<job, source, wrote>>
    /\ UNCHANGED <<dbVars, faults>>

Write(w, stage, what, next) ==
    /\ pc[w] = stage
    /\ wrote' = [wrote EXCEPT ![w] = @ \cup {what}]
    /\ Goto(w, next)
    /\ UNCHANGED <<dbVars, job, source, faults>>

(* Mutant: the settlement event is not appended. *)
AppendLedgerSkipped(w) ==
    /\ pc[w] = "ledger"
    /\ Goto(w, "update")
    /\ UNCHANGED <<dbVars, job, source, wrote, faults>>

AppendLedger(w) == Write(w, "ledger", "settled", "update")
UpdateStatus(w) == Write(w, "update", "status", AfterSettle(w))

(* Mutant: processed_at is set outside the settlement's transaction. *)
MarkProcessedAtOnce(w) ==
    /\ pc[w] = "mark"
    /\ outbox' = [outbox EXCEPT ![job[w]] = "processed"]
    /\ Goto(w, "commit")
    /\ UNCHANGED <<status, settled, stamp, job, source, wrote, faults>>

MarkProcessed(w) == Write(w, "mark", "processed", "commit")

(* Mutant: the UPDATE writes another word than the readers look for. *)
PublishOtherWord(w) ==
    LET j == job[w] IN
    /\ settled' = IF "settled" \in wrote[w] THEN settled \cup {j} ELSE settled
    /\ status'  = IF "status" \in wrote[w]
                    THEN [status EXCEPT ![j] = "success"] ELSE status
    /\ outbox'  = IF "processed" \in wrote[w]
                    THEN [outbox EXCEPT ![j] = "processed"] ELSE outbox
    /\ UNCHANGED stamp

(* Everything the transaction wrote becomes visible, and its locks go. *)
Publish(w) ==
    LET j == job[w] IN
    /\ settled' = IF "settled" \in wrote[w] THEN settled \cup {j} ELSE settled
    /\ status'  = IF "status" \in wrote[w] /\ status[j] = "pending"
                    THEN [status EXCEPT ![j] = "succeeded"] ELSE status
    /\ outbox'  = IF "processed" \in wrote[w]
                    THEN [outbox EXCEPT ![j] = "processed"] ELSE outbox
    /\ UNCHANGED stamp

Commit(w) == /\ pc[w] = "commit"
             /\ Publish(w)
             /\ BackToLoop(w)
             /\ UNCHANGED faults

(* A statement fails or the worker dies and is restarted: the database     *)
(* rolls the transaction back.  A commit whose outcome the worker does not *)
(* learn is this step or Commit.                                           *)
Rollback(w) == /\ pc[w] # "loop"
               /\ faults < MaxFaults
               /\ faults' = faults + 1
               /\ BackToLoop(w)
               /\ UNCHANGED dbVars

-----------------------------------------------------------------------------
(* The worker's statements, without failures. *)
Lock(w) == LockJob(w) \/ LockPaymentOfRefund(w)
Work(w) == \/ Claim(w) \/ Lock(w) \/ AppendLedger(w)
           \/ UpdateStatus(w) \/ MarkProcessed(w) \/ Commit(w)

Next == \/ \E p \in Payments : AcceptPayment(p)
        \/ \E r \in Refunds : AcceptRefund(r)
        \/ \E w \in Workers : Work(w) \/ PopJob(w) \/ Rollback(w)

Spec == Init /\ [][Next]_vars

(* A worker keeps running its loop; PostgreSQL queues the transactions     *)
(* that wait for a row lock, so each gets it in its turn.  Failures are    *)
(* bounded by MaxFaults; nobody need accept anything.                      *)
FairSpec == /\ Spec
            /\ \A w \in Workers : WF_vars(Work(w)) /\ SF_vars(Lock(w))

-----------------------------------------------------------------------------
Statuses == {"absent", "pending", "succeeded"}
Stages   == {"loop", "settle", "lockpay"} \cup LockedStages

(* Every variable keeps its type. *)
TypeOK ==
    /\ status \in [Jobs -> Statuses]
    /\ settled \subseteq Jobs
    /\ outbox \in [Jobs -> {"none", "new", "processed"}]
    /\ stamp \in [Jobs -> Nat]
    /\ pc \in [Workers -> Stages]
    /\ job \in [Workers -> Jobs \cup {NoJob}]
    /\ source \in [Workers -> {"outbox", "queue"}]
    /\ wrote \in [Workers -> SUBSET {"settled", "status", "processed"}]
    /\ faults \in 0..MaxFaults

(* The ledger explains the status: a job has its settlement event if and   *)
(* only if it has succeeded, whatever crashed and whoever else worked on   *)
(* it.                                                                     *)
LedgerMatchesStatus == \A j \in Jobs : j \in settled <=> status[j] = "succeeded"

(* A job that is still pending has an outbox row some worker will find: no *)
(* crash between settling and marking, and no second worker, strands it.   *)
PendingIsQueued == \A j \in Jobs : status[j] = "pending" => outbox[j] = "new"

Merchant == INSTANCE Lifecycle

(* What a merchant sees moves only along the life cycle: no status goes    *)
(* back, and no refund appears before its payment has succeeded.           *)
FollowsLifecycle == Merchant!Spec

(* The workers implement the whole life cycle: everything accepted is      *)
(* settled in the end, whatever fails on the way.                          *)
SettlesEverything == Merchant!LiveSpec

-----------------------------------------------------------------------------
(* The strengthening that makes the properties above inductive. *)

(* A worker in a transaction has a job; only a queue message may name one  *)
(* that does not exist, and then nothing is written.                       *)
HasJob(w) ==
    /\ pc[w] # "loop" =>
         \/ job[w] \in Jobs
         \/ job[w] = NoJob /\ pc[w] = "commit" /\ wrote[w] = {}
    /\ pc[w] = "lockpay" => job[w] \in Refunds
    /\ pc[w] = "mark" => source[w] = "outbox"

(* The outbox row a worker has claimed stays unprocessed until it commits. *)
ClaimInv(w) ==
    pc[w] # "loop" /\ source[w] = "outbox" =>
        job[w] \in Jobs /\ outbox[job[w]] = "new"

(* What a transaction has written follows from where it is; the ledger     *)
(* event and the status go together.                                       *)
WroteInv(w) ==
    /\ pc[w] \in {"loop", "settle", "lockpay", "ledger"} => wrote[w] = {}
    /\ pc[w] = "update" => wrote[w] = {"settled"}
    /\ pc[w] \in {"mark", "commit"} =>
         ("settled" \in wrote[w] <=> "status" \in wrote[w])
    /\ "processed" \in wrote[w] => source[w] = "outbox"

(* A worker past its checks either found its job settled or is settling    *)
(* it, and nobody else changes the job meanwhile.                          *)
ReadStillHolds(w) ==
    /\ pc[w] = "lockpay" => status[job[w]] # "absent"
    /\ pc[w] \in {"ledger", "update"} => status[job[w]] = "pending"
    /\ pc[w] \in {"mark", "commit"} /\ job[w] \in Jobs =>
         status[job[w]] = IF "status" \in wrote[w] THEN "pending"
                                                   ELSE "succeeded"

(* Row locks and claimed outbox rows have one holder. *)
LocksExclusive ==
    \A v, w \in Workers : v # w =>
        \A x \in Jobs : ~(Holds(v, x) /\ Holds(w, x))
ClaimsExclusive ==
    \A v, w \in Workers : v # w =>
        \A j \in Jobs : ~(Claims(v, j) /\ Claims(w, j))

(* A job has an outbox row from the moment it exists. *)
OutboxFromBirth == \A j \in Jobs : outbox[j] = "none" <=> status[j] = "absent"

(* A refund is never ahead of its payment: AcceptRefund requires it, as    *)
(* RefundCreate shows of the code, and no status goes back.                *)
NoPoisonedRefund ==
    \A r \in Refunds : status[r] # "absent" => status[PaymentOf[r]] = "succeeded"

(* The inductive invariant. *)
SettlementInv ==
    /\ TypeOK
    /\ \A w \in Workers :
          HasJob(w) /\ ClaimInv(w) /\ WroteInv(w) /\ ReadStillHolds(w)
    /\ LocksExclusive /\ ClaimsExclusive /\ OutboxFromBirth
    /\ LedgerMatchesStatus /\ PendingIsQueued /\ NoPoisonedRefund
=============================================================================
