------------------------------- MODULE PayFlow -------------------------------
(***************************************************************************)
(* The whole worker: Settlement and WebhookDelivery composed the way the   *)
(* loop of cmd/worker's main composes them.  One goroutine per replica     *)
(* settles outbox rows, announces each settlement after its commit, and    *)
(* only when it has found the outbox empty waits for a webhook message and *)
(* delivers it, retries and pauses included.                               *)
(*                                                                         *)
(* The settlement of WebhookDelivery is one step; here it is the commit    *)
(* that ends Settlement's statements.  Only this version's messages are in *)
(* the queues: nothing is left over of an earlier one.                     *)
(***************************************************************************)
EXTENDS Settlement

CONSTANTS Tenants, Callers, TenantOf, Hooks, MaxAttempts, Setting, PeekLock,
          NoTenant, MaxRetries

ASSUME FlowConstants ==
    /\ TenantOf \in [Jobs -> Tenants]
    /\ Hooks \subseteq [url : {"good", "bad"}, secret : BOOLEAN]
    /\ MaxAttempts \in Nat \ {0} /\ Setting \in Nat \ {0}
    /\ PeekLock \in BOOLEAN /\ NoTenant \notin Tenants
    /\ MaxRetries \in Nat

VARIABLES hook, row, attempts, target, queue, seen, url, call, retries,
          due, posts, acked, twice,   \* as in WebhookDelivery
          stage,      \* WebhookDelivery's pc of each worker
          event,      \* the event it announces or delivers
          losses,     \* WebhookDelivery's faults
          waiting     \* the worker has found the outbox empty: it is in
                      \* BRPopJob, however the outbox fills meanwhile

(* Settlements that have not been marked as processed. *)
Unprocessed == {j \in Jobs : outbox[j] # "processed"}

(* What Enqueue...IfNeeded tests: the status, not the ledger. *)
Succeeded == {j \in Jobs : status[j] = "succeeded"}

W == INSTANCE WebhookDelivery
       WITH Events <- Jobs, NoEvent <- NoJob, Leftover <- {},
            Connected <- TRUE,
            outbox <- Unprocessed, leftover <- {}, settled <- Succeeded,
            pc <- stage, job <- event, faults <- losses

hookVars == <<hook, row, attempts, target, queue, seen, url, call, retries,
              due, posts, acked, twice, stage, event, losses>>
flowVars == <<vars, hookVars, waiting>>

FlowInit == /\ Init
            /\ W!Init
            /\ waiting = [w \in Workers |-> FALSE]

-----------------------------------------------------------------------------
(* The worker is at the top of its loop. *)
AtTop(w) == pc[w] = "loop" /\ stage[w] = "loop" /\ ~waiting[w]

Settling(A) == A /\ UNCHANGED <<hookVars, waiting>>
Webhooks(A) == UNCHANGED vars /\ A /\ UNCHANGED waiting

(* A payment or refund is accepted by the API. *)
Accept == Settling(\/ \E p \in Payments : AcceptPayment(p)
                   \/ \E r \in Refunds : AcceptRefund(r))

(* tryProcessOutbox up to its commit. *)
tryProcessOutbox(w) ==
    Settling(\/ AtTop(w) /\ Claim(w)
             \/ Lock(w) \/ AppendLedger(w) \/ UpdateStatus(w)
             \/ MarkProcessed(w))

(* Mutant: the follow-up is not run for a settlement of the outbox. *)
CommitAndForget(w) == Settling(Commit(w))

(* Its commit, and the settled job is passed to Enqueue...IfNeeded. *)
CommitAndFollowUp(w) ==
    /\ Commit(w)
    /\ W!Settle(w, job[w])
    /\ UNCHANGED waiting

(* tryProcessOutbox has found no row, and BRPopJob begins. *)
OutboxEmpty(w) ==
    /\ AtTop(w)
    /\ Claimable = {}
    /\ waiting' = [waiting EXCEPT ![w] = TRUE]
    /\ UNCHANGED <<vars, hookVars>>

(* BRPopJob returns a message. *)
Pop(w) ==
    /\ waiting[w]
    /\ UNCHANGED vars
    /\ \E e \in Jobs : W!BRPopJob(w, e)
    /\ waiting' = [waiting EXCEPT ![w] = FALSE]

(* BRPopJob returns ErrNoJob after its five seconds. *)
PopTimesOut(w) ==
    /\ waiting[w]
    /\ \A e \in Jobs : queue[e] = 0
    /\ waiting' = [waiting EXCEPT ![w] = FALSE]
    /\ UNCHANGED <<vars, hookVars>>

(* The follow-up of a settlement, and ProcessDelivery, to their end. *)
Deliver(w) == Webhooks(\/ W!EnqueueIfNeeded(w) \/ W!CompleteMessage(w)
                       \/ W!ProcessDelivery(w))

(* One step of the loop. *)
LoopStep(w) == \/ tryProcessOutbox(w) \/ CommitAndFollowUp(w)
               \/ OutboxEmpty(w) \/ Pop(w) \/ PopTimesOut(w) \/ Deliver(w)

(* A failure: before the commit nothing is lost, after it something is.    *)
(* MaxFaults bounds both kinds together.                                   *)
MayFail    == faults + losses < MaxFaults
Failure(w) == MayFail /\ \/ Settling(Rollback(w))
                         \/ Webhooks(W!Fail(w) \/ W!Resend(w))

(* The endpoints beside the worker. *)
Endpoints ==
    \/ \E t \in Tenants, h \in Hooks : Webhooks(W!patchTenantWebhook(t, h))
    \/ \E c \in Callers :
          Webhooks(\/ \E t \in Tenants, e \in Jobs : W!RetryRead(c, t, e)
                   \/ W!postWebhookDeliveryRetry(c)
                   \/ MayFail /\ (W!RetryFail(c) \/ W!RetryResend(c)))

FlowNext == \/ Accept \/ Endpoints
            \/ \E w \in Workers : LoopStep(w) \/ Failure(w)

(* The worker's loop never ends, row locks are granted in turn, and the    *)
(* API finishes its calls.                                                 *)
FlowSpec ==
    /\ FlowInit /\ [][FlowNext]_flowVars
    /\ \A w \in Workers : /\ WF_flowVars(LoopStep(w))
                          /\ SF_flowVars(Settling(Lock(w)))
    /\ \A c \in Callers : WF_flowVars(Webhooks(W!postWebhookDeliveryRetry(c)))

-----------------------------------------------------------------------------
(* The commit that ends Settlement's statements is the settlement that     *)
(* WebhookDelivery takes for one step, so what holds of it holds here.     *)
ImplementsWebhooks == W!Spec

(* A merchant hears of nothing that is not so: whenever an event has been  *)
(* posted its payment or refund has succeeded, the ledger says so, and its *)
(* outbox row is done with.                                                *)
MerchantHearsTruth ==
    \A j \in Jobs : posts[j] > 0 =>
        /\ status[j] = "succeeded" /\ j \in settled
        /\ outbox[j] = "processed"

Expected(j)  == status[j] = "pending" /\ W!Complete(W!HookOf(j))
Withdrawn(j) == row[j] = "none" /\ ~W!Complete(W!HookOf(j))

(* From the merchant's POST to the merchant's webhook: a payment or refund *)
(* accepted while a hook is registered is settled, announced and delivered *)
(* or dead-lettered, and so is every delivery a retry has revived, unless  *)
(* the tenant withdraws the hook before the announcement or something      *)
(* fails after the settlement's commit.  Failures before it do no harm.    *)
AcceptedIsNotified ==
    [](losses = 0) => \A j \in Jobs :
        (Expected(j) \/ row[j] = "pending") ~>
            (row[j] \in {"succeeded", "dlq"} \/ Withdrawn(j))
=============================================================================
