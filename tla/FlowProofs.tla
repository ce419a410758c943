----------------------------- MODULE FlowProofs -----------------------------
(***************************************************************************)
(* Theorems about PayFlow, the whole worker, for any number of workers,    *)
(* payments, refunds, tenants and retry calls.                             *)
(*                                                                         *)
(* Its settlements are steps of Settlement and its deliveries steps of     *)
(* WebhookDelivery, so both inductive invariants carry over; what is left  *)
(* is how the loop ties them together.                                     *)
(***************************************************************************)
EXTENDS PayFlow, SettlementProofs

(* WebhookDelivery again, as PayFlow has it, with its theorems. *)
WP == INSTANCE WebhookProofs
        WITH Events <- Jobs, NoEvent <- NoJob, Leftover <- {},
             Connected <- TRUE,
             outbox <- Unprocessed, leftover <- {}, settled <- Succeeded,
             pc <- stage, job <- event, faults <- losses

(* Only outbox rows are settled, and a transaction about to commit has     *)
(* marked its row.                                                         *)
OutboxOnly(w) == /\ source[w] = "outbox"
                 /\ pc[w] = "commit" => "processed" \in wrote[w]

(* The settlement of j has committed, its outbox row marked. *)
Over(j) == outbox[j] = "processed" /\ status[j] = "succeeded"

(* Rows, messages, POSTs and workers name only settlements that are over. *)
OnlyOver == \A j \in Jobs : WP!Named(j) => Over(j)

(* One goroutine: it settles, waits for a message or handles one.          *)
OneThing(w) == /\ pc[w] # "loop" => stage[w] = "loop" /\ ~waiting[w]
               /\ waiting[w] => stage[w] = "loop"

(* The inductive invariant. *)
FlowInv == /\ SettlementInv
           /\ WP!WebhookInv
           /\ waiting \in [Workers -> BOOLEAN]
           /\ \A w \in Workers : OutboxOnly(w) /\ OneThing(w)
           /\ OnlyOver

-----------------------------------------------------------------------------
(* The two instances of WebhookDelivery are the same. *)
LEMMA SameInit == W!Init <=> WP!Init
  BY DEF W!Init, WP!Init, W!NoHook, WP!NoHook

LEMMA SameNext == [W!Next]_(W!vars) <=> [WP!Next]_(WP!vars)
  BY
     DEF W!tables, WP!tables, W!rows, WP!rows, W!locals, WP!locals,
         W!history, WP!history, W!vars, WP!vars, W!Complete,
         WP!Complete, W!HookOf, WP!HookOf, W!Goto, WP!Goto,
         W!BackToLoop, WP!BackToLoop, W!UpdateWhere, WP!UpdateWhere,
         W!patchTenantWebhook, WP!patchTenantWebhook, W!Settle,
         WP!Settle, W!Announce, WP!Announce, W!InsertDelivery,
         WP!InsertDelivery, W!Enqueue, WP!Enqueue,
         W!PublishWebhookDelivery, WP!PublishWebhookDelivery, W!Dequeue,
         WP!Dequeue, W!BRPopJob, WP!BRPopJob, W!CompleteMessage,
         WP!CompleteMessage, W!Limit, WP!Limit, W!AfterRead,
         WP!AfterRead, W!ReadDelivery, WP!ReadDelivery, W!GiveUp,
         WP!GiveUp, W!Posted, WP!Posted, W!Acknowledged,
         WP!Acknowledged, W!Rejected, WP!Rejected, W!MarkSucceeded,
         WP!MarkSucceeded, W!Failed, WP!Failed, W!CountFailure,
         WP!CountFailure, W!Fail, WP!Fail, W!Stage, WP!Stage, W!Running,
         WP!Running, W!Owns, WP!Owns, W!RetryRead, WP!RetryRead,
         W!RetryUpdate, WP!RetryUpdate, W!ApiPublish, WP!ApiPublish,
         W!RetryPublish, WP!RetryPublish, W!RetryFail, WP!RetryFail,
         W!Resend, WP!Resend, W!RetryResend, WP!RetryResend,
         W!EnqueueIfNeeded, WP!EnqueueIfNeeded, W!ProcessDelivery,
         WP!ProcessDelivery, W!Work, WP!Work,
         W!postWebhookDeliveryRetry, WP!postWebhookDeliveryRetry,
         W!Next, WP!Next

-----------------------------------------------------------------------------
LEMMA FlowStart == FlowInit => FlowInv
  <1> SUFFICES ASSUME FlowInit PROVE FlowInv
    OBVIOUS
  <1>1. SettlementInv
    BY SettlementStart DEF FlowInit
  <1>2. WP!WebhookInv
    BY SameInit, WP!WebhookStart, FlowConstants, SettlementConstants
    DEF FlowInit, WP!Urls
  <1>3. OnlyOver
    BY DEF FlowInit, W!Init, OnlyOver, WP!Named
  <1> QED BY <1>1, <1>2, <1>3
          DEF FlowInit, Init, W!Init, FlowInv, OutboxOnly, OneThing

(* A step of the worker is a step of Settlement or does not touch it. *)
LEMMA SettlesLikeSettlement == [FlowNext]_flowVars => [Next]_vars
  BY DEF FlowNext, flowVars, Accept, Settling, Endpoints, Webhooks, LoopStep,
         tryProcessOutbox, CommitAndFollowUp, OutboxEmpty, Pop, PopTimesOut,
         Deliver, Failure, Next, Work

(* Before its commit a settlement changes nothing that webhooks depend on. *)
LEMMA SettlingIsSilent ==
  ASSUME FlowInv, NEW w \in Workers,
         \/ Claim(w) \/ Lock(w) \/ AppendLedger(w) \/ UpdateStatus(w)
         \/ MarkProcessed(w) \/ Rollback(w)
  PROVE  UNCHANGED <<status, outbox>>
  BY DEF Claim, Lock, LockJob, LockPaymentOfRefund, AppendLedger, UpdateStatus,
         MarkProcessed, Write, Rollback, dbVars

LEMMA AcceptIsSilent ==
  ASSUME FlowInv, Accept
  PROVE  /\ UNCHANGED <<hookVars, waiting, source, pc, wrote>>
         /\ Unprocessed' = Unprocessed /\ Succeeded' = Succeeded
         /\ \A j \in Jobs : Over(j) => Over(j)'
  <1>1. ASSUME NEW j \in Jobs, status[j] = "absent",
               status' = [status EXCEPT ![j] = "pending"],
               outbox' = [outbox EXCEPT ![j] = "new"]
        PROVE  /\ Unprocessed' = Unprocessed /\ Succeeded' = Succeeded
               /\ \A k \in Jobs : Over(k) => Over(k)'
    BY <1>1 DEF FlowInv, SettlementInv, TypeOK, OutboxFromBirth, Unprocessed,
                Succeeded, Over
  <1> QED BY <1>1 DEF Accept, Settling, AcceptPayment, AcceptRefund, Jobs

(* The commit of a settlement is the step that settles for webhooks, and   *)
(* every other step of the loop is one of theirs or silent.                *)
LEMMA ActsLikeWebhooks ==
  ASSUME FlowInv, [FlowNext]_flowVars
  PROVE  [W!Next]_(W!vars)
  <1> USE DEF W!vars, W!tables, W!rows, W!locals, W!history, hookVars
  <1>1. CASE Accept
    BY <1>1, AcceptIsSilent
  <1>2. CASE Endpoints
    BY <1>2 DEF Endpoints, Webhooks, W!Next
  <1>3. ASSUME NEW w \in Workers, LoopStep(w)
        PROVE  [W!Next]_(W!vars)
    <2>1. CASE tryProcessOutbox(w)
      BY <1>3, <2>1, SettlingIsSilent DEF tryProcessOutbox, Settling, Unprocessed,
                                      Succeeded
    <2>2. CASE CommitAndFollowUp(w)
      <3>1. job[w] \in Jobs
        BY <2>2 DEF CommitAndFollowUp, Commit, FlowInv, OutboxOnly, SettlementInv, ClaimInv
      <3> QED BY <2>2, <3>1 DEF CommitAndFollowUp, W!Next, W!Work
    <2>3. CASE OutboxEmpty(w) \/ PopTimesOut(w)
      BY <2>3 DEF OutboxEmpty, PopTimesOut, vars, Unprocessed, Succeeded
    <2>4. CASE Pop(w)
      BY <2>4 DEF Pop, W!Next, W!Work
    <2>5. CASE Deliver(w)
      BY <2>5 DEF Deliver, Webhooks, W!Next, W!Work
    <2> QED BY <1>3, <2>1, <2>2, <2>3, <2>4, <2>5 DEF LoopStep
  <1>4. ASSUME NEW w \in Workers, Failure(w)
        PROVE  [W!Next]_(W!vars)
    BY <1>4, SettlingIsSilent DEF Failure, Settling, Webhooks, W!Next, Unprocessed, Succeeded
  <1>5. CASE UNCHANGED flowVars
    BY <1>5 DEF flowVars, vars, Unprocessed, Succeeded
  <1> QED BY <1>1, <1>2, <1>3, <1>4, <1>5 DEF FlowNext

LEMMA OutboxOnlyStep ==
  ASSUME FlowInv, [FlowNext]_flowVars, NEW v \in Workers
  PROVE  OutboxOnly(v)'
  <1> USE DEF FlowInv, SettlementInv, TypeOK, OutboxOnly
  <1>1. CASE Accept
    BY <1>1, AcceptIsSilent
  <1>2. CASE UNCHANGED vars
    BY <1>2 DEF vars
  <1>3. ASSUME NEW w \in Workers, Claim(w)
        PROVE  OutboxOnly(v)'
    BY <1>3 DEF Claim, Goto
  <1>4. ASSUME NEW w \in Workers, Lock(w)
        PROVE  OutboxOnly(v)'
    BY <1>4 DEF Lock, LockJob, LockPaymentOfRefund, AfterSettle, BackToLoop, Goto
  <1>5. ASSUME NEW w \in Workers, AppendLedger(w) \/ UpdateStatus(w) \/ MarkProcessed(w)
        PROVE  OutboxOnly(v)'
    BY <1>5 DEF AppendLedger, UpdateStatus, MarkProcessed, Write, AfterSettle, Goto
  <1>6. ASSUME NEW w \in Workers, Commit(w) \/ Rollback(w)
        PROVE  OutboxOnly(v)'
    BY <1>6 DEF Commit, Rollback, BackToLoop, Goto
  <1> QED BY <1>1, <1>2, <1>3, <1>4, <1>5, <1>6
          DEF FlowNext, flowVars, Settling, Endpoints, Webhooks, LoopStep,
              tryProcessOutbox, CommitAndFollowUp, OutboxEmpty, Pop, PopTimesOut,
              Deliver, Failure

(* Only the worker's own steps move it. *)
LEMMA WebhooksMoveOne ==
  ASSUME WP!WebhookInv, NEW w \in Workers,
         \/ W!EnqueueIfNeeded(w) \/ W!CompleteMessage(w)
         \/ W!ProcessDelivery(w) \/ W!Fail(w) \/ W!Resend(w)
  PROVE  stage[w] # "loop" /\ \A v \in Workers \ {w} : stage'[v] = stage[v]
  <1> USE DEF WP!WebhookInv, WP!TypeOK, W!Goto, W!BackToLoop
  <1>1. CASE W!EnqueueIfNeeded(w)
    BY <1>1 DEF W!EnqueueIfNeeded, W!Announce, W!InsertDelivery, W!PublishWebhookDelivery
  <1>2. CASE W!CompleteMessage(w) \/ W!Fail(w) \/ W!Resend(w)
    BY <1>2 DEF W!CompleteMessage, W!Fail, W!Resend, W!locals
  <1>3. CASE W!ReadDelivery(w)
    BY <1>3 DEF W!ReadDelivery
  <1>4. CASE W!GiveUp(w) \/ W!Acknowledged(w) \/ W!Rejected(w) \/ W!MarkSucceeded(w)
    BY <1>4 DEF W!GiveUp, W!Acknowledged, W!Rejected, W!MarkSucceeded
  <1>5. CASE W!CountFailure(w)
    BY <1>5 DEF W!CountFailure, W!Failed
  <1> QED BY <1>1, <1>2, <1>3, <1>4, <1>5 DEF W!ProcessDelivery

LEMMA OneThingStep ==
  ASSUME FlowInv, [FlowNext]_flowVars, NEW v \in Workers
  PROVE  OneThing(v)'
  <1> USE DEF FlowInv, SettlementInv, TypeOK, WP!WebhookInv, WP!TypeOK, OneThing
  <1>1. CASE Accept
    BY <1>1, AcceptIsSilent DEF hookVars
  <1>2. CASE Endpoints
    <2>1. UNCHANGED <<vars, stage, waiting>>
      BY <1>2 DEF Endpoints, Webhooks, W!patchTenantWebhook, W!RetryRead,
                  W!postWebhookDeliveryRetry, W!RetryUpdate, W!RetryPublish,
                  W!RetryFail, W!RetryResend, W!locals
    <2> QED BY <2>1 DEF vars
  <1>3. ASSUME NEW w \in Workers, tryProcessOutbox(w)
        PROVE  OneThing(v)'
    <2>1. UNCHANGED <<stage, waiting>> /\ stage[w] = "loop" /\ ~waiting[w]
      BY <1>3 DEF tryProcessOutbox, Settling, hookVars, AtTop, Lock, LockJob,
                  LockPaymentOfRefund, AppendLedger, UpdateStatus, MarkProcessed, Write
    <2>2. v # w => pc'[v] = pc[v]
      BY <1>3 DEF tryProcessOutbox, Settling, Claim, Lock, LockJob,
                  LockPaymentOfRefund, AppendLedger, UpdateStatus, MarkProcessed,
                  Write, BackToLoop, Goto
    <2> QED BY <2>1, <2>2
  <1>4. ASSUME NEW w \in Workers, CommitAndFollowUp(w)
        PROVE  OneThing(v)'
    BY <1>4 DEF CommitAndFollowUp, Commit, BackToLoop, Goto, W!Settle, W!Goto
  <1>5. ASSUME NEW w \in Workers, OutboxEmpty(w) \/ PopTimesOut(w)
        PROVE  OneThing(v)'
    BY <1>5 DEF OutboxEmpty, PopTimesOut, AtTop, vars, hookVars
  <1>6. ASSUME NEW w \in Workers, Pop(w)
        PROVE  OneThing(v)'
    BY <1>6 DEF Pop, vars, W!BRPopJob, W!Goto
  <1>7. ASSUME NEW w \in Workers, Deliver(w) \/ Webhooks(W!Fail(w) \/ W!Resend(w))
        PROVE  OneThing(v)'
    <2>1. stage[w] # "loop" /\ \A u \in Workers \ {w} : stage'[u] = stage[u]
      BY <1>7, WebhooksMoveOne DEF Deliver, Webhooks
    <2> QED BY <1>7, <2>1 DEF Deliver, Webhooks, vars
  <1>8. ASSUME NEW w \in Workers, Settling(Rollback(w))
        PROVE  OneThing(v)'
    BY <1>8 DEF Settling, Rollback, BackToLoop, Goto, hookVars
  <1>9. CASE UNCHANGED flowVars
    BY <1>9 DEF flowVars, vars, hookVars
  <1> QED BY <1>1, <1>2, <1>3, <1>4, <1>5, <1>6, <1>7, <1>8, <1>9
          DEF FlowNext, LoopStep, Failure

(* A settlement that is over stays over. *)
LEMMA OverForEver ==
  ASSUME FlowInv, [FlowNext]_flowVars
  PROVE  \A j \in Jobs : Over(j) => Over(j)'
  <1> USE DEF FlowInv, SettlementInv, TypeOK, Over
  <1>1. CASE Accept
    BY <1>1, AcceptIsSilent
  <1>2. CASE UNCHANGED vars
    BY <1>2 DEF vars
  <1>3. ASSUME NEW w \in Workers, Commit(w)
        PROVE  \A j \in Jobs : Over(j) => Over(j)'
    BY <1>3 DEF Commit, Publish
  <1>4. ASSUME NEW w \in Workers,
               \/ Claim(w) \/ Lock(w) \/ AppendLedger(w) \/ UpdateStatus(w)
               \/ MarkProcessed(w) \/ Rollback(w)
        PROVE  UNCHANGED <<status, outbox>>
    BY <1>4, SettlingIsSilent
  <1> QED BY <1>1, <1>2, <1>3, <1>4
          DEF FlowNext, flowVars, Settling, Endpoints, Webhooks, LoopStep,
              tryProcessOutbox, CommitAndFollowUp, OutboxEmpty, Pop, PopTimesOut,
              Deliver, Failure

(* Every commit settles its job and marks its outbox row: CommitAndFollowUp *)
(* asks nothing of the tables that Commit alone does not do.                *)
LEMMA CommitIsOver ==
  ASSUME FlowInv, NEW w \in Workers, Commit(w)
  PROVE  /\ stage[w] = "loop"
         /\ job[w] \in Unprocessed /\ Unprocessed' = Unprocessed \ {job[w]}
         /\ Succeeded' = Succeeded \cup {job[w]}
  <1>1. /\ job[w] \in Jobs /\ "processed" \in wrote[w] /\ outbox[job[w]] = "new"
        /\ status[job[w]] = IF "status" \in wrote[w] THEN "pending" ELSE "succeeded"
    BY DEF Commit, FlowInv, OutboxOnly, SettlementInv, ClaimInv, ReadStillHolds
  <1>2. Succeeded' = Succeeded \cup {job[w]}
    BY <1>1 DEF Commit, Publish, FlowInv, SettlementInv, TypeOK, Succeeded
  <1>3. outbox' = [outbox EXCEPT ![job[w]] = "processed"]
    BY <1>1 DEF Commit, Publish
  <1>4. stage[w] = "loop"
    BY DEF Commit, FlowInv, OneThing
  <1> QED BY <1>1, <1>2, <1>3, <1>4 DEF FlowInv, SettlementInv, TypeOK, Unprocessed

LEMMA OnlyOverStep ==
  ASSUME FlowInv, [FlowNext]_flowVars, NEW j \in Jobs, WP!Named(j)'
  PROVE  Over(j)'
  <1>1. WP!Named(j) \/ \E w \in Workers : WP!Settle(w, j)
    <2>1. WP!WebhookInv /\ [WP!Next]_(WP!vars)
      BY ActsLikeWebhooks, SameNext DEF FlowInv
    <2> QED BY <2>1, WP!NamedStep, FlowConstants, SettlementConstants DEF WP!Urls
  <1>2. CASE WP!Named(j)
    BY <1>2, OverForEver DEF FlowInv, OnlyOver
  <1>3. ASSUME NEW w \in Workers, WP!Settle(w, j)
        PROVE  Over(j)'
    <2>1. j \in Succeeded' /\ j \notin Unprocessed'
      BY <1>3 DEF WP!Settle
    <2> QED BY <2>1 DEF Unprocessed, Succeeded, Over
  <1> QED BY <1>1, <1>2, <1>3

LEMMA FlowStep == FlowInv /\ [FlowNext]_flowVars => FlowInv'
  <1> SUFFICES ASSUME FlowInv, [FlowNext]_flowVars PROVE FlowInv'
    OBVIOUS
  <1>1. SettlementInv'
    BY SettlesLikeSettlement, SettlementStep DEF FlowInv
  <1>2. WP!WebhookInv'
    BY ActsLikeWebhooks, SameNext, WP!WebhookStep, FlowConstants, SettlementConstants
    DEF FlowInv, WP!Urls
  <1>3. \A w \in Workers : OutboxOnly(w)' /\ OneThing(w)'
    BY OutboxOnlyStep, OneThingStep
  <1>4. (waiting \in [Workers -> BOOLEAN])'
    BY DEF FlowInv, FlowNext, flowVars, Accept, Settling, Endpoints, Webhooks,
           LoopStep, tryProcessOutbox, CommitAndFollowUp, OutboxEmpty, Pop,
           PopTimesOut, Deliver, Failure
  <1>5. OnlyOver'
    BY OnlyOverStep DEF OnlyOver
  <1> QED BY <1>1, <1>2, <1>3, <1>4, <1>5 DEF FlowInv

-----------------------------------------------------------------------------
(* The inductive invariant holds throughout. *)
THEOREM FlowInvariant == FlowSpec => []FlowInv
  BY FlowStart, FlowStep, PTL DEF FlowSpec

(* The worker's loop implements WebhookDelivery: the commit that ends      *)
(* Settlement's statements is its settlement, everything else one of its   *)
(* steps or invisible to it.                                               *)
THEOREM LoopImplementsWebhooks == FlowSpec => ImplementsWebhooks
  <1>1. FlowInit => W!Init
    BY DEF FlowInit
  <1>2. FlowInv /\ [FlowNext]_flowVars => [W!Next]_(W!vars)
    BY ActsLikeWebhooks
  <1> QED BY <1>1, <1>2, FlowInvariant, PTL DEF FlowSpec, ImplementsWebhooks, W!Spec

(* The worker's loop implements Settlement, so whatever is proved of       *)
(* Settlement holds of the loop.                                           *)
THEOREM LoopImplementsSettlement == FlowSpec => Spec
  <1>1. FlowInit => Init
    BY DEF FlowInit
  <1> QED BY <1>1, SettlesLikeSettlement, PTL DEF FlowSpec, Spec

(* No merchant ever hears of a payment or refund that has not succeeded,   *)
(* that the ledger does not show, or that a worker may settle again.       *)
THEOREM OnlyTruthIsPosted == FlowSpec => []MerchantHearsTruth
  <1>1. FlowInv => MerchantHearsTruth
    BY DEF FlowInv, OnlyOver, WP!Named, Over, SettlementInv, LedgerMatchesStatus,
           MerchantHearsTruth
  <1> QED BY <1>1, FlowInvariant, PTL

-----------------------------------------------------------------------------
(* WebhookDelivery's invariant of what was published once carries over. *)
LEMMA FlowOnce == FlowSpec => []WP!OnceInv
  <1>1. FlowInit => WP!OnceInv
    BY SameInit, WP!OnceStart, FlowConstants, SettlementConstants
    DEF FlowInit, WP!Urls
  <1>2. FlowInv /\ WP!OnceInv /\ [FlowNext]_flowVars => WP!OnceInv'
    <2> SUFFICES ASSUME FlowInv, WP!OnceInv, [FlowNext]_flowVars
                 PROVE  WP!OnceInv'
      OBVIOUS
    <2>1. WP!WebhookInv /\ [WP!Next]_(WP!vars)
      BY ActsLikeWebhooks, SameNext DEF FlowInv
    <2> QED BY <2>1, WP!OnceStep, FlowConstants, SettlementConstants
            DEF WP!Urls
  <1> QED BY <1>1, <1>2, FlowInvariant, PTL DEF FlowSpec

(* The whole worker sends at most max_attempts POSTs of an event between   *)
(* two retries, whatever fails, unless two messages stood for it.          *)
THEOREM FlowPostsAreBounded == FlowSpec => []W!AttemptsBounded
  <1>1. WP!OnceInv => W!AttemptsBounded
    BY DEF WP!OnceInv, WP!PostsAreCounted, W!AttemptsBounded
  <1> QED BY <1>1, FlowOnce, PTL

(* Until something fails after a settlement's commit, the whole worker     *)
(* records every 2xx, unless two retry calls both published the event.     *)
THEOREM FlowAcksAreRecorded == FlowSpec => []W!AckIsRecorded
  <1>1. WP!OnceInv => W!AckIsRecorded
    BY DEF WP!OnceInv, WP!AckIsRecorded, W!AckIsRecorded
  <1> QED BY <1>1, FlowOnce, PTL

-----------------------------------------------------------------------------
(* Until something fails after a settlement's commit, every payment and    *)
(* refund settled while its tenant had a hook has its delivery row or a    *)
(* worker about to insert it: the follow-up comes after the commit.        *)
THEOREM FlowAnnouncesEverything == FlowSpec => []W!DueIsAnnounced
  <1> DEFINE I == WP!DueIsHooked /\ WP!DueIsAnnounced
  <1>1. FlowInit => I
    BY SameInit DEF FlowInit, WP!Init, WP!DueIsHooked, WP!DueIsAnnounced
  <1>2. FlowInv /\ I /\ [FlowNext]_flowVars => I'
    BY ActsLikeWebhooks, SameNext, WP!DueStep, FlowConstants, SettlementConstants
    DEF FlowInv, WP!Urls
  <1>3. I => W!DueIsAnnounced
    BY DEF WP!DueIsAnnounced, W!DueIsAnnounced
  <1> QED BY <1>1, <1>2, <1>3, FlowInvariant, PTL DEF FlowSpec

(* Until something fails after a settlement's commit, no pending delivery  *)
(* of the whole worker is forgotten, provided that hooks can be parsed.    *)
THEOREM FlowForgetsNothing ==
  ASSUME WP!Reachable
  PROVE  FlowSpec => []W!PendingIsCarried
  <1> DEFINE I == WP!NoBadUrl /\ WP!PendingIsCarried
  <1>1. FlowInit => I
    BY SameInit DEF FlowInit, WP!Init, WP!NoHook, WP!NoBadUrl, WP!PendingIsCarried
  <1>2. FlowInv /\ I /\ [FlowNext]_flowVars => I'
    <2> SUFFICES ASSUME FlowInv, I, [FlowNext]_flowVars
                 PROVE  WP!NoBadUrl' /\ WP!PendingIsCarried'
      OBVIOUS
    <2>1. WP!WebhookInv /\ [WP!Next]_(WP!vars)
      BY ActsLikeWebhooks, SameNext DEF FlowInv
    <2>2. WP!NoBadUrl'
      BY <2>1, WP!Reachable, WP!NoBadUrlStep, FlowConstants, SettlementConstants
      DEF WP!Urls
    <2>3. ASSUME losses' = 0, NEW j \in Jobs, row'[j] = "pending"
          PROVE  WP!Carried(j)'
      BY <2>1, <2>3, WP!Reachable, WP!CarriedStep, FlowConstants, SettlementConstants
      DEF WP!Urls
    <2> QED BY <2>2, <2>3 DEF WP!PendingIsCarried
  <1>3. I => W!PendingIsCarried
    BY DEF WP!PendingIsCarried, W!PendingIsCarried, WP!Carried, W!Carried,
           WP!Delivering, W!Delivering
  <1> QED BY <1>1, <1>2, <1>3, FlowInvariant, PTL DEF FlowSpec
=============================================================================
