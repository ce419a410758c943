--------------------------- MODULE WebhookDelivery ---------------------------
(***************************************************************************)
(* Outbound webhooks: what a worker does after a settlement has committed  *)
(* (webhook.EnqueuePaymentSettledIfNeeded, EnqueueRefundSucceededIfNeeded),*)
(* the webhook queue, webhook.ProcessDelivery at the grain of one          *)
(* statement or POST per step, and the API's retry endpoint.               *)
(*                                                                         *)
(* An event is a payment or a refund that will be settled; its             *)
(* merchant_idempotency_key names it, so it has at most one delivery row.  *)
(***************************************************************************)
EXTENDS Integers

CONSTANTS Events, Tenants, Workers,
          Callers,      \* concurrent POST .../retry calls of the API
          TenantOf,     \* tenant of an event's payment or refund
          Leftover,     \* events a message of an earlier version still names
          Hooks,        \* the registrations PATCH .../webhook may make
          MaxAttempts,  \* max_attempts, a literal of both INSERTs
          Setting,      \* WEBHOOK_MAX_ATTEMPTS
          Connected,    \* the API has a broker, not the NoOpPublisher
          PeekLock,     \* the broker is Service Bus, not Redis
          NoEvent, NoTenant,
          MaxRetries,   \* bound on retry calls
          MaxFaults     \* bound on failed statements, crashes, lost publishes

(* A target URL net/http cannot parse is stored like any other. *)
Urls == {"none", "good", "bad"}

(* webhook_url and webhook_signing_secret of a new tenant. *)
NoHook == [url |-> "none", secret |-> FALSE]

ASSUME WebhookConstants ==
    /\ TenantOf \in [Events -> Tenants]
    /\ Leftover \subseteq Events
    /\ Hooks \subseteq [url : Urls \ {"none"}, secret : BOOLEAN]
    /\ MaxAttempts \in Nat \ {0} /\ Setting \in Nat \ {0}
    /\ Connected \in BOOLEAN /\ PeekLock \in BOOLEAN
    /\ NoEvent \notin Events /\ NoTenant \notin Tenants
    /\ MaxRetries \in Nat /\ MaxFaults \in Nat

VARIABLES hook,       \* tenants.webhook_url and .webhook_signing_secret
          outbox,     \* events whose settlement is in async_outbox
          leftover,   \* old settlement and refund messages not yet popped
          settled,    \* events whose payment or refund has succeeded
          row,        \* webhook_deliveries.status, "none" without a row
          attempts,   \* attempt_count
          target,     \* target_url
          queue,      \* how many webhook messages name the event
          pc,         \* the statement each worker executes next
          job,        \* the event it works on
          seen,       \* the attempt_count it has read
          url,        \* the webhook_url it has read
          call,       \* the retry calls
          retries, faults,
          due,        \* history: settled while a hook was registered
          posts,      \* history: POSTs since attempt_count was last zero
          acked,      \* history: events the merchant has answered with a 2xx
          twice       \* history: events a second message may stand for

tables  == <<outbox, leftover, settled>>
rows    == <<row, attempts, target>>
locals  == <<pc, job, seen, url>>
history == <<due, posts, acked, twice>>
vars    == <<hook, tables, rows, queue, locals, call, retries, faults, history>>

Init ==
    /\ hook     = [t \in Tenants |-> NoHook]
    /\ outbox   = Events
    /\ leftover = Leftover
    /\ settled  = {}
    /\ row      = [e \in Events |-> "none"]
    /\ attempts = [e \in Events |-> 0]
    /\ target   = [e \in Events |-> "none"]
    /\ queue    = [e \in Events |-> 0]
    /\ pc       = [w \in Workers |-> "loop"]
    /\ job      = [w \in Workers |-> NoEvent]
    /\ seen     = [w \in Workers |-> 0]
    /\ url      = [w \in Workers |-> "none"]
    /\ call     = [c \in Callers |-> [stage |-> "idle", tenant |-> NoTenant,
                                    event |-> NoEvent]]
    /\ retries  = 0
    /\ faults   = 0
    /\ due      = {}
    /\ posts    = [e \in Events |-> 0]
    /\ acked    = {}
    /\ twice    = {}

-----------------------------------------------------------------------------
Complete(h) == h.url # "none" /\ h.secret
HookOf(e)   == hook[TenantOf[e]]

Goto(w, stage) == pc' = [pc EXCEPT ![w] = stage]

BackToLoop(w) == /\ Goto(w, "loop")
                 /\ job'  = [job EXCEPT ![w] = NoEvent]
                 /\ seen' = [seen EXCEPT ![w] = 0]
                 /\ url'  = [url EXCEPT ![w] = "none"]

(* Mutant: the UPDATEs do not look at the status. *)
UpdateWhereAny(e, from, to, count) ==
    /\ row'      = [row EXCEPT ![e] = to]
    /\ attempts' = [attempts EXCEPT ![e] = count]

(* UPDATE ... WHERE status = from: no row, no change, and nobody looks at  *)
(* the number of rows affected.                                            *)
UpdateWhere(e, from, to, count) ==
    IF row[e] = from
      THEN /\ row'      = [row EXCEPT ![e] = to]
           /\ attempts' = [attempts EXCEPT ![e] = count]
      ELSE UNCHANGED <<row, attempts>>

-----------------------------------------------------------------------------
(* PATCH /v1/tenants/me/webhook.  A tenant that withdraws its secret gives *)
(* up what has not been announced yet.                                     *)
patchTenantWebhook(t, h) ==
    /\ hook' = [hook EXCEPT ![t] = h]
    /\ due'  = IF Complete(h) THEN due
               ELSE {e \in due : TenantOf[e] # t \/ row[e] # "none"}
    /\ UNCHANGED <<tables, rows, queue, locals, call, retries, faults,
                   posts, acked, twice>>

-----------------------------------------------------------------------------
(* Mutant: the loop continues without the follow-up. *)
SettleSilently(w, e) ==
    /\ pc[w] = "loop"
    /\ \/ e \in outbox /\ outbox' = outbox \ {e} /\ UNCHANGED leftover
       \/ e \in leftover /\ leftover' = leftover \ {e} /\ UNCHANGED outbox
    /\ settled' = settled \cup {e}
    /\ due' = IF Complete(HookOf(e)) THEN due \cup {e} ELSE due
    /\ UNCHANGED <<hook, rows, queue, locals, call, retries, faults,
                   posts, acked, twice>>

(* A settlement commits: the event's outbox row, or an old queue message   *)
(* that may name an event the outbox has settled or will settle.  Outbox   *)
(* rows also arrive while a worker blocks in BRPOP, so it may pop although *)
(* there are some.                                                         *)
Settle(w, e) ==
    /\ pc[w] = "loop"
    /\ \/ e \in outbox /\ outbox' = outbox \ {e} /\ UNCHANGED leftover
       \/ e \in leftover /\ leftover' = leftover \ {e} /\ UNCHANGED outbox
    /\ settled' = settled \cup {e}
    /\ due' = IF Complete(HookOf(e)) THEN due \cup {e} ELSE due
    /\ Goto(w, "announce")
    /\ job' = [job EXCEPT ![w] = e]
    /\ UNCHANGED <<hook, rows, queue, seen, url, call, retries, faults,
                   posts, acked, twice>>

(* Enqueue...IfNeeded: its SELECT of the settled row and the tenant's hook. *)
Announce(w) ==
    LET e == job[w] IN
    /\ pc[w] = "announce"
    /\ IF e \in settled /\ Complete(HookOf(e))
         THEN /\ Goto(w, "insert")
              /\ url' = [url EXCEPT ![w] = HookOf(e).url]
              /\ UNCHANGED <<job, seen>>
         ELSE BackToLoop(w)
    /\ UNCHANGED <<hook, tables, rows, queue, call, retries, faults, history>>

(* Its INSERT ... ON CONFLICT DO NOTHING and COMMIT.  Who meets another's  *)
(* row does not publish.                                                   *)
InsertDelivery(w) ==
    LET e == job[w] IN
    /\ pc[w] = "insert"
    /\ IF row[e] = "none"
         THEN /\ row'    = [row EXCEPT ![e] = "pending"]
              /\ target' = [target EXCEPT ![e] = url[w]]
              /\ Goto(w, "publish")
              /\ UNCHANGED <<job, seen, url>>
         ELSE BackToLoop(w) /\ UNCHANGED <<row, target>>
    /\ UNCHANGED <<hook, tables, attempts, queue, call, retries, faults,
                   history>>

Enqueue(e) == queue' = [queue EXCEPT ![e] = @ + 1]

PublishWebhookDelivery(w) ==
    /\ pc[w] = "publish"
    /\ Enqueue(job[w])
    /\ BackToLoop(w)
    /\ UNCHANGED <<hook, tables, rows, call, retries, faults, history>>

(* The broker has the message and its reply is lost: the client sends it   *)
(* again, and two messages stand for the event.                            *)
Resend(w) ==
    /\ pc[w] = "publish"
    /\ faults < MaxFaults
    /\ faults' = faults + 1
    /\ Enqueue(job[w])
    /\ twice' = twice \cup {job[w]}
    /\ UNCHANGED <<hook, tables, rows, locals, call, retries, due, posts, acked>>

-----------------------------------------------------------------------------
Dequeue(e) == queue[e] > 0 /\ queue' = [queue EXCEPT ![e] = @ - 1]

(* BRPOP removes the message.  Service Bus hands it out under a lock.      *)
BRPopJob(w, e) ==
    /\ pc[w] = "loop"
    /\ Dequeue(e)
    /\ job' = [job EXCEPT ![w] = e]
    /\ Goto(w, IF PeekLock THEN "locked" ELSE "read")
    /\ UNCHANGED <<hook, tables, rows, seen, url, call, retries, faults,
                   history>>

(* CompleteMessage, still in BRPopJob and before the work: now this        *)
(* message is gone, too.                                                   *)
CompleteMessage(w) ==
    /\ pc[w] = "locked"
    /\ Goto(w, "read")
    /\ UNCHANGED <<hook, tables, rows, queue, job, seen, url, call, retries,
                   faults, history>>

(* The row's own limit, or the setting when the row has none. *)
Limit == IF MaxAttempts <= 0 THEN Setting ELSE MaxAttempts

(* What ProcessDelivery does next with what its SELECT returned. *)
AfterRead(e) ==
    IF row[e] # "pending" THEN "loop"
    ELSE IF attempts[e] >= Limit \/ ~HookOf(e).secret THEN "giveup"
    ELSE IF target[e] = "bad" THEN "loop"     \* http.NewRequest fails
    ELSE "post"

ReadDelivery(w) ==
    LET e == job[w] IN
    /\ pc[w] = "read"
    /\ IF AfterRead(e) = "loop" THEN BackToLoop(w)
       ELSE /\ Goto(w, AfterRead(e))
            /\ seen' = [seen EXCEPT ![w] = attempts[e]]
            /\ UNCHANGED <<job, url>>
    /\ UNCHANGED <<hook, tables, rows, queue, call, retries, faults, history>>

(* Mutant: the UPDATE writes a word of its own, which no CHECK refuses. *)
GiveUpOtherWord(w) ==
    /\ pc[w] = "giveup"
    /\ UpdateWhere(job[w], "pending", "dead", attempts[job[w]])
    /\ BackToLoop(w)
    /\ UNCHANGED <<hook, tables, target, queue, call, retries, faults, history>>

GiveUp(w) ==
    /\ pc[w] = "giveup"
    /\ UpdateWhere(job[w], "pending", "dlq", attempts[job[w]])
    /\ BackToLoop(w)
    /\ UNCHANGED <<hook, tables, target, queue, call, retries, faults, history>>

Posted(w) == posts' = [posts EXCEPT ![job[w]] = @ + 1]

(* Mutant: a 202 or 204 is taken for a failure. *)
AcknowledgedAsFailure(w) ==
    /\ pc[w] = "post"
    /\ Posted(w)
    /\ acked' = acked \cup {job[w]}
    /\ Goto(w, "count")
    /\ UNCHANGED <<hook, tables, rows, queue, job, seen, url, call, retries,
                   faults, due, twice>>

(* client.Do returned a 2xx. *)
Acknowledged(w) ==
    /\ pc[w] = "post"
    /\ Posted(w)
    /\ acked' = acked \cup {job[w]}
    /\ Goto(w, "succeed")
    /\ UNCHANGED <<hook, tables, rows, queue, job, seen, url, call, retries,
                   faults, due, twice>>

(* Another status, no answer in ten seconds, or no connection; the         *)
(* merchant may have handled the event.                                    *)
Rejected(w) ==
    /\ pc[w] = "post"
    /\ Posted(w)
    /\ Goto(w, "count")
    /\ UNCHANGED <<hook, tables, rows, queue, job, seen, url, call, retries,
                   faults, due, acked, twice>>

MarkSucceeded(w) ==
    /\ pc[w] = "succeed"
    /\ UpdateWhere(job[w], "pending", "succeeded", attempts[job[w]])
    /\ BackToLoop(w)
    /\ UNCHANGED <<hook, tables, target, queue, call, retries, faults, history>>

(* One failed attempt: attempt_count becomes n, and the loop goes on       *)
(* unless that dead-letters the row.                                       *)
Failed(w, n, again) ==
    LET next == IF n >= Limit THEN "dlq" ELSE "pending" IN
    /\ pc[w] = "count"
    /\ UpdateWhere(job[w], "pending", next, n)
    /\ IF next = "dlq" \/ ~again THEN BackToLoop(w)
       ELSE /\ Goto(w, "read")
            /\ seen' = [seen EXCEPT ![w] = 0]
            /\ UNCHANGED <<job, url>>
    /\ UNCHANGED <<hook, tables, target, queue, call, retries, faults, history>>

(* Mutant: the worker leaves the next attempt to another message. *)
CountFailureOnce(w) == Failed(w, seen[w] + 1, FALSE)

(* Mutant: the attempt is not counted. *)
CountFailureForgets(w) == Failed(w, seen[w], TRUE)

(* The attempt is counted from the attempt_count read before the POST. *)
CountFailure(w) == Failed(w, seen[w] + 1, TRUE)

(* A statement or a publish fails, or the worker dies: the error is only   *)
(* logged, and nothing puts the message or the follow-up back.  A message  *)
(* that is still locked comes back when the lock expires, unless its       *)
(* completion reached the broker; a publish that failed may have reached   *)
(* it.                                                                     *)
Fail(w) ==
    /\ pc[w] # "loop"
    /\ faults < MaxFaults
    /\ faults' = faults + 1
    /\ BackToLoop(w)
    /\ \/ UNCHANGED queue
       \/ pc[w] \in {"locked", "publish"} /\ Enqueue(job[w])
    /\ UNCHANGED <<hook, tables, rows, call, retries, history>>

-----------------------------------------------------------------------------
Stage(c, stage) == call' = [call EXCEPT ![c].stage = stage]
Running(c)      == call[c].stage \in {"update", "publish"}

(* Mutant: the tenant is not compared. *)
OwnsAny(t, e) == row[e] # "none"

(* WHERE id = $1 AND tenant_id = $2. *)
Owns(t, e) == TenantOf[e] = t /\ row[e] # "none"

(* postWebhookDeliveryRetry's SELECT: 404 for an unknown row or another    *)
(* tenant's, 400 unless it is dead-lettered.                               *)
RetryRead(c, t, e) ==
    /\ ~Running(c)
    /\ retries < MaxRetries
    /\ retries' = retries + 1
    /\ call' = [call EXCEPT ![c] =
                  [stage |-> IF ~Owns(t, e) THEN "not_found"
                             ELSE IF row[e] # "dlq" THEN "not_dlq"
                             ELSE "update",
                   tenant |-> t, event |-> e]]
    /\ UNCHANGED <<hook, tables, rows, queue, locals, faults, history>>

(* Its UPDATE ... WHERE status = 'dlq', which it takes to have succeeded:  *)
(* when another call was faster, both go on to publish.                    *)
RetryUpdate(c) ==
    LET e == call[c].event IN
    /\ call[c].stage = "update"
    /\ IF Owns(call[c].tenant, e) THEN UpdateWhere(e, "dlq", "pending", 0)
                                  ELSE UNCHANGED <<row, attempts>>
    /\ posts' = IF row'[e] # row[e] THEN [posts EXCEPT ![e] = 0] ELSE posts
    /\ twice' = IF row[e] = "dlq" THEN twice ELSE twice \cup {e}
    /\ Stage(c, "publish")
    /\ UNCHANGED <<hook, tables, target, queue, locals, retries, faults,
                   due, acked>>

(* The API's publisher does nothing, successfully, when it was started     *)
(* without a broker.                                                       *)
ApiPublish(e) == IF Connected THEN Enqueue(e) ELSE UNCHANGED queue

RetryPublish(c) ==
    /\ call[c].stage = "publish"
    /\ ApiPublish(call[c].event)
    /\ Stage(c, "ok")
    /\ UNCHANGED <<hook, tables, rows, locals, retries, faults, history>>

(* The API's client sends the message again, as in Resend. *)
RetryResend(c) ==
    LET e == call[c].event IN
    /\ call[c].stage = "publish" /\ Connected
    /\ faults < MaxFaults
    /\ faults' = faults + 1
    /\ Enqueue(e)
    /\ twice' = twice \cup {e}
    /\ UNCHANGED <<hook, tables, rows, locals, call, retries, due, posts, acked>>

(* 500 update_failed, 503 enqueue_failed, or the API dies; the message may *)
(* have reached the broker.                                                *)
RetryFail(c) ==
    /\ Running(c)
    /\ faults < MaxFaults
    /\ faults' = faults + 1
    /\ Stage(c, "failed")
    /\ \/ UNCHANGED queue
       \/ call[c].stage = "publish" /\ ApiPublish(call[c].event)
    /\ UNCHANGED <<hook, tables, rows, locals, retries, history>>

-----------------------------------------------------------------------------
(* The two Enqueue...IfNeeded functions differ only in the row they read. *)
EnqueueIfNeeded(w) ==
    Announce(w) \/ InsertDelivery(w) \/ PublishWebhookDelivery(w)

ProcessDelivery(w) ==
    \/ ReadDelivery(w) \/ GiveUp(w) \/ Acknowledged(w) \/ Rejected(w)
    \/ MarkSucceeded(w) \/ CountFailure(w)

Work(w) == \/ \E e \in Events : Settle(w, e) \/ BRPopJob(w, e)
           \/ CompleteMessage(w) \/ EnqueueIfNeeded(w) \/ ProcessDelivery(w)

postWebhookDeliveryRetry(c) == RetryUpdate(c) \/ RetryPublish(c)

Next ==
    \/ \E t \in Tenants, h \in Hooks : patchTenantWebhook(t, h)
    \/ \E w \in Workers : Work(w) \/ Fail(w) \/ Resend(w)
    \/ \E c \in Callers :
          \/ postWebhookDeliveryRetry(c) \/ RetryFail(c) \/ RetryResend(c)
          \/ \E t \in Tenants, e \in Events : RetryRead(c, t, e)

Spec == Init /\ [][Next]_vars

-----------------------------------------------------------------------------
Statuses   == {"none", "pending", "succeeded", "dlq"}
Delivering == {"locked", "read", "giveup", "post", "succeed", "count"}
Stages     == {"loop", "announce", "insert", "publish"} \cup Delivering
CallStages == {"idle", "update", "publish", "ok", "not_found", "not_dlq",
               "failed"}

(* Every variable keeps its type. *)
TypeOK ==
    /\ hook \in [Tenants -> [url : Urls, secret : BOOLEAN]]
    /\ outbox \subseteq Events /\ leftover \subseteq Events
    /\ settled \subseteq Events
    /\ row \in [Events -> Statuses]
    /\ attempts \in [Events -> Nat]
    /\ target \in [Events -> Urls]
    /\ queue \in [Events -> Nat]
    /\ pc \in [Workers -> Stages]
    /\ job \in [Workers -> Events \cup {NoEvent}]
    /\ seen \in [Workers -> Nat]
    /\ url \in [Workers -> Urls]
    /\ call \in [Callers -> [stage : CallStages,
                             tenant : Tenants \cup {NoTenant},
                             event : Events \cup {NoEvent}]]
    /\ retries \in 0..MaxRetries /\ faults \in 0..MaxFaults
    /\ due \subseteq Events /\ acked \subseteq Events /\ twice \subseteq Events
    /\ posts \in [Events -> Nat]

Merchant == INSTANCE Delivery

(* Whatever workers, retries and crashes do to the rows, each moves only   *)
(* along its life cycle: created for a settled event, succeeded only when  *)
(* the merchant has acknowledged and then for good, out of the dead        *)
(* letters only by a retry.  ProcessDelivery and the retry endpoint rely   *)
(* on the WHERE status = ... of their UPDATEs for it, not on their reads.  *)
FollowsDelivery == Merchant!Spec

(* A dead letter comes back only through a call of the tenant it belongs   *)
(* to.                                                                     *)
RetriedByOwner ==
    [][\A e \in Events : row[e] = "dlq" /\ row'[e] = "pending" =>
          \E c \in Callers : /\ call[c].stage = "update"
                             /\ call[c].event = e
                             /\ call[c].tenant = TenantOf[e]]_vars

(* Somebody will look at e's row: a queued message, a worker that handles  *)
(* it or is about to publish, a retry call that is about to.               *)
Carried(e) ==
    \/ queue[e] > 0
    \/ \E w \in Workers : job[w] = e /\ pc[w] \in Delivering \cup {"publish"}
    \/ \E c \in Callers : call[c].event = e /\ call[c].stage = "publish"

(* No pending delivery is forgotten: some message or process still stands  *)
(* for it, however workers and retry calls race, as long as nothing fails. *)
PendingIsCarried ==
    faults = 0 => \A e \in Events : row[e] = "pending" => Carried(e)

Dequeued(e) == \E w \in Workers : job[w] = e /\ pc[w] \in Delivering

(* A delivery that a worker has dequeued and not finished stays carried:   *)
(* redelivery after a crash, as the worker-crash runbook describes it.     *)
DequeuedIsRedelivered ==
    [][\A e \in Events : row[e] = "pending" /\ Dequeued(e) =>
          row'[e] # "pending" \/ Carried(e)']_vars

(* An event settled while its tenant had a hook gets its delivery row: the *)
(* follow-up after the settlement's commit is not lost unless it fails.    *)
DueIsAnnounced ==
    faults = 0 => \A e \in due :
        \/ row[e] # "none"
        \/ \E w \in Workers : job[w] = e /\ pc[w] \in {"announce", "insert"}

(* Between two retries the merchant gets at most max_attempts POSTs of an  *)
(* event, whatever workers crash or lose: attempt_count, read before the   *)
(* POST and written after it, counts them all as long as one message at a  *)
(* time stands for the event.  Where a publish was sent again, or two      *)
(* retry calls both published, two workers may count from one number.      *)
AttemptsBounded == \A e \in Events \ twice : posts[e] <= MaxAttempts

(* What the merchant has acknowledged is recorded as succeeded, now or by  *)
(* the worker that has the answer: it is neither dead-lettered nor sent    *)
(* again, as long as nothing fails and no two retry calls both published   *)
(* it.                                                                     *)
AckIsRecorded ==
    faults = 0 => \A e \in acked \ twice :
        \/ row[e] = "succeeded"
        \/ \E w \in Workers : job[w] = e /\ pc[w] = "succeed"

(* The comment on max_attempts in the schema: attempts stop there, for     *)
(* every event, two racing retry calls or not.                             *)
MaxAttemptsHold == \A e \in Events : posts[e] <= MaxAttempts
=============================================================================
