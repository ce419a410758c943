# PayFlow: TLA+ models, checks and proofs

PayFlow (`src/payflow-app`) is a multi-tenant payments platform in Go: an HTTP
API, a worker, PostgreSQL as the only store of record, and a broker (Redis lists
or Azure Service Bus queues) between them. API and worker run with one to three
replicas each (`payflow-platform-config/overlays`), so every operation below may
run concurrently with itself and may be cut by a crash between any two SQL
statements. This directory models the part that moves money state and the part
that tells merchants about it, how the processes come up, and who may ask for
what; checks it with TLC on small instances and proves every safety property the
passing runs check, with TLAPS, for every value of the constants.

## 1. Inventory

| Component | State it keeps | Operations | Interacts with |
|---|---|---|---|
| Payment creation (`internal/payment`, `httpapi/payments.go`) | `payments` row with unique (tenant, scope, key), request hash | `POST /v1/payments` → `Create` | ledger, audit, outbox rows in one transaction; counter after it |
| Refund creation (`internal/refund`, `httpapi/refunds_webhooks.go`) | `refunds` row, same key rule | `POST …/refunds` → `Create`, under the payment's row lock | same as payments; reads `payments` and the sum of the refunds |
| Ledger (`internal/ledger`) | append-only `ledger_events`, unique `dedupe_key` | `Append` | create and settle transactions |
| Outbox (`internal/outbox`) | `async_outbox` rows, `processed_at` | insert at create, claim and mark by the worker | API writes, workers drain |
| Settlement worker (`cmd/worker`) | statuses `pending` → `succeeded` | `tryProcessOutbox`, `SettleMockTx` for payments and refunds, left-over queue messages | outbox, ledger, webhook follow-up |
| Webhook delivery (`internal/webhook`) | `webhook_deliveries`: status, `attempt_count`, `target_url` | `Enqueue…IfNeeded`, `ProcessDelivery` | tenants' registration, queue, merchant's endpoint |
| Registration and retry (`httpapi/refunds_webhooks.go`) | `tenants.webhook_url`, signing secret | `PATCH /v1/tenants/me/webhook`, `POST …/retry` | delivery rows, queue |
| Queue drivers (`internal/queue`) | messages that name a row | publish, `BRPopJob`; `NoOpPublisher` in an API without a broker | worker, retry endpoint |
| Tenants, keys, users (`internal/tenant`, `internal/auth`, `httpapi`) | `tenants`, `api_keys`, `dashboard_users`, audit log | onboarding, revoke, login, two middlewares | every request |
| Start-up (`cmd/api`, `cmd/worker`, `internal/migrate`, `internal/db`) | the schema, each process's stage | `Up` at each API start, listen, drain; a worker's first polls | every table |
| Worker loop (`cmd/worker`) | one goroutine per replica | outbox first, follow-up, then `BRPopJob` | settlement and webhooks |
| Read endpoints (`httpapi`) | none | `getPayment` (two SELECTs), `getRefund`, lists | what workers commit meanwhile |
| Plumbing | none | config, tracing, logging, CORS, routing | |
| Dashboard, Terraform, manifests, CI | outside the app | | |

What makes each correct, and what is hard about it:

* **Create** must be idempotent under races, retries and lost answers, and all
  or nothing over four tables. The hard part is that the second insert of a key
  waits inside PostgreSQL for a transaction whose fate is open.
* **Refunds** must never exceed their payment. The check reads a sum several
  statements before the insert; only the payment's row lock keeps it true.
* **Settlement** must append one ledger event and move one status, together and
  once, although several workers, old queue messages and crashes compete, and
  must lose no job.
* **Webhooks** leave the protection of a single transaction: settlement commit,
  follow-up, delivery row, publish, pop, POST and the recording of its outcome
  are separate steps. The properties ask which of the gaps between them lose or
  repeat work.
* **The worker loop** does all of that in one goroutine: what a merchant is told
  must be committed, and what is accepted must reach the merchant although
  settling, announcing and delivering take turns.
* **Reads** put an answer together from two SELECTs outside a transaction; the
  ledger in it must explain the status in it, whatever commits in between.
* **Tenancy** must keep one tenant's calls away from another's rows.
* **Start-up** runs migrations from several replicas at once and again at every
  restart; nobody may work on half a schema, and the replicas must come up.

`PROJECT.json` lists the hazards one by one with their source lines and the
properties aimed at them.

## 2. Modules

| Module | Models | State ↔ code |
|---|---|---|
| `CreateTx` | the transaction both `Create` functions share | `rows`, `ledger`, `audit`, `outbox` are the committed tables; `pc`, `req`, `rowid`, `buf` one call's open transaction; `answer` what its client was told |
| `IdempotentCreate` | abstract: `docs/contracts/idempotency.md` | `store`, `told` |
| `PaymentCreate` | `POST /v1/payments` | adds `PaymentsCreated`, the Prometheus counter |
| `RefundCreate` | `POST …/refunds` | adds `payStatus`; `Reserved` computes `SUM(amount_cents)` from the rows at each check |
| `Lifecycle` | abstract: absent → pending → succeeded, refunds after their payment | `status` |
| `Settlement` | outbox workers | `status`, `settled` (ledger), `outbox`, `stamp` (`created_at`); `pc`, `job`, `source`, `wrote` a worker's open transaction |
| `PaymentView` | `getPayment` and `getRefund` beside the workers of `Settlement` | `at`, `held` what a `getPayment` has read so far; `answer`, `told` what clients were shown |
| `Delivery` | abstract: the life cycle of a delivery row | `settled`, `row`, `acked` |
| `WebhookDelivery` | follow-up, queue, `ProcessDelivery`, registration, retry | `row`, `attempts`, `target` the delivery row; `queue` the number of messages per row; `seen`, `url` what a worker has read; `due`, `posts`, `acked` are history, and so is `twice`: the events for which a publish was sent again, or a retry call published although its UPDATE changed nothing. `PeekLock` chooses the driver: Redis pops, Service Bus receives (stage `locked`) and then completes |
| `PayFlow` | the loop of `cmd/worker` | extends `Settlement` and instantiates `WebhookDelivery` with `outbox` mapped to the unprocessed rows and `settled` to the jobs whose status is succeeded, which is what `Enqueue…IfNeeded` tests; `stage`, `event` are the latter's `pc`, `job`; `waiting` means inside `BRPopJob` |
| `Startup` | `main` of API and worker, `migrate.Up` | `applied` the files in the catalogue; `pc`, `step` where each process is |
| `Tenancy` | onboarding, API keys, dashboard users, logins, `MiddlewareAPIKey` and `MeAuth` | `tenants`, `keyOwner`, `revoked`, `users` the rows; `audit` the tenants its rows name; `known`, `tokens` what clients hold; `call` the requests past the middleware; `madeBy`, `effect` are history: `effect` names the tenant whose rows a step changed, for a revocation the owner of the key |
| `MC…` | constants for TLC | |
| `CreateTxProofs`, `PaymentCreateProofs`, `RefundCreateProofs`, `StartupProofs`, `TenancyProofs`, `WebhookProofs` | theorems about the module of that name | |
| `SettlementProofs` | theorems about `Settlement` and `PaymentView` | |
| `FlowProofs` | theorems about `PayFlow`; extends `SettlementProofs` and instantiates `WebhookProofs` as `WP` | |

One action is one SQL statement, one POST or one queue operation; what a
transaction has written stays in a per-process buffer until its commit and is
dropped by a rollback. Row locks and unique-key waits are not variables: who
holds what follows from the statement each process has reached (`Holds`,
`KeyFree`), which is how PostgreSQL releases them, at commit or rollback. These
two operators and `Publish` (a commit is atomic) are the assumptions about
PostgreSQL at READ COMMITTED; the code is not otherwise idealised.

Data is reduced to what the properties tell apart. A request is tenant, key and
intent; the fingerprint is the intent after the code's own normalisation (upper
case of the currency, `amount_cents` 0 for a full refund), so two bodies that
the code hashes alike are one intent. A currency is looked up in `Canon`. An
HMAC, a payload and error texts do not occur. `MaxInt` is the largest int64;
`Plus64` wraps.

How `RefundCreate` and `Settlement` overlap: `RefundCreate` needs the payment's
status to change under its feet and has `AcceptPayment` and `SettlePayment` as
one-step versions of what `PaymentCreate` and `Settlement` do in detail;
`Settlement` has `AcceptPayment` and `AcceptRefund` for the commit steps of the
create modules. `AcceptRefund`'s guard (payment succeeded) is what both modules
promise through `Lifecycle`: `RefundCreate` implements it under the mapping
`Shown` (`FollowsLifecycle` there: a payment's status is `payStatus`, a refund is
pending from its commit on), and `Settlement` implements it from there to the
settlement. `WebhookDelivery`'s `Settle` stands for the whole
of `Settlement`; `PayFlow` joins the two at `Commit` and shows, as
`ImplementsWebhooks`, that this is justified: the composed worker implements
`WebhookDelivery`. In `PayFlow` a worker pops only after it has found the outbox
empty; in `WebhookDelivery` it may pop at any time, which is more than it does.

In `Startup` a migration file is the unit: its SQL is sent in one `Exec` without
arguments, which PostgreSQL runs as one transaction. `Applicable` says when it
succeeds (its tables are there, its own objects are not, unless the file says IF
NOT EXISTS throughout, as only the last does) and `Uncontested` that a second
transaction waits for one that has created the same name.

## 3. Runs

| Run | Shows | Bounds, and why they are enough |
|---|---|---|
| `payment_create` | `OneRowPerKey`, `AcceptedIsComplete`, `MetricNeverOvercounts`, refinement of `IdempotentCreate`, `EveryCallEnds` | three calls, so that two can race while a third replays; two tenants; valid, blank-key, bad-amount, bad-currency and differently spelled equal bodies; two ids, reused after a rollback |
| `refund_create` | `NeverOverRefunded`, `RefundsAreBacked`, refinement of `IdempotentCreate` and of `Lifecycle` (`FollowsLifecycle`), `EveryCallEnds` | two calls of two tenants, two keys, two payments of 4 and 1: full, partial, negative and too large amounts, one key on two payments (the only way two calls with different payment locks meet), payment absent, pending, settled. The theorems cover more calls; that a refund is complete (`AcceptedIsComplete`, checked in `payment_create` on the statements both share) is `NoHalfRefund` |
| `refund_replay` (violation) | `ReplayKeepsOutcome` fails | two calls |
| `refund_overflow` (violation) | `NeverOverRefunded` fails | payment of `MaxInt - 1` |
| `settlement` | `LedgerMatchesStatus`, `PendingIsQueued`, refinement of `Lifecycle` and of its live version (`SettlesEverything`), `AnswerIsExplained`, `AnswersAgree` | two workers, two payments, one refund that contends for its payment's row, two failures, one merchant that reads. All rows share a time stamp: a tie leaves the order of claims open, which includes every order distinct stamps would give |
| `webhook` | refinement of `Delivery`, `RetriedByOwner`, `PendingIsCarried`, `DueIsAnnounced`, `AttemptsBounded`, `AckIsRecorded` | Service Bus; two workers and two concurrent retries on one event, an old message for it, registration with and without secret, one failure anywhere, three retries, limit of two attempts |
| `payflow` | `ImplementsWebhooks`, `MerchantHearsTruth`, `AcceptedIsNotified` | Redis; two workers, a payment and its refund, a hook that comes and goes, one retry, limit of two attempts; one failure. A failure before a commit stays in; a behaviour is cut right after one behind a commit (`NothingLost`), of which `AcceptedIsNotified` says nothing: what follows it is in `webhook` and in the theorems `OnlyTruthIsPosted` and `LoopImplementsWebhooks` |
| `webhook_crash` (violation) | `DequeuedIsRedelivered` fails | one failure |
| `webhook_racing_retries` (violation) | `MaxAttemptsHold` fails | two concurrent retries, no failure |
| `tenancy` | `EffectsTraceBack`, `RevokedOnce`, `RevokedKeysDrain` | two tenants with a key and a user each and the same email, because crossing tenants needs two; two concurrent requests, because a revocation races with one other; wrong keys, wrong tokens and no credential |
| `startup` | `ServesWholeSchema`, `WorkersFindTheirTables`, `SomeReplicaServes`, `WorkersJoin` | three API replicas, as in the prod overlay, two workers, two crashes or evictions |
| `startup_replicas` (violation) | `MinimumAvailable` fails | the same without any failure |

`MaxAttempts` is 2 instead of 5: the second attempt is both the last one and a
later one.

Some promises hold only until something fails, and say so themselves:
`PendingIsCarried`, `DueIsAnnounced` and `AckIsRecorded` speak of states with no
failure so far, `AcceptedIsNotified` of behaviours with none after a
settlement's commit (failures before it are allowed and do no harm).
`AttemptsBounded` holds whatever fails. It and `AckIsRecorded` leave out the
events of `twice`, for which two messages may have been in the queue; racing
retries and repeated publishes do occur in the run (two callers, a failure), and
the other properties hold through them. Section 4 lists what happens otherwise:
that is the precise claim the code supports.

No symmetry is declared. Deadlock is checked everywhere; `Idle` in the create
modules is the state in which every call is over.

### Fairness

* `PaymentCreate`, `RefundCreate`: weak fairness of each call's next statement.
  A goroutine runs its code; PostgreSQL wakes a waiting statement when the
  transaction it waits for ends. No request has to arrive, no failure has to
  happen; a call may abort or lose its answer at any point.
* `Settlement`: weak fairness of each worker's loop and strong fairness of its
  row locks, because PostgreSQL queues the waiters of a row. Failures are at
  most `MaxFaults`; without a bound nothing could be promised.
* `PaymentView`: the workers' fairness; nobody need read.
* `PayFlow`: the same for the composed loop, and weak fairness of a retry call
  that has begun. The merchant need never acknowledge, and nobody need register
  or retry. Payments are finitely many: the loop prefers the outbox, so with a
  backlog that never empties on any replica webhooks would wait without end.
* `Startup`: weak fairness of each process's next step, its restart by Kubernetes
  included; crashes and evictions are bounded.
* `Tenancy`: weak fairness of a request's handler, and strong fairness of the
  UPDATE that waits for a key's row, which PostgreSQL queues. A request may be
  aborted at any point, and none has to arrive.

## 4. Findings

Five runs are expected to fail; each states what a document, a comment or an
error text of the repository says, and `PROJECT.json` quotes it.

1. *Refund replay.* The balance is checked before the key is looked up, so
   repeating an accepted full refund is refused instead of replayed.
2. *Refund overflow.* `reserved + amt` wraps in int64 for amounts above half
   the range, and the check lets a second refund through.
3. *Crash after dequeue.* Both queue drivers remove the message before the
   work; the runbook's "at-least-once" does not hold and the row stays pending.
4. *Racing retries.* Both publish, and together the workers exceed
   `max_attempts`.
5. *Replicas that cannot start.* `Up` keeps no record of what it has applied and
   three of the four files are not re-runnable, so only the replica that applied
   them ever serves: the others, and every restarted one, exit at file 1. The
   manifests ask for three replicas and a disruption budget of two.
   `SomeReplicaServes` is what remains: one replica comes up, unless the one that
   had begun the files dies before it serves.
   The theorems say it in general: `OneReplicaAtMost`; once the replica that began
   the files is gone, nobody serves again (`OutageIsFinal`); before the first
   failure this does not happen (`NoOutageUnprovoked`).

`webhook` and `payflow` fix more that the code does not guarantee:

* No failure: an error or a crash between a settlement's commit and the
  follow-up loses the webhook, because the outbox row is already marked
  (`DueIsAnnounced`); a failed publish, of the follow-up or of a retry that then
  answers 503, leaves a pending row without a message, which the retry endpoint
  refuses as `not_dlq` (`PendingIsCarried`).
* `Hooks` with a URL that does not parse: `ProcessDelivery` returns the error
  without counting the attempt, and the row is never dead-lettered
  (`AcceptedIsNotified`), although R6 asks for a dead-letter path.
* `Connected = FALSE`: an API without a broker answers a retry with 200 and
  queues nothing (`PendingIsCarried`); `payflow-app/README.md` says 503.
* One message at a time: go-redis, made with its defaults, sends an LPUSH again
  when the reply is lost, and so does the Service Bus client. Two messages then
  stand for one row, and two workers post it as often as racing retries would
  (`Resend`, `RetryResend`; `AttemptsBounded`, `AckIsRecorded`).
* `Setting = MaxAttempts`: the limit that `AttemptsBounded` speaks of is the one
  in the row. `ProcessDelivery` uses `WEBHOOK_MAX_ATTEMPTS` only for a row without
  a limit of its own (`Limit`), and both INSERTs write the literal 5
  (`webhook.go:116` and `177`), so there is none and the setting has no effect.
  `payflow-app/README.md:38` and the runbook `webhook-target-unavailable.md:20`
  tell operators to tune it. The runs give both the same value, so that none of
  them passes on a case those documents contradict.

`tenancy` holds for what it states; four things beside it are worth knowing.
`MeAuth` does not audit a bad API key, and the audit event of a failed login for
an unknown tenant is lost to the foreign key (`TryAudit`), while R11 of
`docs/brainstorms/payflow-requirements.md` asks for both. `TryAudit` may also
fail silently whenever the write is outside the transaction. A tenant has one
key and no operation issues another: if the answer to its onboarding is lost, or
the key is revoked, it can make no payment again. Revoking a revoked key answers
404 (`RevokeUpdate`); `payflow-app/api/openapi.yaml` says that it returns success.

Beside the models: the comment at `servicebus.go:101` promises fair rotation over
the three queues, but each call starts with the settlement queue again; it would
matter only if something published to that queue.

## 5. Proofs

All theorems hold for every set of calls, ids, tenants, keys, payments, refunds
and workers, finite or not, and every number of failures.

**Assumptions.** `NullsAreFresh` and the `…Constants` of each module type the
constants (null values are not members of the sets they stand beside; every
normalised request is an intent; amounts are int64). TLC evaluates them in the
runs. Two more are hypotheses of single theorems, each because the code does
not guarantee it and the theorem is false without it:

* `AmountsFit` (`NoOverRefund`): twice a payment's amount
  fits int64. Finding 2.
* `Reachable` (`NothingForgotten`, `FlowForgetsNothing`): the API has a broker and
  every registered URL parses. The remarks after the findings.

**Create** (`CreateTxProofs`). `OneRowPerKey` and `AcceptedIsComplete` are not
inductive: a commit makes buffered writes visible, so one must know what the
buffer holds. `TxInv` adds, per call, `OwnsItsRow` (an inserted row has a fresh
id and no committed row has its key), `BufferInv` (the buffer follows from the
statement), `NamesItsRow` (an answer names a committed row that is what the call
asked for), and between calls `OwnersDiffer` and `OneCreator`. There is one
lemma per statement; they are stated once and used for payments and refunds.
The `…Sim` lemmas show that each statement is a step of `IdempotentCreate` or a
stutter under the mapping `store <- rows, told <- Told`: only `Commit` changes
the store and only an answer changes what is told. `OutcomeFollows` draws the
clients' conclusion, `OneOutcomePerKey`: all who were served under one key hold
the same row for the same request, and at most one was told that it created it
(`OnePaymentOutcome`, `OneRefundOutcome`).

**Payments** (`PaymentCreateProofs`): `PaymentTypes`, `OnePaymentPerKey`,
`NoHalfPayment`, `PaymentHonoursContract`, `MetricIsHonest`. The counter moves
after the commit, in a step that may be lost, so the last one needs `MetricInv`:
the counts made and the calls that may yet count are together no more than the
committed rows. It rests on the library's facts about cardinalities and holds
for infinitely many calls, too, of which finitely many have committed.

**Refunds** (`RefundCreateProofs`): `RefundTypes`, `NoHalfRefund`,
`OnlyBackedRefunds`, `NoOverRefund`, `RefundHonoursContract`. On top of `TxInv`
come `LockIsExclusive`, `CheckStillHolds` (what was read of the payment stays
true while its lock is held) and `RoomIsKept` (once the balance is checked there
is room until the commit). The last one is the heart of `NoOverRefund` and is
false without `AmountsFit`.

`NoOverRefund` speaks of the table. A sum over a set is a recursive definition,
out of the provers' reach, so `Reserved` counts instead: a refund of n cents
stands for the n pairs of its id and 1..n (`CentsOf`), and the sum is the number
of pairs, which is also what TLC evaluates. A commit adds a disjoint set of as
many pairs as the amount, and the library's facts on cardinalities do the rest
(`SumGrows`, `CentsAreFinite`).

`RefundsFollowLifecycle` needs `CheckStillHolds` once more: a refund appears, at
its commit, under a payment that has succeeded. `RefundsNeverDeadlock` is the
part of `EveryCallEnds` that is a safety property: whoever waits for a payment's
lock or for a key waits for a call that can go on, or for one that waits for such
a call, and a call that ran into a taken key finds the row (`ConflictHasRow`).
Chains end there because a call takes the payment's lock before the key and, once
it has the key, waits for nothing.

**Settlement** (`SettlementProofs`): `SettlementTypes`, `LedgerExplainsStatus`,
`NoLostWork`, `SettlementFollowsLifecycle`, from `SettlementInv`:
a claimed outbox row stays unprocessed until its worker commits, the ledger
event and the status are buffered together, what was read under a row lock still
holds (`ReadStillHolds`), and locks and claims are exclusive. `WorkersNeverDeadlock`
is the safety part of `SettlesEverything`: a worker that waits for the row of a
refund or of a payment waits, over two links at most, for one that can go on.

**Reads** (`SettlementProofs`): `AnswersExplained`, `EndpointsAgree`. `ViewInv`
adds to `SettlementInv` that what a client holds between its two SELECTs, and
what it was told earlier, can only have become more true: a payment it has read
as succeeded is in the ledger, and a payment whose refund it knows was read as
succeeded.

**Start-up** (`StartupProofs`): `StartupTypes`, `ServedSchemaIsWhole`,
`WorkersFindEverything`, from `StartupInv`: the applied files are an initial
segment (`IsPrefix`), a replica's position bounds its length from below
(`Position`), and only one replica gets past the first file (`OneLeader`).
Finding 5 in general are `OneReplicaAtMost`, `OutageIsFinal` and
`NoOutageUnprovoked`. An `Outage` is a catalogue with some file in it and no
replica past the first; then every replica is down or about to fail at file 1,
so no step changes that. The last theorem needs `Undisturbed`: as long as nothing
has failed, the replica that committed the files is still there, right behind the
last of them.

**Webhooks** (`WebhookProofs`). `WebhookTypes`, `RowsFollowDelivery` and
`OnlyOwnersRetry` follow from `WebhookInv`: what a worker or a retry call has read
before its next step still holds when it takes it (the event is settled, the row
exists, the 2xx was given, the row is the caller's). `NothingForgotten` and
`NothingUnannounced` say that a settled event or a pending row always has someone
who will act for it until something fails; the first needs `NoBadUrl`, the second
`DueIsHooked` (an event still due has a complete hook, so the announcer does not
turn away; withdrawing the hook ends the obligation). `PostsAreBounded` and
`AcksAreRecorded` need `OnceInv`, which speaks of the events outside `twice`: a
row has one message or one process that stands for it, never two (`OneCarrier`),
and a POST is counted before the next one (`PostsAreCounted`, `AttemptInv`). An
event enters `twice` exactly at the steps that could make a second carrier and
never leaves it, so no assumption about retry calls or the broker is needed. All
hold for both queue drivers.

**The worker's loop** (`FlowProofs`). `FlowInv` joins `SettlementInv` and
`WebhookInv` with what the loop adds: a goroutine does one thing at a time
(`OneThing`), settles outbox rows only, and webhooks name only settlements whose
transaction has committed with its outbox row marked (`OnlyOver`). The commit is
the one step both parts share; `CommitIsOver` shows that the step of the
composition asks no more of the tables than `Commit` does. From it come both
refinements, `LoopImplementsSettlement` and `LoopImplementsWebhooks`, then
`OnlyTruthIsPosted`, which no part could state alone, and the webhook theorems
for the whole worker: `FlowPostsAreBounded`, `FlowAcksAreRecorded`,
`FlowAnnouncesEverything`, `FlowForgetsNothing`.

**Tenancy** (`TenancyProofs`): `TenancyTypes`, `NoCrossTenantEffect`,
`KeysRevokedOnce`, from `TenancyInv`: a request checks its credential when it is
let in and acts later, so one must know that a key keeps its owner and a user its
tenant (`LetIn`), that a user goes back to a key of its tenant (`UserInv`), and
that one transaction at a time holds a key's row, on a key of its own tenant not
yet revoked (`RowLock`, `CallInv`). That a key may be revoked in between is allowed: such a
request still acts for its own tenant.

**Only model-checked.** Liveness (`EveryCallEnds`, `SettlesEverything`,
`AcceptedIsNotified`, `RevokedKeysDrain`, `SomeReplicaServes`, `WorkersJoin`),
which needs fairness and ENABLED. Of the first two the absence of deadlock is
proved, without ENABLED: "can go on" is spelled out as "waits for nobody".

## 6. Not modelled

`Tenancy` takes keys, hashes and signatures to be unguessable, does not tell most
audit event types apart, and lets a request present one credential (with a key
and a token `MeAuth` looks at the key alone). Of the read endpoints the lists, the
delivery detail and `getTenantsMe` are left out: each is one SELECT of rows whose
life cycle is checked elsewhere. (`ListDeliveries` is cut at 50 rows without a
cursor, so an old dead letter may be out of reach; that is a missing operation,
not a step that goes wrong.) Time does not occur: the back-off and the pop
time-out are pauses, the ten-second HTTP time-out is one way to be `Rejected`, a
token may expire at any time, and a drain ends at some time. Requests cut off by
a drain are the `Abort` and `LoseReply` of the create modules. The order in which
a receiver visits the three queues is left open, and a message body that is no
UUID, which nothing publishes, does not occur. Configuration, tracing, logging,
CORS, the dashboard, Terraform, manifests and CI have no protocol state of their
own.

## 7. Plan

Done: every component with protocol state is modelled, checked and, where it has
a contract, shown to implement it. Every safety property of a passing run is
proved for every value of the constants.

What a change to the code would call for:

1. A fix of finding 1 (look the key up before the balance): `ReplayKeepsOutcome`
   becomes a property of `refund_create`, and `RefundsNeverDeadlock` must be
   looked at again, because the order of lock and key changes.
2. A fix of finding 4 (publish only if the UPDATE changed a row): `RetryUpdate`
   adds nothing to `twice` any more, which leaves the repeated publishes.
3. A record of applied files in `Up`: `OneReplicaAtMost` and `OutageIsFinal` turn
   false, as they should, and `MinimumAvailable` becomes a property of `startup`.
