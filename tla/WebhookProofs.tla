---------------------------- MODULE WebhookProofs ----------------------------
(***************************************************************************)
(* Theorems about WebhookDelivery, for any number of events, tenants,      *)
(* workers, retry calls and failures.                                      *)
(*                                                                         *)
(* One of them needs what the code does not guarantee, and names it: a     *)
(* publisher that is connected and hooks net/http can parse (Reachable).   *)
(***************************************************************************)
EXTENDS WebhookDelivery, TLAPS

(* What a worker has read or done still holds: an announced event is       *)
(* settled, a delivery in progress has its row, and a 2xx about to be      *)
(* recorded was given.                                                     *)
WorkerInv(w) ==
    /\ pc[w] # "loop" => job[w] \in Events
    /\ pc[w] \in {"announce", "insert", "publish"} => job[w] \in settled
    /\ pc[w] \in {"publish", "giveup", "post", "succeed", "count"} =>
         row[job[w]] # "none"
    /\ pc[w] = "succeed" => job[w] \in acked

(* A retry call that has passed its SELECT is its tenant's own. *)
CallInv(c) ==
    Running(c) => call[c].event \in Events /\ Owns(call[c].tenant, call[c].event)

(* The inductive invariant under every theorem below. *)
WebhookInv == /\ TypeOK
              /\ \A w \in Workers : WorkerInv(w)
              /\ \A c \in Callers : CallInv(c)

-----------------------------------------------------------------------------
(* The API has a broker, and every URL tenants register can be parsed. *)
Reachable == Connected = TRUE /\ \A h \in Hooks : h.url # "bad"

NoBadUrl == /\ \A t \in Tenants : hook[t].url # "bad"
            /\ \A w \in Workers : url[w] # "bad"
            /\ \A e \in Events : target[e] # "bad"

-----------------------------------------------------------------------------
(* Whoever is due an announcement still has a hook. *)
DueIsHooked == \A e \in due : row[e] = "none" => Complete(HookOf(e))

-----------------------------------------------------------------------------
Carrier(w, e)   == job[w] = e /\ pc[w] \in Delivering \cup {"publish"}
Publishes(c, e) == call[c].event = e /\ call[c].stage = "publish"

(* The row has at most one message or process that stands for it, and only *)
(* while it is pending.                                                    *)
OneCarrier(e) ==
    /\ queue[e] <= 1
    /\ \A w \in Workers : Carrier(w, e) => queue[e] = 0
    /\ \A c \in Callers : Publishes(c, e) => queue[e] = 0
    /\ \A v, w \in Workers : Carrier(v, e) /\ Carrier(w, e) => v = w
    /\ \A c, d \in Callers : Publishes(c, e) /\ Publishes(d, e) => c = d
    /\ \A w \in Workers, c \in Callers : ~(Carrier(w, e) /\ Publishes(c, e))
    /\ Carried(e) => row[e] = "pending"

(* A POST is counted before the next one. *)
PostsAreCounted(e) ==
    /\ row[e] = "none" => posts[e] = 0
    /\ posts[e] <= MaxAttempts
    /\ queue[e] > 0 => posts[e] <= attempts[e]
    /\ \A c \in Callers : Publishes(c, e) => posts[e] <= attempts[e]

AttemptInv(w) ==
    /\ pc[w] \in {"publish", "locked", "read", "giveup", "post"} =>
         posts[job[w]] <= attempts[job[w]]
    /\ pc[w] \in {"post", "succeed", "count"} =>
         seen[w] = attempts[job[w]] /\ seen[w] < MaxAttempts
    /\ pc[w] \in {"succeed", "count"} => posts[job[w]] <= seen[w] + 1

(* The inductive invariant of what was never published twice. *)
OnceInv ==
    /\ \A e \in Events \ twice : OneCarrier(e) /\ PostsAreCounted(e)
    /\ \A w \in Workers : job[w] \notin twice => AttemptInv(w)
    /\ AckIsRecorded

-----------------------------------------------------------------------------
LEMMA WebhookStart == Init => WebhookInv
  BY WebhookConstants
  DEF Init, WebhookInv, TypeOK, WorkerInv, CallInv, Running, NoHook, Urls,
      Statuses, Stages, Delivering, CallStages

LocalTypes == /\ pc \in [Workers -> Stages]
              /\ job \in [Workers -> Events \cup {NoEvent}]
              /\ seen \in [Workers -> Nat]
              /\ url \in [Workers -> Urls]

RowTypes == row \in [Events -> Statuses] /\ attempts \in [Events -> Nat]

(* A worker that goes back to its loop forgets what it has read. *)
LEMMA BackToLoopTypes ==
  ASSUME LocalTypes, NEW w \in Workers, BackToLoop(w)
  PROVE  LocalTypes'
  BY DEF LocalTypes, BackToLoop, Goto, Stages, Urls

LEMMA TypesStep ==
  ASSUME WebhookInv, [Next]_vars
  PROVE  TypeOK'
  <1> USE WebhookConstants
      DEF WebhookInv, TypeOK, WorkerInv, CallInv, Running, Urls, Statuses, Stages, Delivering,
          CallStages, tables, rows, locals, history
  <1>1. ASSUME NEW t \in Tenants, NEW h \in Hooks, patchTenantWebhook(t, h)
        PROVE  TypeOK'
    BY <1>1 DEF patchTenantWebhook
  <1>2. ASSUME NEW w \in Workers, NEW e \in Events, Settle(w, e)
        PROVE  TypeOK'
    BY <1>2 DEF Settle, Goto
  <1>3. ASSUME NEW w \in Workers, Announce(w)
        PROVE  TypeOK'
    <2>1. CASE job[w] \in settled /\ Complete(HookOf(job[w]))
      <3>1. HookOf(job[w]).url \in Urls
        BY <1>3 DEF Announce, HookOf
      <3> QED BY <1>3, <2>1, <3>1 DEF Announce, Goto
    <2>2. CASE ~(job[w] \in settled /\ Complete(HookOf(job[w])))
      BY <1>3, <2>2, BackToLoopTypes DEF Announce, LocalTypes
    <2> QED BY <2>1, <2>2
  <1>4. ASSUME NEW w \in Workers, InsertDelivery(w)
        PROVE  TypeOK'
    <2>1. CASE row[job[w]] = "none"
      BY <1>4, <2>1 DEF InsertDelivery, Goto
    <2>2. CASE row[job[w]] # "none"
      BY <1>4, <2>2, BackToLoopTypes DEF InsertDelivery, LocalTypes
    <2> QED BY <2>1, <2>2
  <1>5. ASSUME NEW w \in Workers, PublishWebhookDelivery(w)
        PROVE  TypeOK'
    BY <1>5 DEF PublishWebhookDelivery, Enqueue, BackToLoop, Goto
  <1>6. ASSUME NEW w \in Workers, NEW e \in Events, BRPopJob(w, e)
        PROVE  TypeOK'
    BY <1>6 DEF BRPopJob, Dequeue, Goto
  <1>7. ASSUME NEW w \in Workers, CompleteMessage(w)
        PROVE  TypeOK'
    BY <1>7 DEF CompleteMessage, Goto
  <1>8. ASSUME NEW w \in Workers, ReadDelivery(w)
        PROVE  TypeOK'
    <2>1. CASE AfterRead(job[w]) = "loop"
      BY <1>8, <2>1, BackToLoopTypes DEF ReadDelivery, LocalTypes
    <2>2. CASE AfterRead(job[w]) # "loop"
      <3>1. AfterRead(job[w]) \in {"giveup", "post"}
        BY <2>2 DEF AfterRead
      <3> QED BY <1>8, <2>2, <3>1, SMTT(40) DEF ReadDelivery, Goto
    <2> QED BY <2>1, <2>2
  <1>9. ASSUME NEW w \in Workers, GiveUp(w)
        PROVE  TypeOK'
    BY <1>9 DEF GiveUp, UpdateWhere, BackToLoop, Goto
  <1>10. ASSUME NEW w \in Workers, Acknowledged(w)
        PROVE  TypeOK'
    BY <1>10 DEF Acknowledged, Posted, Goto
  <1>11. ASSUME NEW w \in Workers, Rejected(w)
        PROVE  TypeOK'
    BY <1>11 DEF Rejected, Posted, Goto
  <1>12. ASSUME NEW w \in Workers, MarkSucceeded(w)
        PROVE  TypeOK'
    BY <1>12 DEF MarkSucceeded, UpdateWhere, BackToLoop, Goto
  <1>13. ASSUME NEW w \in Workers, CountFailure(w)
        PROVE  TypeOK'
    <2> DEFINE next == IF seen[w] + 1 >= Limit THEN "dlq" ELSE "pending"
    <2>1. RowTypes'
      <3>1. /\ seen[w] + 1 \in Nat /\ next \in Statuses /\ job[w] \in Events
            /\ UpdateWhere(job[w], "pending", next, seen[w] + 1)
        BY <1>13 DEF CountFailure, Failed
      <3>2. RowTypes
        BY DEF RowTypes
      <3> HIDE DEF next, WebhookInv, TypeOK, WorkerInv, CallInv
      <3>3. CASE row[job[w]] = "pending"
        BY <3>1, <3>2, <3>3 DEF UpdateWhere, RowTypes
      <3>4. CASE row[job[w]] # "pending"
        BY <3>1, <3>2, <3>4 DEF UpdateWhere, RowTypes
      <3> QED BY <3>3, <3>4
    <2>2. LocalTypes'
      <3>1. CASE next = "dlq"
        BY <1>13, <3>1, BackToLoopTypes DEF CountFailure, Failed, LocalTypes
      <3>2. CASE next # "dlq"
        BY <1>13, <3>2 DEF CountFailure, Failed, LocalTypes, Goto
      <3> QED BY <3>1, <3>2
    <2> QED BY <1>13, <2>1, <2>2 DEF CountFailure, Failed, LocalTypes, RowTypes
  <1>14. ASSUME NEW w \in Workers, Fail(w)
        PROVE  TypeOK'
    BY <1>14 DEF Fail, Enqueue, BackToLoop, Goto
  <1>15. ASSUME NEW c \in Callers, NEW t \in Tenants, NEW e \in Events, RetryRead(c, t, e)
        PROVE  TypeOK'
    BY <1>15 DEF RetryRead
  <1>16. ASSUME NEW c \in Callers, RetryUpdate(c)
        PROVE  TypeOK'
    <2>1. (row \in [Events -> Statuses] /\ attempts \in [Events -> Nat])'
      BY <1>16 DEF RetryUpdate, UpdateWhere
    <2>2. (posts \in [Events -> Nat])'
      BY <1>16 DEF RetryUpdate
    <2>3. (call \in [Callers -> [stage : CallStages,
                                tenant : Tenants \cup {NoTenant},
                                event : Events \cup {NoEvent}]])'
      BY <1>16 DEF RetryUpdate, Stage
    <2> QED BY <1>16, <2>1, <2>2, <2>3 DEF RetryUpdate
  <1>17. ASSUME NEW c \in Callers, RetryPublish(c)
        PROVE  TypeOK'
    <2>1. (queue \in [Events -> Nat])'
      BY <1>17, SMTT(40) DEF RetryPublish, ApiPublish, Enqueue
    <2>2. (call \in [Callers -> [stage : CallStages,
                                tenant : Tenants \cup {NoTenant},
                                event : Events \cup {NoEvent}]])'
      BY <1>17, SMTT(40) DEF RetryPublish, Stage
    <2> QED BY <1>17, <2>1, <2>2 DEF RetryPublish
  <1>18. ASSUME NEW c \in Callers, RetryFail(c)
        PROVE  TypeOK'
    <2>1. (queue \in [Events -> Nat])'
      <3>1. /\ call[c].event \in Events /\ queue \in [Events -> Nat]
            /\ queue' = queue \/ queue' = [queue EXCEPT ![call[c].event] = @ + 1]
        BY <1>18 DEF RetryFail, ApiPublish, Enqueue
      <3> HIDE DEF WebhookInv, TypeOK, WorkerInv, CallInv
      <3> QED BY <3>1
    <2>2. (call \in [Callers -> [stage : CallStages,
                                tenant : Tenants \cup {NoTenant},
                                event : Events \cup {NoEvent}]])'
      BY <1>18, SMTT(40) DEF RetryFail, Stage
    <2>3. (faults \in 0..MaxFaults)'
      BY <1>18 DEF RetryFail
    <2> QED BY <1>18, <2>1, <2>2, <2>3 DEF RetryFail
  <1>19. CASE UNCHANGED vars
    BY <1>19 DEF vars
  <1>20. ASSUME NEW w \in Workers, Resend(w)
        PROVE  TypeOK'
    BY <1>20 DEF Resend, Enqueue
  <1>21. ASSUME NEW c \in Callers, RetryResend(c)
        PROVE  TypeOK'
    BY <1>21 DEF RetryResend, Enqueue
  <1> QED BY <1>1, <1>2, <1>3, <1>4, <1>5, <1>6, <1>7, <1>8, <1>9, <1>10, <1>11, <1>12, <1>13, <1>14, <1>15, <1>16, <1>17, <1>18, <1>19, <1>20, <1>21
          DEF Next, Work, EnqueueIfNeeded, ProcessDelivery, postWebhookDeliveryRetry

LEMMA WorkersStep ==
  ASSUME WebhookInv, [Next]_vars, NEW v \in Workers
  PROVE  WorkerInv(v)'
  <1> USE WebhookConstants
      DEF WebhookInv, TypeOK, WorkerInv, CallInv, Running, tables, rows, locals, history
  <1>1. ASSUME NEW t \in Tenants, NEW h \in Hooks, patchTenantWebhook(t, h)
        PROVE  WorkerInv(v)'
    BY <1>1 DEF patchTenantWebhook
  <1>2. ASSUME NEW w \in Workers, NEW e \in Events, Settle(w, e)
        PROVE  WorkerInv(v)'
    BY <1>2 DEF Settle, Goto
  <1>3. ASSUME NEW w \in Workers, Announce(w)
        PROVE  WorkerInv(v)'
    BY <1>3 DEF Announce, BackToLoop, Goto, Complete, HookOf
  <1>4. ASSUME NEW w \in Workers, InsertDelivery(w)
        PROVE  WorkerInv(v)'
    BY <1>4 DEF InsertDelivery, BackToLoop, Goto
  <1>5. ASSUME NEW w \in Workers, PublishWebhookDelivery(w)
        PROVE  WorkerInv(v)'
    BY <1>5 DEF PublishWebhookDelivery, Enqueue, BackToLoop, Goto
  <1>6. ASSUME NEW w \in Workers, NEW e \in Events, BRPopJob(w, e)
        PROVE  WorkerInv(v)'
    BY <1>6 DEF BRPopJob, Dequeue, Goto
  <1>7. ASSUME NEW w \in Workers, CompleteMessage(w)
        PROVE  WorkerInv(v)'
    BY <1>7 DEF CompleteMessage, Goto
  <1>8. ASSUME NEW w \in Workers, ReadDelivery(w)
        PROVE  WorkerInv(v)'
    BY <1>8 DEF ReadDelivery, AfterRead, BackToLoop, Goto
  <1>9. ASSUME NEW w \in Workers, GiveUp(w)
        PROVE  WorkerInv(v)'
    BY <1>9 DEF GiveUp, UpdateWhere, BackToLoop, Goto
  <1>10. ASSUME NEW w \in Workers, Acknowledged(w)
        PROVE  WorkerInv(v)'
    BY <1>10 DEF Acknowledged, Posted, Goto
  <1>11. ASSUME NEW w \in Workers, Rejected(w)
        PROVE  WorkerInv(v)'
    BY <1>11 DEF Rejected, Posted, Goto
  <1>12. ASSUME NEW w \in Workers, MarkSucceeded(w)
        PROVE  WorkerInv(v)'
    BY <1>12 DEF MarkSucceeded, UpdateWhere, BackToLoop, Goto
  <1>13. ASSUME NEW w \in Workers, CountFailure(w)
        PROVE  WorkerInv(v)'
    BY <1>13 DEF CountFailure, Failed, UpdateWhere, BackToLoop, Goto
  <1>14. ASSUME NEW w \in Workers, Fail(w)
        PROVE  WorkerInv(v)'
    BY <1>14 DEF Fail, Enqueue, BackToLoop, Goto
  <1>15. ASSUME NEW c \in Callers, NEW t \in Tenants, NEW e \in Events, RetryRead(c, t, e)
        PROVE  WorkerInv(v)'
    BY <1>15 DEF RetryRead
  <1>16. ASSUME NEW c \in Callers, RetryUpdate(c)
        PROVE  WorkerInv(v)'
    BY <1>16 DEF RetryUpdate, UpdateWhere, Stage
  <1>17. ASSUME NEW c \in Callers, RetryPublish(c)
        PROVE  WorkerInv(v)'
    BY <1>17 DEF RetryPublish, ApiPublish, Enqueue, Stage
  <1>18. ASSUME NEW c \in Callers, RetryFail(c)
        PROVE  WorkerInv(v)'
    BY <1>18 DEF RetryFail, ApiPublish, Enqueue, Stage
  <1>19. CASE UNCHANGED vars
    BY <1>19 DEF vars
  <1>20. ASSUME NEW w \in Workers, Resend(w)
        PROVE  WorkerInv(v)'
    BY <1>20 DEF Resend, Enqueue
  <1>21. ASSUME NEW c \in Callers, RetryResend(c)
        PROVE  WorkerInv(v)'
    BY <1>21 DEF RetryResend, Enqueue
  <1> QED BY <1>1, <1>2, <1>3, <1>4, <1>5, <1>6, <1>7, <1>8, <1>9, <1>10, <1>11, <1>12, <1>13, <1>14, <1>15, <1>16, <1>17, <1>18, <1>19, <1>20, <1>21
          DEF Next, Work, EnqueueIfNeeded, ProcessDelivery, postWebhookDeliveryRetry

LEMMA CallsStep ==
  ASSUME WebhookInv, [Next]_vars, NEW d \in Callers
  PROVE  CallInv(d)'
  <1> USE WebhookConstants
      DEF WebhookInv, TypeOK, WorkerInv, CallInv, Running, Owns, tables, rows, locals, history
  <1>1. ASSUME NEW t \in Tenants, NEW h \in Hooks, patchTenantWebhook(t, h)
        PROVE  CallInv(d)'
    BY <1>1 DEF patchTenantWebhook
  <1>2. ASSUME NEW w \in Workers, NEW e \in Events, Settle(w, e)
        PROVE  CallInv(d)'
    BY <1>2 DEF Settle, Goto
  <1>3. ASSUME NEW w \in Workers, Announce(w)
        PROVE  CallInv(d)'
    BY <1>3 DEF Announce, BackToLoop, Goto, Complete, HookOf
  <1>4. ASSUME NEW w \in Workers, InsertDelivery(w)
        PROVE  CallInv(d)'
    BY <1>4 DEF InsertDelivery, BackToLoop, Goto
  <1>5. ASSUME NEW w \in Workers, PublishWebhookDelivery(w)
        PROVE  CallInv(d)'
    BY <1>5 DEF PublishWebhookDelivery, Enqueue, BackToLoop, Goto
  <1>6. ASSUME NEW w \in Workers, NEW e \in Events, BRPopJob(w, e)
        PROVE  CallInv(d)'
    BY <1>6 DEF BRPopJob, Dequeue, Goto
  <1>7. ASSUME NEW w \in Workers, CompleteMessage(w)
        PROVE  CallInv(d)'
    BY <1>7 DEF CompleteMessage, Goto
  <1>8. ASSUME NEW w \in Workers, ReadDelivery(w)
        PROVE  CallInv(d)'
    BY <1>8 DEF ReadDelivery, AfterRead, BackToLoop, Goto
  <1>9. ASSUME NEW w \in Workers, GiveUp(w)
        PROVE  CallInv(d)'
    BY <1>9 DEF GiveUp, UpdateWhere, BackToLoop, Goto
  <1>10. ASSUME NEW w \in Workers, Acknowledged(w)
        PROVE  CallInv(d)'
    BY <1>10 DEF Acknowledged, Posted, Goto
  <1>11. ASSUME NEW w \in Workers, Rejected(w)
        PROVE  CallInv(d)'
    BY <1>11 DEF Rejected, Posted, Goto
  <1>12. ASSUME NEW w \in Workers, MarkSucceeded(w)
        PROVE  CallInv(d)'
    BY <1>12 DEF MarkSucceeded, UpdateWhere, BackToLoop, Goto
  <1>13. ASSUME NEW w \in Workers, CountFailure(w)
        PROVE  CallInv(d)'
    BY <1>13 DEF CountFailure, Failed, UpdateWhere, BackToLoop, Goto
  <1>14. ASSUME NEW w \in Workers, Fail(w)
        PROVE  CallInv(d)'
    BY <1>14 DEF Fail, Enqueue, BackToLoop, Goto
  <1>15. ASSUME NEW c \in Callers, NEW t \in Tenants, NEW e \in Events, RetryRead(c, t, e)
        PROVE  CallInv(d)'
    BY <1>15 DEF RetryRead
  <1>16. ASSUME NEW c \in Callers, RetryUpdate(c)
        PROVE  CallInv(d)'
    BY <1>16 DEF RetryUpdate, UpdateWhere, Stage
  <1>17. ASSUME NEW c \in Callers, RetryPublish(c)
        PROVE  CallInv(d)'
    BY <1>17 DEF RetryPublish, ApiPublish, Enqueue, Stage
  <1>18. ASSUME NEW c \in Callers, RetryFail(c)
        PROVE  CallInv(d)'
    BY <1>18 DEF RetryFail, ApiPublish, Enqueue, Stage
  <1>19. CASE UNCHANGED vars
    BY <1>19 DEF vars
  <1>20. ASSUME NEW w \in Workers, Resend(w)
        PROVE  CallInv(d)'
    BY <1>20 DEF Resend, Enqueue
  <1>21. ASSUME NEW c \in Callers, RetryResend(c)
        PROVE  CallInv(d)'
    BY <1>21 DEF RetryResend, Enqueue
  <1> QED BY <1>1, <1>2, <1>3, <1>4, <1>5, <1>6, <1>7, <1>8, <1>9, <1>10, <1>11, <1>12, <1>13, <1>14, <1>15, <1>16, <1>17, <1>18, <1>19, <1>20, <1>21
          DEF Next, Work, EnqueueIfNeeded, ProcessDelivery, postWebhookDeliveryRetry

LEMMA WebhookStep == WebhookInv /\ [Next]_vars => WebhookInv'
  BY TypesStep, WorkersStep, CallsStep DEF WebhookInv

(* The inductive invariant holds throughout. *)
THEOREM WebhookInvariant == Spec => []WebhookInv
  BY WebhookStart, WebhookStep, PTL DEF Spec

(* Every variable of the webhooks' model keeps its type. *)
THEOREM WebhookTypes == Spec => []TypeOK
  <1>1. WebhookInv => TypeOK
    BY DEF WebhookInv
  <1> QED BY <1>1, WebhookInvariant, PTL

-----------------------------------------------------------------------------
(* What the branching statements do, for the proofs below. *)

Others(w) == \A v \in Workers \ {w} :
                 pc'[v] = pc[v] /\ job'[v] = job[v] /\ seen'[v] = seen[v]

LEMMA AnnounceEffect ==
  ASSUME WebhookInv, NEW w \in Workers, Announce(w)
  PROVE  /\ pc[w] = "announce" /\ pc'[w] \in {"loop", "insert"} /\ Others(w)
         /\ UNCHANGED <<hook, tables, rows, queue, call, retries, faults, history>>
  BY DEF WebhookInv, TypeOK, Announce, Others, BackToLoop, Goto

LEMMA InsertEffect ==
  ASSUME WebhookInv, NEW w \in Workers, InsertDelivery(w)
  PROVE  /\ pc[w] = "insert" /\ job[w] \in Events /\ Others(w)
         /\ \/ /\ row[job[w]] = "none"
               /\ row' = [row EXCEPT ![job[w]] = "pending"]
               /\ pc'[w] = "publish" /\ job'[w] = job[w]
            \/ /\ row[job[w]] # "none" /\ row' = row
               /\ pc'[w] = "loop"
         /\ UNCHANGED <<hook, tables, attempts, queue, call, retries, faults,
                        history>>
  BY DEF WebhookInv, TypeOK, WorkerInv, InsertDelivery, Others, BackToLoop, Goto

LEMMA ReadEffect ==
  ASSUME WebhookInv, NEW w \in Workers, ReadDelivery(w)
  PROVE  /\ pc[w] = "read" /\ job[w] \in Events /\ Others(w)
         /\ \/ pc'[w] = "loop"
            \/ /\ pc'[w] \in {"giveup", "post"} /\ job'[w] = job[w]
               /\ row[job[w]] = "pending" /\ seen'[w] = attempts[job[w]]
               /\ pc'[w] = "post" => ~(attempts[job[w]] >= Limit)
         /\ UNCHANGED <<hook, tables, rows, queue, call, retries, faults,
                        history>>
  <1> USE DEF WebhookInv, TypeOK, WorkerInv, ReadDelivery, Others
  <1>1. CASE AfterRead(job[w]) = "loop"
    BY <1>1 DEF BackToLoop, Goto
  <1>2. CASE AfterRead(job[w]) # "loop"
    BY <1>2 DEF AfterRead, Goto
  <1> QED BY <1>1, <1>2

LEMMA CountEffect ==
  ASSUME WebhookInv, NEW w \in Workers, CountFailure(w)
  PROVE  LET e == job[w] IN
         LET next == IF seen[w] + 1 >= Limit THEN "dlq" ELSE "pending" IN
         /\ pc[w] = "count" /\ e \in Events /\ row[e] # "none" /\ Others(w)
         /\ \/ next = "dlq" /\ pc'[w] = "loop"
            \/ next = "pending" /\ pc'[w] = "read" /\ job'[w] = e
         /\ \/ /\ row[e] = "pending"
               /\ row' = [row EXCEPT ![e] = next]
               /\ attempts' = [attempts EXCEPT ![e] = seen[w] + 1]
            \/ row[e] # "pending" /\ row' = row /\ attempts' = attempts
         /\ UNCHANGED <<hook, tables, target, queue, call, retries, faults,
                        history>>
  <1> USE DEF WebhookInv, TypeOK, WorkerInv, CountFailure, Failed, Others
  <1>1. /\ pc[w] = "count" /\ job[w] \in Events /\ row[job[w]] # "none"
        /\ UNCHANGED <<hook, tables, target, queue, call, retries, faults,
                       history>>
    OBVIOUS
  <1>2. CASE seen[w] + 1 >= Limit
    BY <1>1, <1>2 DEF UpdateWhere, BackToLoop, Goto
  <1>3. CASE ~(seen[w] + 1 >= Limit)
    BY <1>1, <1>3 DEF UpdateWhere, Goto
  <1> QED BY <1>2, <1>3

-----------------------------------------------------------------------------
(* A row, a message, a POST or a worker names the event. *)
Named(e) == \/ queue[e] > 0 \/ row[e] # "none" \/ posts[e] > 0
            \/ \E w \in Workers : job[w] = e /\ pc[w] # "loop"

(* An event is first named when it is settled. *)
LEMMA NamedStep ==
  ASSUME WebhookInv, [Next]_vars, NEW f \in Events, Named(f)'
  PROVE  Named(f) \/ \E v \in Workers : Settle(v, f)
  <1> USE DEF WebhookInv, TypeOK, WorkerInv, CallInv, Running, Owns, Named, tables,
              rows, locals, history
  <1>1. ASSUME NEW t \in Tenants, NEW h \in Hooks, patchTenantWebhook(t, h)
        PROVE  Named(f) \/ \E v \in Workers : Settle(v, f)
    BY <1>1 DEF patchTenantWebhook
  <1>2. ASSUME NEW w \in Workers, NEW e \in Events, Settle(w, e)
        PROVE  Named(f) \/ \E v \in Workers : Settle(v, f)
    BY <1>2 DEF Settle, Goto
  <1>3. ASSUME NEW w \in Workers, Announce(w)
        PROVE  Named(f) \/ \E v \in Workers : Settle(v, f)
    BY <1>3 DEF Announce, BackToLoop, Goto, Complete, HookOf
  <1>4. ASSUME NEW w \in Workers, InsertDelivery(w)
        PROVE  Named(f) \/ \E v \in Workers : Settle(v, f)
    BY <1>4, InsertEffect DEF Others
  <1>5. ASSUME NEW w \in Workers, PublishWebhookDelivery(w)
        PROVE  Named(f) \/ \E v \in Workers : Settle(v, f)
    BY <1>5 DEF PublishWebhookDelivery, Enqueue, BackToLoop, Goto
  <1>6. ASSUME NEW w \in Workers, NEW e \in Events, BRPopJob(w, e)
        PROVE  Named(f) \/ \E v \in Workers : Settle(v, f)
    BY <1>6 DEF BRPopJob, Dequeue, Goto
  <1>7. ASSUME NEW w \in Workers, CompleteMessage(w)
        PROVE  Named(f) \/ \E v \in Workers : Settle(v, f)
    BY <1>7 DEF CompleteMessage, Goto
  <1>8. ASSUME NEW w \in Workers, ReadDelivery(w)
        PROVE  Named(f) \/ \E v \in Workers : Settle(v, f)
    BY <1>8, ReadEffect DEF Others
  <1>9. ASSUME NEW w \in Workers, GiveUp(w)
        PROVE  Named(f) \/ \E v \in Workers : Settle(v, f)
    BY <1>9 DEF GiveUp, UpdateWhere, BackToLoop, Goto
  <1>10. ASSUME NEW w \in Workers, Acknowledged(w)
        PROVE  Named(f) \/ \E v \in Workers : Settle(v, f)
    BY <1>10 DEF Acknowledged, Posted, Goto
  <1>11. ASSUME NEW w \in Workers, Rejected(w)
        PROVE  Named(f) \/ \E v \in Workers : Settle(v, f)
    BY <1>11 DEF Rejected, Posted, Goto
  <1>12. ASSUME NEW w \in Workers, MarkSucceeded(w)
        PROVE  Named(f) \/ \E v \in Workers : Settle(v, f)
    BY <1>12 DEF MarkSucceeded, UpdateWhere, BackToLoop, Goto
  <1>13. ASSUME NEW w \in Workers, CountFailure(w)
        PROVE  Named(f) \/ \E v \in Workers : Settle(v, f)
    BY <1>13, CountEffect DEF Others
  <1>14. ASSUME NEW w \in Workers, Fail(w)
        PROVE  Named(f) \/ \E v \in Workers : Settle(v, f)
    BY <1>14 DEF Fail, Enqueue, BackToLoop, Goto
  <1>15. ASSUME NEW c \in Callers, NEW t \in Tenants, NEW e \in Events, RetryRead(c, t, e)
        PROVE  Named(f) \/ \E v \in Workers : Settle(v, f)
    BY <1>15 DEF RetryRead
  <1>16. ASSUME NEW c \in Callers, RetryUpdate(c)
        PROVE  Named(f) \/ \E v \in Workers : Settle(v, f)
    BY <1>16 DEF RetryUpdate, UpdateWhere, Stage
  <1>17. ASSUME NEW c \in Callers, RetryPublish(c)
        PROVE  Named(f) \/ \E v \in Workers : Settle(v, f)
    BY <1>17 DEF RetryPublish, ApiPublish, Enqueue, Stage
  <1>18. ASSUME NEW c \in Callers, RetryFail(c)
        PROVE  Named(f) \/ \E v \in Workers : Settle(v, f)
    BY <1>18 DEF RetryFail, ApiPublish, Enqueue, Stage
  <1>19. CASE UNCHANGED vars
    BY <1>19 DEF vars
  <1>20. ASSUME NEW w \in Workers, Resend(w)
        PROVE  Named(f) \/ \E v \in Workers : Settle(v, f)
    BY <1>20 DEF Resend, Enqueue
  <1>21. ASSUME NEW c \in Callers, RetryResend(c)
        PROVE  Named(f) \/ \E v \in Workers : Settle(v, f)
    BY <1>21 DEF RetryResend, Enqueue
  <1> QED BY <1>1, <1>2, <1>3, <1>4, <1>5, <1>6, <1>7, <1>8, <1>9, <1>10, <1>11, <1>12, <1>13, <1>14, <1>15, <1>16, <1>17, <1>18, <1>19, <1>20, <1>21
          DEF Next, Work, EnqueueIfNeeded, ProcessDelivery, postWebhookDeliveryRetry

-----------------------------------------------------------------------------
(* Every step moves one row along its life cycle or none. *)
LEMMA DeliverySim ==
  ASSUME WebhookInv, [Next]_vars
  PROVE  [Merchant!Next]_(Merchant!vars)
  <1> USE DEF WebhookInv, TypeOK, WorkerInv, CallInv, Running, Merchant!Next, Merchant!vars,
              Merchant!Move, tables, rows, history
  <1>1. ASSUME NEW t \in Tenants, NEW h \in Hooks, patchTenantWebhook(t, h)
        PROVE  [Merchant!Next]_(Merchant!vars)
    BY <1>1 DEF patchTenantWebhook
  <1>2. ASSUME NEW w \in Workers, NEW e \in Events, Settle(w, e)
        PROVE  [Merchant!Next]_(Merchant!vars)
    BY <1>2 DEF Settle, Goto, Merchant!Settle
  <1>3. ASSUME NEW w \in Workers, Announce(w)
        PROVE  [Merchant!Next]_(Merchant!vars)
    BY <1>3 DEF Announce, BackToLoop, Goto, Complete, HookOf
  <1>4. ASSUME NEW w \in Workers, InsertDelivery(w)
        PROVE  [Merchant!Next]_(Merchant!vars)
    BY <1>4 DEF InsertDelivery, BackToLoop, Goto, Merchant!Create
  <1>5. ASSUME NEW w \in Workers, PublishWebhookDelivery(w)
        PROVE  [Merchant!Next]_(Merchant!vars)
    BY <1>5 DEF PublishWebhookDelivery, Enqueue, BackToLoop, Goto
  <1>6. ASSUME NEW w \in Workers, NEW e \in Events, BRPopJob(w, e)
        PROVE  [Merchant!Next]_(Merchant!vars)
    BY <1>6 DEF BRPopJob, Dequeue, Goto
  <1>7. ASSUME NEW w \in Workers, CompleteMessage(w)
        PROVE  [Merchant!Next]_(Merchant!vars)
    BY <1>7 DEF CompleteMessage, Goto
  <1>8. ASSUME NEW w \in Workers, ReadDelivery(w)
        PROVE  [Merchant!Next]_(Merchant!vars)
    BY <1>8 DEF ReadDelivery, AfterRead, BackToLoop, Goto
  <1>9. ASSUME NEW w \in Workers, GiveUp(w)
        PROVE  [Merchant!Next]_(Merchant!vars)
    BY <1>9 DEF GiveUp, UpdateWhere, BackToLoop, Goto, Merchant!DeadLetter
  <1>10. ASSUME NEW w \in Workers, Acknowledged(w)
        PROVE  [Merchant!Next]_(Merchant!vars)
    BY <1>10 DEF Acknowledged, Posted, Goto, Merchant!Acknowledge
  <1>11. ASSUME NEW w \in Workers, Rejected(w)
        PROVE  [Merchant!Next]_(Merchant!vars)
    BY <1>11 DEF Rejected, Posted, Goto
  <1>12. ASSUME NEW w \in Workers, MarkSucceeded(w)
        PROVE  [Merchant!Next]_(Merchant!vars)
    BY <1>12 DEF MarkSucceeded, UpdateWhere, BackToLoop, Goto, Merchant!Succeed
  <1>13. ASSUME NEW w \in Workers, CountFailure(w)
        PROVE  [Merchant!Next]_(Merchant!vars)
    BY <1>13 DEF CountFailure, Failed, UpdateWhere, BackToLoop, Goto, Merchant!DeadLetter
  <1>14. ASSUME NEW w \in Workers, Fail(w)
        PROVE  [Merchant!Next]_(Merchant!vars)
    BY <1>14 DEF Fail, Enqueue, BackToLoop, Goto
  <1>15. ASSUME NEW c \in Callers, NEW t \in Tenants, NEW e \in Events, RetryRead(c, t, e)
        PROVE  [Merchant!Next]_(Merchant!vars)
    BY <1>15 DEF RetryRead
  <1>16. ASSUME NEW c \in Callers, RetryUpdate(c)
        PROVE  [Merchant!Next]_(Merchant!vars)
    BY <1>16 DEF RetryUpdate, UpdateWhere, Stage, Merchant!Retry
  <1>17. ASSUME NEW c \in Callers, RetryPublish(c)
        PROVE  [Merchant!Next]_(Merchant!vars)
    BY <1>17 DEF RetryPublish, ApiPublish, Enqueue, Stage
  <1>18. ASSUME NEW c \in Callers, RetryFail(c)
        PROVE  [Merchant!Next]_(Merchant!vars)
    BY <1>18 DEF RetryFail, ApiPublish, Enqueue, Stage
  <1>19. CASE UNCHANGED vars
    BY <1>19 DEF vars
  <1>20. ASSUME NEW w \in Workers, Resend(w)
        PROVE  [Merchant!Next]_(Merchant!vars)
    BY <1>20 DEF Resend, Enqueue
  <1>21. ASSUME NEW c \in Callers, RetryResend(c)
        PROVE  [Merchant!Next]_(Merchant!vars)
    BY <1>21 DEF RetryResend, Enqueue
  <1> QED BY <1>1, <1>2, <1>3, <1>4, <1>5, <1>6, <1>7, <1>8, <1>9, <1>10, <1>11, <1>12, <1>13, <1>14, <1>15, <1>16, <1>17, <1>18, <1>19, <1>20, <1>21
          DEF Next, Work, EnqueueIfNeeded, ProcessDelivery, postWebhookDeliveryRetry

(* Whatever workers, retries and failures do, the delivery rows follow     *)
(* their life cycle.                                                       *)
THEOREM RowsFollowDelivery == Spec => FollowsDelivery
  <1>1. Init => Merchant!Init
    BY DEF Init, Merchant!Init
  <1> QED BY <1>1, DeliverySim, WebhookInvariant, PTL
         DEF Spec, FollowsDelivery, Merchant!Spec

(* Only a retry of the tenant it belongs to revives a dead letter. *)
THEOREM OnlyOwnersRetry == Spec => RetriedByOwner
  <1> DEFINE ByOwner == \A e \in Events : row[e] = "dlq" /\ row'[e] = "pending" =>
          \E c \in Callers : /\ call[c].stage = "update"
                             /\ call[c].event = e
                             /\ call[c].tenant = TenantOf[e]
  <1>1. ASSUME WebhookInv, [Next]_vars PROVE [ByOwner]_vars
    <2> SUFFICES ASSUME NEW e \in Events, row[e] = "dlq", row'[e] = "pending"
                 PROVE  \E c \in Callers : /\ call[c].stage = "update"
                                           /\ call[c].event = e
                                           /\ call[c].tenant = TenantOf[e]
      OBVIOUS
    <2>1. ASSUME NEW w \in Workers, Work(w) \/ Fail(w) \/ Resend(w) PROVE row'[e] # "pending"
      BY <1>1, <2>1
      DEF Work, EnqueueIfNeeded, ProcessDelivery, Settle, Announce,
          InsertDelivery, PublishWebhookDelivery, BRPopJob, CompleteMessage,
          ReadDelivery, GiveUp, Acknowledged, Rejected, MarkSucceeded,
          CountFailure, Failed, UpdateWhere, Fail, Resend, rows, WebhookInv, TypeOK
    <2>2. PICK c \in Callers : RetryUpdate(c)
      BY <1>1, <2>1
      DEF Next, patchTenantWebhook, postWebhookDeliveryRetry, RetryPublish,
          RetryFail, RetryResend, RetryRead, rows, vars
    <2>3. call[c].stage = "update" /\ row'[call[c].event] # row[call[c].event]
            /\ call[c].event = e
      BY <1>1, <2>2 DEF RetryUpdate, UpdateWhere, WebhookInv, TypeOK
    <2> QED BY <1>1, <2>3 DEF WebhookInv, CallInv, Running, Owns
  <1> QED BY <1>1, WebhookInvariant, PTL DEF Spec, RetriedByOwner

-----------------------------------------------------------------------------
LEMMA NoBadUrlStep ==
  ASSUME Reachable, WebhookInv, NoBadUrl, [Next]_vars
  PROVE  NoBadUrl'
  <1> USE WebhookConstants
      DEF Reachable, NoBadUrl, WebhookInv, TypeOK, WorkerInv, tables, rows, locals, history
  <1>1. ASSUME NEW t \in Tenants, NEW h \in Hooks, patchTenantWebhook(t, h)
        PROVE  NoBadUrl'
    BY <1>1 DEF patchTenantWebhook
  <1>2. ASSUME NEW w \in Workers, NEW e \in Events, Settle(w, e)
        PROVE  NoBadUrl'
    BY <1>2 DEF Settle, Goto
  <1>3. ASSUME NEW w \in Workers, Announce(w)
        PROVE  NoBadUrl'
    BY <1>3 DEF Announce, BackToLoop, Goto, Complete, HookOf
  <1>4. ASSUME NEW w \in Workers, InsertDelivery(w)
        PROVE  NoBadUrl'
    BY <1>4 DEF InsertDelivery, BackToLoop, Goto
  <1>5. ASSUME NEW w \in Workers, PublishWebhookDelivery(w)
        PROVE  NoBadUrl'
    BY <1>5 DEF PublishWebhookDelivery, Enqueue, BackToLoop, Goto
  <1>6. ASSUME NEW w \in Workers, NEW e \in Events, BRPopJob(w, e)
        PROVE  NoBadUrl'
    BY <1>6 DEF BRPopJob, Dequeue, Goto
  <1>7. ASSUME NEW w \in Workers, CompleteMessage(w)
        PROVE  NoBadUrl'
    BY <1>7 DEF CompleteMessage, Goto
  <1>8. ASSUME NEW w \in Workers, ReadDelivery(w)
        PROVE  NoBadUrl'
    BY <1>8 DEF ReadDelivery, AfterRead, BackToLoop, Goto
  <1>9. ASSUME NEW w \in Workers, GiveUp(w)
        PROVE  NoBadUrl'
    BY <1>9 DEF GiveUp, UpdateWhere, BackToLoop, Goto
  <1>10. ASSUME NEW w \in Workers, Acknowledged(w)
        PROVE  NoBadUrl'
    BY <1>10 DEF Acknowledged, Posted, Goto
  <1>11. ASSUME NEW w \in Workers, Rejected(w)
        PROVE  NoBadUrl'
    BY <1>11 DEF Rejected, Posted, Goto
  <1>12. ASSUME NEW w \in Workers, MarkSucceeded(w)
        PROVE  NoBadUrl'
    BY <1>12 DEF MarkSucceeded, UpdateWhere, BackToLoop, Goto
  <1>13. ASSUME NEW w \in Workers, CountFailure(w)
        PROVE  NoBadUrl'
    BY <1>13 DEF CountFailure, Failed, UpdateWhere, BackToLoop, Goto
  <1>14. ASSUME NEW w \in Workers, Fail(w)
        PROVE  NoBadUrl'
    BY <1>14 DEF Fail, Enqueue, BackToLoop, Goto
  <1>15. ASSUME NEW c \in Callers, NEW t \in Tenants, NEW e \in Events, RetryRead(c, t, e)
        PROVE  NoBadUrl'
    BY <1>15 DEF RetryRead
  <1>16. ASSUME NEW c \in Callers, RetryUpdate(c)
        PROVE  NoBadUrl'
    BY <1>16 DEF RetryUpdate, UpdateWhere, Stage
  <1>17. ASSUME NEW c \in Callers, RetryPublish(c)
        PROVE  NoBadUrl'
    BY <1>17 DEF RetryPublish, ApiPublish, Enqueue, Stage
  <1>18. ASSUME NEW c \in Callers, RetryFail(c)
        PROVE  NoBadUrl'
    BY <1>18 DEF RetryFail, ApiPublish, Enqueue, Stage
  <1>19. CASE UNCHANGED vars
    BY <1>19 DEF vars
  <1>20. ASSUME NEW w \in Workers, Resend(w)
        PROVE  NoBadUrl'
    BY <1>20 DEF Resend, Enqueue
  <1>21. ASSUME NEW c \in Callers, RetryResend(c)
        PROVE  NoBadUrl'
    BY <1>21 DEF RetryResend, Enqueue
  <1> QED BY <1>1, <1>2, <1>3, <1>4, <1>5, <1>6, <1>7, <1>8, <1>9, <1>10, <1>11, <1>12, <1>13, <1>14, <1>15, <1>16, <1>17, <1>18, <1>19, <1>20, <1>21
          DEF Next, Work, EnqueueIfNeeded, ProcessDelivery, postWebhookDeliveryRetry

LEMMA CarriedStep ==
  ASSUME Reachable, WebhookInv, NoBadUrl, PendingIsCarried, [Next]_vars,
         faults' = 0, NEW f \in Events, row'[f] = "pending"
  PROVE  Carried(f)'
  <1> USE WebhookConstants
      DEF Reachable, NoBadUrl, WebhookInv, TypeOK, WorkerInv, CallInv, Running,
          PendingIsCarried, Carried, Delivering, tables, rows, locals, history
  <1>1. ASSUME NEW t \in Tenants, NEW h \in Hooks, patchTenantWebhook(t, h)
        PROVE  Carried(f)'
    BY <1>1 DEF patchTenantWebhook
  <1>2. ASSUME NEW w \in Workers, NEW e \in Events, Settle(w, e)
        PROVE  Carried(f)'
    BY <1>2, SMTT(40) DEF Settle, Goto
  <1>3. ASSUME NEW w \in Workers, Announce(w)
        PROVE  Carried(f)'
    BY <1>3 DEF Announce, BackToLoop, Goto, Complete, HookOf
  <1>4. ASSUME NEW w \in Workers, InsertDelivery(w)
        PROVE  Carried(f)'
    <2>1. CASE row[job[w]] = "none" /\ f = job[w]
      BY <1>4, <2>1 DEF InsertDelivery, Goto
    <2>2. CASE ~(row[job[w]] = "none" /\ f = job[w])
      <3>1. /\ row[f] = "pending" /\ pc[w] = "insert"
            /\ \A v \in Workers \ {w} : pc'[v] = pc[v] /\ job'[v] = job[v]
            /\ queue' = queue /\ call' = call /\ faults = 0
        BY <1>4, <2>2 DEF InsertDelivery, BackToLoop, Goto
      <3>2. Carried(f)
        BY <3>1
      <3> HIDE DEF WebhookInv, PendingIsCarried, NoBadUrl
      <3> QED BY <3>1, <3>2
    <2> QED BY <2>1, <2>2
  <1>5. ASSUME NEW w \in Workers, PublishWebhookDelivery(w)
        PROVE  Carried(f)'
    BY <1>5 DEF PublishWebhookDelivery, Enqueue, BackToLoop, Goto
  <1>6. ASSUME NEW w \in Workers, NEW e \in Events, BRPopJob(w, e)
        PROVE  Carried(f)'
    BY <1>6 DEF BRPopJob, Dequeue, Goto
  <1>7. ASSUME NEW w \in Workers, CompleteMessage(w)
        PROVE  Carried(f)'
    BY <1>7 DEF CompleteMessage, Goto
  <1>8. ASSUME NEW w \in Workers, ReadDelivery(w)
        PROVE  Carried(f)'
    BY <1>8 DEF ReadDelivery, AfterRead, BackToLoop, Goto
  <1>9. ASSUME NEW w \in Workers, GiveUp(w)
        PROVE  Carried(f)'
    BY <1>9 DEF GiveUp, UpdateWhere, BackToLoop, Goto
  <1>10. ASSUME NEW w \in Workers, Acknowledged(w)
        PROVE  Carried(f)'
    BY <1>10 DEF Acknowledged, Posted, Goto
  <1>11. ASSUME NEW w \in Workers, Rejected(w)
        PROVE  Carried(f)'
    BY <1>11 DEF Rejected, Posted, Goto
  <1>12. ASSUME NEW w \in Workers, MarkSucceeded(w)
        PROVE  Carried(f)'
    BY <1>12 DEF MarkSucceeded, UpdateWhere, BackToLoop, Goto
  <1>13. ASSUME NEW w \in Workers, CountFailure(w)
        PROVE  Carried(f)'
    <2>1. /\ row[f] = "pending" /\ queue' = queue /\ call' = call
          /\ faults = 0
      BY <1>13 DEF CountFailure, Failed, UpdateWhere
    <2>2. \A v \in Workers \ {w} : pc'[v] = pc[v] /\ job'[v] = job[v]
      BY <1>13 DEF CountFailure, Failed, BackToLoop, Goto
    <2>3. f = job[w] => pc'[w] = "read" /\ job'[w] = f
      BY <1>13, <2>1 DEF CountFailure, Failed, UpdateWhere, Goto
    <2>4. Carried(f)
      BY <2>1
    <2> HIDE DEF WebhookInv, PendingIsCarried, NoBadUrl
    <2> QED BY <2>1, <2>2, <2>3, <2>4
  <1>14. ASSUME NEW w \in Workers, Fail(w)
        PROVE  Carried(f)'
    BY <1>14 DEF Fail, Enqueue, BackToLoop, Goto
  <1>15. ASSUME NEW c \in Callers, NEW t \in Tenants, NEW e \in Events, RetryRead(c, t, e)
        PROVE  Carried(f)'
    BY <1>15 DEF RetryRead
  <1>16. ASSUME NEW c \in Callers, RetryUpdate(c)
        PROVE  Carried(f)'
    BY <1>16, SMTT(40) DEF RetryUpdate, UpdateWhere, Stage
  <1>17. ASSUME NEW c \in Callers, RetryPublish(c)
        PROVE  Carried(f)'
    <2>1. /\ row[f] = "pending" /\ pc' = pc /\ job' = job /\ faults = 0
          /\ queue' = [queue EXCEPT ![call[c].event] = @ + 1]
          /\ call[c].event \in Events
          /\ \A d \in Callers \ {c} : call'[d] = call[d]
      BY <1>17 DEF RetryPublish, ApiPublish, Enqueue, Stage
    <2>2. queue[f] > 0 \/ call[c].event = f => queue'[f] > 0
      BY <2>1
    <2>3. Carried(f)
      BY <2>1
    <2> HIDE DEF WebhookInv, PendingIsCarried, NoBadUrl
    <2> QED BY <2>1, <2>2, <2>3
  <1>18. ASSUME NEW c \in Callers, RetryFail(c)
        PROVE  Carried(f)'
    BY <1>18 DEF RetryFail, ApiPublish, Enqueue, Stage
  <1>19. CASE UNCHANGED vars
    BY <1>19 DEF vars
  <1>20. ASSUME NEW w \in Workers, Resend(w)
        PROVE  Carried(f)'
    BY <1>20 DEF Resend, Enqueue
  <1>21. ASSUME NEW c \in Callers, RetryResend(c)
        PROVE  Carried(f)'
    BY <1>21 DEF RetryResend, Enqueue
  <1> QED BY <1>1, <1>2, <1>3, <1>4, <1>5, <1>6, <1>7, <1>8, <1>9, <1>10, <1>11, <1>12, <1>13, <1>14, <1>15, <1>16, <1>17, <1>18, <1>19, <1>20, <1>21
          DEF Next, Work, EnqueueIfNeeded, ProcessDelivery, postWebhookDeliveryRetry

(* Until something fails no pending delivery is forgotten, provided that   *)
(* the API has a broker and the hooks can be parsed.                       *)
THEOREM NothingForgotten ==
  ASSUME Reachable
  PROVE  Spec => []PendingIsCarried
  <1> DEFINE I == WebhookInv /\ NoBadUrl /\ PendingIsCarried
  <1>1. Init => I
    BY WebhookStart
    DEF Init, NoBadUrl, NoHook, PendingIsCarried
  <1>2. I /\ [Next]_vars => I'
    <2> SUFFICES ASSUME I, [Next]_vars PROVE PendingIsCarried'
      BY Reachable, WebhookStep, NoBadUrlStep
    <2>1. CASE faults' = 0
      <3>1. ASSUME NEW f \in Events, row'[f] = "pending" PROVE Carried(f)'
        BY Reachable, <2>1, <3>1, CarriedStep
      <3> QED BY <3>1 DEF PendingIsCarried
    <2>2. CASE faults' # 0
      BY <2>2 DEF PendingIsCarried
    <2> QED BY <2>1, <2>2
  <1> QED BY <1>1, <1>2, PTL DEF Spec

-----------------------------------------------------------------------------
LEMMA DueStep ==
  ASSUME WebhookInv, DueIsHooked, DueIsAnnounced, [Next]_vars
  PROVE  DueIsHooked' /\ DueIsAnnounced'
  <1> USE WebhookConstants
      DEF WebhookInv, TypeOK, WorkerInv, CallInv, Running, DueIsHooked,
          DueIsAnnounced, Complete, HookOf, tables, rows, locals, history
  <1>1. ASSUME NEW t \in Tenants, NEW h \in Hooks, patchTenantWebhook(t, h)
        PROVE  DueIsHooked' /\ DueIsAnnounced'
    BY <1>1 DEF patchTenantWebhook
  <1>2. ASSUME NEW w \in Workers, NEW e \in Events, Settle(w, e)
        PROVE  DueIsHooked' /\ DueIsAnnounced'
    <2>1. /\ due' \subseteq due \cup {e} /\ (e \in due' \ due => Complete(HookOf(e)))
          /\ row' = row /\ hook' = hook /\ faults' = faults
          /\ pc[w] = "loop" /\ pc'[w] = "announce" /\ job'[w] = e
          /\ \A v \in Workers \ {w} : pc'[v] = pc[v] /\ job'[v] = job[v]
      BY <1>2 DEF Settle, Goto
    <2>2. DueIsHooked'
      BY <2>1
    <2>3. DueIsAnnounced'
      BY <2>1
    <2> QED BY <2>2, <2>3
  <1>3. ASSUME NEW w \in Workers, Announce(w)
        PROVE  DueIsHooked' /\ DueIsAnnounced'
    BY <1>3 DEF Announce, BackToLoop, Goto, Complete, HookOf
  <1>4. ASSUME NEW w \in Workers, InsertDelivery(w)
        PROVE  DueIsHooked' /\ DueIsAnnounced'
    <2>1. /\ due' = due /\ hook' = hook /\ faults' = faults
          /\ row'[job[w]] # "none" /\ pc[w] = "insert"
          /\ \A e \in Events \ {job[w]} : row'[e] = row[e]
          /\ \A v \in Workers \ {w} : pc'[v] = pc[v] /\ job'[v] = job[v]
      BY <1>4 DEF InsertDelivery, BackToLoop, Goto
    <2>2. due \subseteq Events
      OBVIOUS
    <2> HIDE DEF WebhookInv
    <2> QED BY <2>1, <2>2
  <1>5. ASSUME NEW w \in Workers, PublishWebhookDelivery(w)
        PROVE  DueIsHooked' /\ DueIsAnnounced'
    BY <1>5 DEF PublishWebhookDelivery, Enqueue, BackToLoop, Goto
  <1>6. ASSUME NEW w \in Workers, NEW e \in Events, BRPopJob(w, e)
        PROVE  DueIsHooked' /\ DueIsAnnounced'
    BY <1>6 DEF BRPopJob, Dequeue, Goto
  <1>7. ASSUME NEW w \in Workers, CompleteMessage(w)
        PROVE  DueIsHooked' /\ DueIsAnnounced'
    BY <1>7 DEF CompleteMessage, Goto
  <1>8. ASSUME NEW w \in Workers, ReadDelivery(w)
        PROVE  DueIsHooked' /\ DueIsAnnounced'
    BY <1>8 DEF ReadDelivery, AfterRead, BackToLoop, Goto
  <1>9. ASSUME NEW w \in Workers, GiveUp(w)
        PROVE  DueIsHooked' /\ DueIsAnnounced'
    BY <1>9 DEF GiveUp, UpdateWhere, BackToLoop, Goto
  <1>10. ASSUME NEW w \in Workers, Acknowledged(w)
        PROVE  DueIsHooked' /\ DueIsAnnounced'
    BY <1>10 DEF Acknowledged, Posted, Goto
  <1>11. ASSUME NEW w \in Workers, Rejected(w)
        PROVE  DueIsHooked' /\ DueIsAnnounced'
    BY <1>11 DEF Rejected, Posted, Goto
  <1>12. ASSUME NEW w \in Workers, MarkSucceeded(w)
        PROVE  DueIsHooked' /\ DueIsAnnounced'
    <2>1. /\ due' = due /\ hook' = hook /\ faults' = faults
          /\ \A e \in Events : row[e] = "none" <=> row'[e] = "none"
      BY <1>12 DEF MarkSucceeded, UpdateWhere
    <2>2. /\ pc[w] = "succeed"
          /\ \A v \in Workers \ {w} : pc'[v] = pc[v] /\ job'[v] = job[v]
      BY <1>12 DEF MarkSucceeded, BackToLoop, Goto
    <2>3. due \subseteq Events
      OBVIOUS
    <2> HIDE DEF WebhookInv
    <2> QED BY <2>1, <2>2, <2>3
  <1>13. ASSUME NEW w \in Workers, CountFailure(w)
        PROVE  DueIsHooked' /\ DueIsAnnounced'
    <2>1. /\ due' = due /\ hook' = hook /\ faults' = faults
          /\ \A e \in Events : row[e] = "none" <=> row'[e] = "none"
      BY <1>13 DEF CountFailure, Failed, UpdateWhere
    <2>2. /\ pc[w] = "count"
          /\ \A v \in Workers \ {w} : pc'[v] = pc[v] /\ job'[v] = job[v]
      BY <1>13 DEF CountFailure, Failed, BackToLoop, Goto
    <2>3. due \subseteq Events
      OBVIOUS
    <2> HIDE DEF WebhookInv
    <2> QED BY <2>1, <2>2, <2>3
  <1>14. ASSUME NEW w \in Workers, Fail(w)
        PROVE  DueIsHooked' /\ DueIsAnnounced'
    BY <1>14 DEF Fail, Enqueue, BackToLoop, Goto
  <1>15. ASSUME NEW c \in Callers, NEW t \in Tenants, NEW e \in Events, RetryRead(c, t, e)
        PROVE  DueIsHooked' /\ DueIsAnnounced'
    BY <1>15 DEF RetryRead
  <1>16. ASSUME NEW c \in Callers, RetryUpdate(c)
        PROVE  DueIsHooked' /\ DueIsAnnounced'
    BY <1>16 DEF RetryUpdate, UpdateWhere, Stage
  <1>17. ASSUME NEW c \in Callers, RetryPublish(c)
        PROVE  DueIsHooked' /\ DueIsAnnounced'
    BY <1>17 DEF RetryPublish, ApiPublish, Enqueue, Stage
  <1>18. ASSUME NEW c \in Callers, RetryFail(c)
        PROVE  DueIsHooked' /\ DueIsAnnounced'
    BY <1>18 DEF RetryFail, ApiPublish, Enqueue, Stage
  <1>19. CASE UNCHANGED vars
    BY <1>19 DEF vars
  <1>20. ASSUME NEW w \in Workers, Resend(w)
        PROVE  DueIsHooked' /\ DueIsAnnounced'
    BY <1>20 DEF Resend, Enqueue
  <1>21. ASSUME NEW c \in Callers, RetryResend(c)
        PROVE  DueIsHooked' /\ DueIsAnnounced'
    BY <1>21 DEF RetryResend, Enqueue
  <1> QED BY <1>1, <1>2, <1>3, <1>4, <1>5, <1>6, <1>7, <1>8, <1>9, <1>10, <1>11, <1>12, <1>13, <1>14, <1>15, <1>16, <1>17, <1>18, <1>19, <1>20, <1>21
          DEF Next, Work, EnqueueIfNeeded, ProcessDelivery, postWebhookDeliveryRetry

(* Until something fails every event settled while its tenant had a hook   *)
(* is announced or about to be.                                            *)
THEOREM NothingUnannounced == Spec => []DueIsAnnounced
  <1> DEFINE I == WebhookInv /\ DueIsHooked /\ DueIsAnnounced
  <1>1. Init => I
    BY WebhookStart DEF Init, DueIsHooked, DueIsAnnounced
  <1>2. I /\ [Next]_vars => I'
    BY WebhookStep, DueStep
  <1> QED BY <1>1, <1>2, PTL DEF Spec

-----------------------------------------------------------------------------
LEMMA LimitIsMax == Limit = MaxAttempts
  BY WebhookConstants DEF Limit

(* What was published twice stays so. *)
LEMMA TwiceGrows ==
  ASSUME [Next]_vars
  PROVE  twice \subseteq twice'
  BY DEF Next, Work, EnqueueIfNeeded, ProcessDelivery, postWebhookDeliveryRetry,
         patchTenantWebhook, Settle, Announce, InsertDelivery,
         PublishWebhookDelivery, Resend, BRPopJob, CompleteMessage, ReadDelivery,
         GiveUp, Acknowledged, Rejected, MarkSucceeded, CountFailure, Failed, Fail,
         RetryRead, RetryUpdate, RetryPublish, RetryResend, RetryFail, history, vars

LEMMA OneCarrierStep ==
  ASSUME WebhookInv, OnceInv, [Next]_vars, NEW f \in Events \ twice'
  PROVE  OneCarrier(f)'
  <1>f. f \in Events /\ f \notin twice /\ OneCarrier(f)
    BY TwiceGrows DEF OnceInv
  <1> USE WebhookConstants, LimitIsMax
      DEF WebhookInv, TypeOK, WorkerInv, CallInv, Running, OnceInv,
          OneCarrier, Carrier, Publishes, Carried, Delivering, tables, rows, locals, history
  <1>1. ASSUME NEW t \in Tenants, NEW h \in Hooks, patchTenantWebhook(t, h)
        PROVE  OneCarrier(f)'
    BY <1>1, <1>f DEF patchTenantWebhook
  <1>2. ASSUME NEW w \in Workers, NEW e \in Events, Settle(w, e)
        PROVE  OneCarrier(f)'
    BY <1>2, <1>f DEF Settle, Goto
  <1>3. ASSUME NEW w \in Workers, Announce(w)
        PROVE  OneCarrier(f)'
    <2>1. OneCarrier(f)
      BY <1>f
    <2>2. /\ pc[w] = "announce" /\ pc'[w] \in {"loop", "insert"} /\ Others(w)
          /\ UNCHANGED <<row, queue, call>>
      BY <1>3, AnnounceEffect
    <2> HIDE DEF WebhookInv, OnceInv
    <2> QED BY <2>1, <2>2 DEF Others
  <1>4. ASSUME NEW w \in Workers, InsertDelivery(w)
        PROVE  OneCarrier(f)'
    <2>1. /\ OneCarrier(f) /\ f \in Events
          /\ row \in [Events -> Statuses] /\ queue \in [Events -> Nat]
      BY <1>f
    <2>2. /\ pc[w] = "insert" /\ job[w] \in Events /\ Others(w)
          /\ \/ /\ row[job[w]] = "none"
                /\ row' = [row EXCEPT ![job[w]] = "pending"]
                /\ pc'[w] = "publish" /\ job'[w] = job[w]
             \/ row' = row /\ pc'[w] = "loop"
          /\ UNCHANGED <<queue, call>>
      BY <1>4, InsertEffect
    <2> HIDE DEF WebhookInv, OnceInv
    <2> QED BY <2>1, <2>2 DEF Others
  <1>5. ASSUME NEW w \in Workers, PublishWebhookDelivery(w)
        PROVE  OneCarrier(f)'
    BY <1>5, <1>f DEF PublishWebhookDelivery, Enqueue, BackToLoop, Goto
  <1>6. ASSUME NEW w \in Workers, NEW e \in Events, BRPopJob(w, e)
        PROVE  OneCarrier(f)'
    BY <1>6, <1>f DEF BRPopJob, Dequeue, Goto
  <1>7. ASSUME NEW w \in Workers, CompleteMessage(w)
        PROVE  OneCarrier(f)'
    BY <1>7, <1>f DEF CompleteMessage, Goto
  <1>8. ASSUME NEW w \in Workers, ReadDelivery(w)
        PROVE  OneCarrier(f)'
    <2>1. OneCarrier(f)
      BY <1>f
    <2>2. /\ pc[w] = "read" /\ Others(w)
          /\ \/ pc'[w] = "loop"
             \/ pc'[w] \in {"giveup", "post"} /\ job'[w] = job[w]
          /\ UNCHANGED <<row, queue, call>>
      BY <1>8, ReadEffect
    <2> HIDE DEF WebhookInv, OnceInv
    <2> QED BY <2>1, <2>2 DEF Others
  <1>9. ASSUME NEW w \in Workers, GiveUp(w)
        PROVE  OneCarrier(f)'
    BY <1>9, <1>f DEF GiveUp, UpdateWhere, BackToLoop, Goto
  <1>10. ASSUME NEW w \in Workers, Acknowledged(w)
        PROVE  OneCarrier(f)'
    BY <1>10, <1>f DEF Acknowledged, Posted, Goto
  <1>11. ASSUME NEW w \in Workers, Rejected(w)
        PROVE  OneCarrier(f)'
    BY <1>11, <1>f DEF Rejected, Posted, Goto
  <1>12. ASSUME NEW w \in Workers, MarkSucceeded(w)
        PROVE  OneCarrier(f)'
    BY <1>12, <1>f DEF MarkSucceeded, UpdateWhere, BackToLoop, Goto
  <1>13. ASSUME NEW w \in Workers, CountFailure(w)
        PROVE  OneCarrier(f)'
    <2>1. /\ OneCarrier(f) /\ f \in Events /\ job[w] \in Events
          /\ row \in [Events -> Statuses] /\ queue \in [Events -> Nat]
          /\ pc[w] = "count" /\ Others(w) /\ UNCHANGED <<queue, call>>
      BY <1>13, <1>f, CountEffect
    <2>2. CASE f = job[w]
      <3>1. row[f] = "pending"
        BY <2>1, <2>2
      <3>2. \/ row' = [row EXCEPT ![f] = "dlq"] /\ pc'[w] = "loop"
            \/ row' = row /\ pc'[w] = "read" /\ job'[w] = f
        BY <1>13, <2>1, <2>2, <3>1, CountEffect
      <3> HIDE DEF WebhookInv, OnceInv
      <3> QED BY <2>1, <2>2, <3>2 DEF Others
    <2>3. CASE f # job[w]
      <3>1. /\ row'[f] = row[f]
            /\ pc'[w] = "loop" \/ job'[w] = job[w]
        BY <1>13, <2>1, <2>3, CountEffect
      <3> HIDE DEF WebhookInv, OnceInv
      <3> QED BY <2>1, <2>3, <3>1 DEF Others
    <2> QED BY <2>2, <2>3
  <1>14. ASSUME NEW w \in Workers, Fail(w)
        PROVE  OneCarrier(f)'
    <2>1. /\ OneCarrier(f) /\ f \in Events /\ job[w] \in Events
          /\ queue \in [Events -> Nat]
      BY <1>14, <1>f DEF Fail
    <2>2. /\ pc'[w] = "loop" /\ Others(w) /\ UNCHANGED <<row, call>>
          /\ \/ queue' = queue
             \/ /\ pc[w] \in {"locked", "publish"}
                /\ queue' = [queue EXCEPT ![job[w]] = @ + 1]
      BY <1>14 DEF Fail, Enqueue, BackToLoop, Goto, Others
    <2> HIDE DEF WebhookInv, OnceInv
    <2>3. CASE queue' = queue
      BY <2>1, <2>2, <2>3 DEF Others
    <2>4. CASE job[w] # f
      BY <2>1, <2>2, <2>4 DEF Others
    <2>5. CASE job[w] = f /\ queue' # queue
      BY <2>1, <2>2, <2>5 DEF Others
    <2> QED BY <2>3, <2>4, <2>5
  <1>15. ASSUME NEW c \in Callers, NEW t \in Tenants, NEW e \in Events, RetryRead(c, t, e)
        PROVE  OneCarrier(f)'
    BY <1>15, <1>f DEF RetryRead
  <1>16. ASSUME NEW c \in Callers, RetryUpdate(c)
        PROVE  OneCarrier(f)'
    BY <1>16, <1>f DEF RetryUpdate, UpdateWhere, Stage
  <1>17. ASSUME NEW c \in Callers, RetryPublish(c)
        PROVE  OneCarrier(f)'
    BY <1>17, <1>f DEF RetryPublish, ApiPublish, Enqueue, Stage
  <1>18. ASSUME NEW c \in Callers, RetryFail(c)
        PROVE  OneCarrier(f)'
    BY <1>18, <1>f DEF RetryFail, ApiPublish, Enqueue, Stage
  <1>19. CASE UNCHANGED vars
    BY <1>19, <1>f DEF vars
  <1>20. ASSUME NEW w \in Workers, Resend(w)
        PROVE  OneCarrier(f)'
    BY <1>20, <1>f DEF Resend, Enqueue
  <1>21. ASSUME NEW c \in Callers, RetryResend(c)
        PROVE  OneCarrier(f)'
    BY <1>21, <1>f DEF RetryResend, Enqueue
  <1> QED BY <1>1, <1>2, <1>3, <1>4, <1>5, <1>6, <1>7, <1>8, <1>9, <1>10, <1>11, <1>12, <1>13, <1>14, <1>15, <1>16, <1>17, <1>18, <1>19, <1>20, <1>21
          DEF Next, Work, EnqueueIfNeeded, ProcessDelivery, postWebhookDeliveryRetry

LEMMA PostsStep ==
  ASSUME WebhookInv, OnceInv, [Next]_vars, NEW f \in Events \ twice'
  PROVE  PostsAreCounted(f)'
  <1>f. f \in Events /\ f \notin twice /\ OneCarrier(f) /\ PostsAreCounted(f)
    BY TwiceGrows DEF OnceInv
  <1> USE WebhookConstants, LimitIsMax
      DEF WebhookInv, TypeOK, WorkerInv, CallInv, Running, OnceInv,
          OneCarrier, Carrier, Publishes, Carried, Delivering, PostsAreCounted, AttemptInv, tables, rows, locals, history
  <1>1. ASSUME NEW t \in Tenants, NEW h \in Hooks, patchTenantWebhook(t, h)
        PROVE  PostsAreCounted(f)'
    BY <1>1, <1>f DEF patchTenantWebhook
  <1>2. ASSUME NEW w \in Workers, NEW e \in Events, Settle(w, e)
        PROVE  PostsAreCounted(f)'
    BY <1>2, <1>f DEF Settle, Goto
  <1>3. ASSUME NEW w \in Workers, Announce(w)
        PROVE  PostsAreCounted(f)'
    BY <1>3, <1>f DEF Announce, BackToLoop, Goto, Complete, HookOf
  <1>4. ASSUME NEW w \in Workers, InsertDelivery(w)
        PROVE  PostsAreCounted(f)'
    BY <1>4, <1>f DEF InsertDelivery, BackToLoop, Goto
  <1>5. ASSUME NEW w \in Workers, PublishWebhookDelivery(w)
        PROVE  PostsAreCounted(f)'
    BY <1>5, <1>f DEF PublishWebhookDelivery, Enqueue, BackToLoop, Goto
  <1>6. ASSUME NEW w \in Workers, NEW e \in Events, BRPopJob(w, e)
        PROVE  PostsAreCounted(f)'
    BY <1>6, <1>f DEF BRPopJob, Dequeue, Goto
  <1>7. ASSUME NEW w \in Workers, CompleteMessage(w)
        PROVE  PostsAreCounted(f)'
    BY <1>7, <1>f DEF CompleteMessage, Goto
  <1>8. ASSUME NEW w \in Workers, ReadDelivery(w)
        PROVE  PostsAreCounted(f)'
    BY <1>8, <1>f DEF ReadDelivery, AfterRead, BackToLoop, Goto
  <1>9. ASSUME NEW w \in Workers, GiveUp(w)
        PROVE  PostsAreCounted(f)'
    BY <1>9, <1>f DEF GiveUp, UpdateWhere, BackToLoop, Goto
  <1>10. ASSUME NEW w \in Workers, Acknowledged(w)
        PROVE  PostsAreCounted(f)'
    BY <1>10, <1>f DEF Acknowledged, Posted, Goto
  <1>11. ASSUME NEW w \in Workers, Rejected(w)
        PROVE  PostsAreCounted(f)'
    BY <1>11, <1>f DEF Rejected, Posted, Goto
  <1>12. ASSUME NEW w \in Workers, MarkSucceeded(w)
        PROVE  PostsAreCounted(f)'
    BY <1>12, <1>f DEF MarkSucceeded, UpdateWhere, BackToLoop, Goto
  <1>13. ASSUME NEW w \in Workers, CountFailure(w)
        PROVE  PostsAreCounted(f)'
    BY <1>13, <1>f DEF CountFailure, Failed, UpdateWhere, BackToLoop, Goto
  <1>14. ASSUME NEW w \in Workers, Fail(w)
        PROVE  PostsAreCounted(f)'
    BY <1>14, <1>f DEF Fail, Enqueue, BackToLoop, Goto
  <1>15. ASSUME NEW c \in Callers, NEW t \in Tenants, NEW e \in Events, RetryRead(c, t, e)
        PROVE  PostsAreCounted(f)'
    BY <1>15, <1>f DEF RetryRead
  <1>16. ASSUME NEW c \in Callers, RetryUpdate(c)
        PROVE  PostsAreCounted(f)'
    BY <1>16, <1>f DEF RetryUpdate, UpdateWhere, Stage
  <1>17. ASSUME NEW c \in Callers, RetryPublish(c)
        PROVE  PostsAreCounted(f)'
    BY <1>17, <1>f DEF RetryPublish, ApiPublish, Enqueue, Stage
  <1>18. ASSUME NEW c \in Callers, RetryFail(c)
        PROVE  PostsAreCounted(f)'
    BY <1>18, <1>f DEF RetryFail, ApiPublish, Enqueue, Stage
  <1>19. CASE UNCHANGED vars
    BY <1>19, <1>f DEF vars
  <1>20. ASSUME NEW w \in Workers, Resend(w)
        PROVE  PostsAreCounted(f)'
    BY <1>20, <1>f DEF Resend, Enqueue
  <1>21. ASSUME NEW c \in Callers, RetryResend(c)
        PROVE  PostsAreCounted(f)'
    BY <1>21, <1>f DEF RetryResend, Enqueue
  <1> QED BY <1>1, <1>2, <1>3, <1>4, <1>5, <1>6, <1>7, <1>8, <1>9, <1>10, <1>11, <1>12, <1>13, <1>14, <1>15, <1>16, <1>17, <1>18, <1>19, <1>20, <1>21
          DEF Next, Work, EnqueueIfNeeded, ProcessDelivery, postWebhookDeliveryRetry

LEMMA AttemptStep ==
  ASSUME WebhookInv, OnceInv, [Next]_vars, NEW v \in Workers,
         job'[v] \notin twice'
  PROVE  AttemptInv(v)'
  <1>f. job'[v] \notin twice
    BY TwiceGrows
  <1> USE WebhookConstants, LimitIsMax
      DEF WebhookInv, TypeOK, WorkerInv, CallInv, Running, OnceInv,
          OneCarrier, Carrier, Publishes, Carried, Delivering, PostsAreCounted, AttemptInv, tables, rows, locals, history
  <1>1. ASSUME NEW t \in Tenants, NEW h \in Hooks, patchTenantWebhook(t, h)
        PROVE  AttemptInv(v)'
    BY <1>1, <1>f DEF patchTenantWebhook
  <1>2. ASSUME NEW w \in Workers, NEW e \in Events, Settle(w, e)
        PROVE  AttemptInv(v)'
    BY <1>2, <1>f DEF Settle, Goto
  <1>3. ASSUME NEW w \in Workers, Announce(w)
        PROVE  AttemptInv(v)'
    BY <1>3, <1>f DEF Announce, BackToLoop, Goto, Complete, HookOf
  <1>4. ASSUME NEW w \in Workers, InsertDelivery(w)
        PROVE  AttemptInv(v)'
    <2>1. /\ Others(w) /\ attempts' = attempts /\ posts' = posts
          /\ \/ pc'[w] = "loop"
             \/ /\ pc'[w] = "publish" /\ job'[w] = job[w] /\ job[w] \in Events
                /\ row[job[w]] = "none"
      <3> HIDE DEF OnceInv, OneCarrier, AttemptInv, PostsAreCounted, TypeOK
      <3> QED BY <1>4, InsertEffect DEF history
    <2>2. CASE v = w
      <3>1. job[w] \in Events \ twice /\ row[job[w]] = "none" =>
              posts[job[w]] <= attempts[job[w]]
        OBVIOUS
      <3> QED BY <1>f, <2>1, <2>2, <3>1
    <2>3. CASE v # w
      BY <1>f, <2>1, <2>3 DEF Others
    <2> QED BY <2>2, <2>3
  <1>5. ASSUME NEW w \in Workers, PublishWebhookDelivery(w)
        PROVE  AttemptInv(v)'
    BY <1>5, <1>f DEF PublishWebhookDelivery, Enqueue, BackToLoop, Goto
  <1>6. ASSUME NEW w \in Workers, NEW e \in Events, BRPopJob(w, e)
        PROVE  AttemptInv(v)'
    BY <1>6, <1>f DEF BRPopJob, Dequeue, Goto
  <1>7. ASSUME NEW w \in Workers, CompleteMessage(w)
        PROVE  AttemptInv(v)'
    BY <1>7, <1>f DEF CompleteMessage, Goto
  <1>8. ASSUME NEW w \in Workers, ReadDelivery(w)
        PROVE  AttemptInv(v)'
    <2>1. attempts[job[w]] \in Nat
      BY <1>8, ReadEffect
    <2>2. CASE v = w
      BY <1>8, <1>f, <2>1, <2>2, ReadEffect
    <2>3. CASE v # w
      BY <1>8, <1>f, <2>3, ReadEffect DEF Others
    <2> QED BY <2>2, <2>3
  <1>9. ASSUME NEW w \in Workers, GiveUp(w)
        PROVE  AttemptInv(v)'
    BY <1>9, <1>f DEF GiveUp, UpdateWhere, BackToLoop, Goto
  <1>10. ASSUME NEW w \in Workers, Acknowledged(w)
        PROVE  AttemptInv(v)'
    BY <1>10, <1>f DEF Acknowledged, Posted, Goto
  <1>11. ASSUME NEW w \in Workers, Rejected(w)
        PROVE  AttemptInv(v)'
    BY <1>11, <1>f DEF Rejected, Posted, Goto
  <1>12. ASSUME NEW w \in Workers, MarkSucceeded(w)
        PROVE  AttemptInv(v)'
    BY <1>12, <1>f DEF MarkSucceeded, UpdateWhere, BackToLoop, Goto
  <1>13. ASSUME NEW w \in Workers, CountFailure(w)
        PROVE  AttemptInv(v)'
    <2>1. /\ pc[w] = "count" /\ job[w] \in Events /\ Others(w) /\ posts' = posts
          /\ pc'[w] = "loop" \/ (pc'[w] = "read" /\ job'[w] = job[w])
          /\ \A e \in Events \ {job[w]} : attempts'[e] = attempts[e]
      BY <1>13, CountEffect DEF history
    <2>2. CASE v = w
      <3>1. CASE pc'[w] = "loop"
        BY <2>2, <3>1
      <3>2. CASE pc'[w] = "read" /\ job'[w] = job[w]
        <4>1. job[w] \notin twice /\ AttemptInv(w) /\ OneCarrier(job[w])
          BY <1>f, <2>1, <2>2, <3>2
        <4>2. row[job[w]] = "pending" /\ posts[job[w]] <= seen[w] + 1
          BY <2>1, <4>1
        <4>3. attempts' = [attempts EXCEPT ![job[w]] = seen[w] + 1]
          BY <1>13, <4>2, CountEffect
        <4> QED BY <2>1, <2>2, <3>2, <4>2, <4>3
      <3> QED BY <2>1, <3>1, <3>2
    <2>3. CASE v # w
      <3>1. /\ pc'[v] = pc[v] /\ job'[v] = job[v] /\ seen'[v] = seen[v]
            /\ AttemptInv(v) /\ job[v] \notin twice
        BY <1>f, <2>1, <2>3 DEF Others
      <3>2. pc[v] \in Delivering \cup {"publish"} =>
              job[v] \in Events /\ job[v] # job[w]
        BY <2>1, <2>3, <3>1
      <3> QED BY <2>1, <3>1, <3>2
    <2> QED BY <2>2, <2>3
  <1>14. ASSUME NEW w \in Workers, Fail(w)
        PROVE  AttemptInv(v)'
    BY <1>14, <1>f DEF Fail, Enqueue, BackToLoop, Goto
  <1>15. ASSUME NEW c \in Callers, NEW t \in Tenants, NEW e \in Events, RetryRead(c, t, e)
        PROVE  AttemptInv(v)'
    BY <1>15, <1>f DEF RetryRead
  <1>16. ASSUME NEW c \in Callers, RetryUpdate(c)
        PROVE  AttemptInv(v)'
    BY <1>16, <1>f DEF RetryUpdate, UpdateWhere, Stage
  <1>17. ASSUME NEW c \in Callers, RetryPublish(c)
        PROVE  AttemptInv(v)'
    BY <1>17, <1>f DEF RetryPublish, ApiPublish, Enqueue, Stage
  <1>18. ASSUME NEW c \in Callers, RetryFail(c)
        PROVE  AttemptInv(v)'
    BY <1>18, <1>f DEF RetryFail, ApiPublish, Enqueue, Stage
  <1>19. CASE UNCHANGED vars
    BY <1>19, <1>f DEF vars
  <1>20. ASSUME NEW w \in Workers, Resend(w)
        PROVE  AttemptInv(v)'
    BY <1>20, <1>f DEF Resend, Enqueue
  <1>21. ASSUME NEW c \in Callers, RetryResend(c)
        PROVE  AttemptInv(v)'
    BY <1>21, <1>f DEF RetryResend, Enqueue
  <1> QED BY <1>1, <1>2, <1>3, <1>4, <1>5, <1>6, <1>7, <1>8, <1>9, <1>10, <1>11, <1>12, <1>13, <1>14, <1>15, <1>16, <1>17, <1>18, <1>19, <1>20, <1>21
          DEF Next, Work, EnqueueIfNeeded, ProcessDelivery, postWebhookDeliveryRetry

LEMMA AckStep ==
  ASSUME WebhookInv, OnceInv, [Next]_vars
  PROVE  AckIsRecorded'
  <1> USE WebhookConstants, LimitIsMax
      DEF WebhookInv, TypeOK, WorkerInv, CallInv, Running, OnceInv,
          OneCarrier, Carrier, Publishes, Carried, Delivering, AckIsRecorded, tables, rows, locals, history
  <1>1. ASSUME NEW t \in Tenants, NEW h \in Hooks, patchTenantWebhook(t, h)
        PROVE  AckIsRecorded'
    BY <1>1 DEF patchTenantWebhook
  <1>2. ASSUME NEW w \in Workers, NEW e \in Events, Settle(w, e)
        PROVE  AckIsRecorded'
    BY <1>2 DEF Settle, Goto
  <1>3. ASSUME NEW w \in Workers, Announce(w)
        PROVE  AckIsRecorded'
    BY <1>3 DEF Announce, BackToLoop, Goto, Complete, HookOf
  <1>4. ASSUME NEW w \in Workers, InsertDelivery(w)
        PROVE  AckIsRecorded'
    <2>1. /\ pc[w] = "insert" /\ faults' = faults /\ acked' = acked
          /\ twice' = twice /\ Others(w)
          /\ \A e \in Events : row[e] = "succeeded" => row'[e] = "succeeded"
      <3> HIDE DEF OnceInv, OneCarrier, AckIsRecorded
      <3>1. /\ pc[w] = "insert" /\ faults' = faults
            /\ acked' = acked /\ twice' = twice
        BY <1>4 DEF InsertDelivery
      <3>2. Others(w)
        BY <1>4, InsertEffect
      <3>3. \A e \in Events : row[e] = "succeeded" => row'[e] = "succeeded"
        BY <1>4 DEF InsertDelivery
      <3> QED BY <3>1, <3>2, <3>3
    <2>2. AckIsRecorded /\ acked \subseteq Events
      OBVIOUS
    <2> HIDE DEF WebhookInv, OnceInv, OneCarrier
    <2> QED BY <2>1, <2>2 DEF Others
  <1>5. ASSUME NEW w \in Workers, PublishWebhookDelivery(w)
        PROVE  AckIsRecorded'
    BY <1>5 DEF PublishWebhookDelivery, Enqueue, BackToLoop, Goto
  <1>6. ASSUME NEW w \in Workers, NEW e \in Events, BRPopJob(w, e)
        PROVE  AckIsRecorded'
    BY <1>6 DEF BRPopJob, Dequeue, Goto
  <1>7. ASSUME NEW w \in Workers, CompleteMessage(w)
        PROVE  AckIsRecorded'
    BY <1>7 DEF CompleteMessage, Goto
  <1>8. ASSUME NEW w \in Workers, ReadDelivery(w)
        PROVE  AckIsRecorded'
    BY <1>8 DEF ReadDelivery, AfterRead, BackToLoop, Goto
  <1>9. ASSUME NEW w \in Workers, GiveUp(w)
        PROVE  AckIsRecorded'
    <2>1. /\ pc[w] = "giveup" /\ job[w] \in Events
          /\ job[w] \notin twice => OneCarrier(job[w])
      BY <1>9 DEF GiveUp
    <2>2. /\ faults' = faults /\ acked' = acked /\ twice' = twice /\ Others(w)
          /\ \A e \in Events \ {job[w]} : row'[e] = row[e]
      BY <1>9 DEF GiveUp, UpdateWhere, BackToLoop, Goto, Others
    <2>3. faults = 0 => job[w] \notin acked \ twice
      BY <2>1
    <2>4. AckIsRecorded /\ acked \subseteq Events
      OBVIOUS
    <2> HIDE DEF WebhookInv, OnceInv, OneCarrier
    <2> QED BY <2>1, <2>2, <2>3, <2>4 DEF Others
  <1>10. ASSUME NEW w \in Workers, Acknowledged(w)
        PROVE  AckIsRecorded'
    BY <1>10 DEF Acknowledged, Posted, Goto
  <1>11. ASSUME NEW w \in Workers, Rejected(w)
        PROVE  AckIsRecorded'
    BY <1>11 DEF Rejected, Posted, Goto
  <1>12. ASSUME NEW w \in Workers, MarkSucceeded(w)
        PROVE  AckIsRecorded'
    BY <1>12 DEF MarkSucceeded, UpdateWhere, BackToLoop, Goto
  <1>13. ASSUME NEW w \in Workers, CountFailure(w)
        PROVE  AckIsRecorded'
    <2>1. /\ pc[w] = "count" /\ job[w] \in Events
          /\ job[w] \notin twice => OneCarrier(job[w])
      BY <1>13, CountEffect
    <2>2. /\ faults' = faults /\ acked' = acked /\ twice' = twice /\ Others(w)
          /\ \A e \in Events \ {job[w]} : row'[e] = row[e]
      BY <1>13, CountEffect DEF history
    <2>3. faults = 0 => job[w] \notin acked \ twice
      BY <2>1
    <2>4. AckIsRecorded /\ acked \subseteq Events
      OBVIOUS
    <2> HIDE DEF WebhookInv, OnceInv, OneCarrier
    <2> QED BY <2>1, <2>2, <2>3, <2>4 DEF Others
  <1>14. ASSUME NEW w \in Workers, Fail(w)
        PROVE  AckIsRecorded'
    BY <1>14 DEF Fail, Enqueue, BackToLoop, Goto
  <1>15. ASSUME NEW c \in Callers, NEW t \in Tenants, NEW e \in Events, RetryRead(c, t, e)
        PROVE  AckIsRecorded'
    BY <1>15 DEF RetryRead
  <1>16. ASSUME NEW c \in Callers, RetryUpdate(c)
        PROVE  AckIsRecorded'
    BY <1>16 DEF RetryUpdate, UpdateWhere, Stage
  <1>17. ASSUME NEW c \in Callers, RetryPublish(c)
        PROVE  AckIsRecorded'
    BY <1>17 DEF RetryPublish, ApiPublish, Enqueue, Stage
  <1>18. ASSUME NEW c \in Callers, RetryFail(c)
        PROVE  AckIsRecorded'
    BY <1>18 DEF RetryFail, ApiPublish, Enqueue, Stage
  <1>19. CASE UNCHANGED vars
    BY <1>19 DEF vars
  <1>20. ASSUME NEW w \in Workers, Resend(w)
        PROVE  AckIsRecorded'
    BY <1>20 DEF Resend, Enqueue
  <1>21. ASSUME NEW c \in Callers, RetryResend(c)
        PROVE  AckIsRecorded'
    BY <1>21 DEF RetryResend, Enqueue
  <1> QED BY <1>1, <1>2, <1>3, <1>4, <1>5, <1>6, <1>7, <1>8, <1>9, <1>10, <1>11, <1>12, <1>13, <1>14, <1>15, <1>16, <1>17, <1>18, <1>19, <1>20, <1>21
          DEF Next, Work, EnqueueIfNeeded, ProcessDelivery, postWebhookDeliveryRetry

LEMMA OnceStep == WebhookInv /\ OnceInv /\ [Next]_vars => OnceInv'
  BY OneCarrierStep, PostsStep, AttemptStep, AckStep DEF OnceInv

LEMMA OnceStart == Init => OnceInv
  BY WebhookConstants
  DEF Init, OnceInv, OneCarrier, Carrier, Publishes, Carried,
      Delivering, PostsAreCounted, AttemptInv, AckIsRecorded

(* The merchant gets at most max_attempts POSTs of an event between two    *)
(* retries, whatever fails, unless a publish was sent again or two retry   *)
(* calls both published.                                                   *)
THEOREM PostsAreBounded == Spec => []AttemptsBounded
  <1>1. OnceInv => AttemptsBounded
    BY DEF OnceInv, PostsAreCounted, AttemptsBounded
  <1> QED BY <1>1, OnceStart, OnceStep, WebhookInvariant, PTL DEF Spec

(* Until something fails, what the merchant has acknowledged is never sent *)
(* again or dead-lettered, unless two retry calls both published it.       *)
THEOREM AcksAreRecorded == Spec => []AckIsRecorded
  <1>1. OnceInv => AckIsRecorded
    BY DEF OnceInv
  <1> QED BY <1>1, OnceStart, OnceStep, WebhookInvariant, PTL DEF Spec
=============================================================================
