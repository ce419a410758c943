-------------------------- MODULE SettlementProofs --------------------------
(***************************************************************************)
(* Theorems about Settlement, for any number of workers, payments and      *)
(* refunds, and about what any number of clients read of it (PaymentView). *)
(***************************************************************************)
EXTENDS PaymentView, TLAPS

(* What is said of each worker. *)
WorkerInv(w) == HasJob(w) /\ ClaimInv(w) /\ WroteInv(w) /\ ReadStillHolds(w)

(* What is said of the tables. *)
TableInv == /\ OutboxFromBirth /\ LedgerMatchesStatus
            /\ PendingIsQueued /\ NoPoisonedRefund

(* The initial state: empty tables and idle workers. *)
LEMMA SettlementStart == Init => SettlementInv
  BY SettlementConstants
  DEF Init, SettlementInv, TypeOK, HasJob, ClaimInv, WroteInv, ReadStillHolds,
      LocksExclusive, ClaimsExclusive, OutboxFromBirth, LedgerMatchesStatus,
      PendingIsQueued, NoPoisonedRefund, Holds, Claims, LockedStages, Statuses,
      Stages, Jobs

(* A new payment or refund touches no worker: its row was not there. *)
LEMMA AcceptStep ==
  ASSUME SettlementInv, (\E p \in Payments : AcceptPayment(p)) \/ (\E r \in Refunds : AcceptRefund(r))
  PROVE  SettlementInv'
  <1> USE SettlementConstants DEF SettlementInv, AcceptPayment, AcceptRefund
  <1>1. TypeOK'
    BY DEF TypeOK, Stages, LockedStages, Statuses, Jobs, AfterSettle
  <1>2. ASSUME NEW u \in Workers PROVE WorkerInv(u)'
    <2>1. HasJob(u)'
      BY DEF TypeOK, HasJob, Jobs, AfterSettle
    <2>2. ClaimInv(u)'
      BY DEF TypeOK, ClaimInv, Jobs, AfterSettle
    <2>3. WroteInv(u)'
      BY DEF TypeOK, WroteInv, AfterSettle
    <2>4. ReadStillHolds(u)'
      BY DEF TypeOK, HasJob, WroteInv, ReadStillHolds, Jobs, AfterSettle
    <2> QED BY <2>1, <2>2, <2>3, <2>4 DEF WorkerInv
  <1>3. LocksExclusive'
    BY DEF TypeOK, HasJob, LocksExclusive, Holds, LockedStages, Jobs, AfterSettle
  <1>4. ClaimsExclusive'
    BY DEF TypeOK, ClaimsExclusive, Claims, Jobs
  <1>5. TableInv'
    BY DEF TypeOK, TableInv, OutboxFromBirth, LedgerMatchesStatus, PendingIsQueued,
           NoPoisonedRefund, Jobs
  <1> QED BY <1>1, <1>2, <1>3, <1>4, <1>5 DEF WorkerInv, TableInv

(* A claim takes an outbox row nobody holds; a queue message takes no row. *)
LEMMA ClaimStep ==
  ASSUME SettlementInv, NEW w \in Workers, Claim(w) \/ PopJob(w)
  PROVE  SettlementInv'
  <1> USE SettlementConstants DEF SettlementInv, Claim, PopJob, Claimable, Goto, dbVars
  <1>1. TypeOK'
    BY DEF TypeOK, Stages, LockedStages, Statuses, Jobs, AfterSettle
  <1>2. ASSUME NEW u \in Workers PROVE WorkerInv(u)'
    <2>1. HasJob(u)'
      BY DEF TypeOK, HasJob, Jobs, AfterSettle
    <2>2. ClaimInv(u)'
      BY DEF TypeOK, ClaimInv, Jobs, AfterSettle
    <2>3. WroteInv(u)'
      BY DEF TypeOK, WroteInv, AfterSettle
    <2>4. ReadStillHolds(u)'
      BY DEF TypeOK, HasJob, WroteInv, ReadStillHolds, Jobs, AfterSettle
    <2> QED BY <2>1, <2>2, <2>3, <2>4 DEF WorkerInv
  <1>3. LocksExclusive'
    BY DEF TypeOK, HasJob, LocksExclusive, Holds, LockedStages, Jobs, AfterSettle
  <1>4. ClaimsExclusive'
    BY DEF TypeOK, ClaimsExclusive, Claims, Jobs
  <1>5. TableInv'
    BY DEF TypeOK, TableInv, OutboxFromBirth, LedgerMatchesStatus, PendingIsQueued,
           NoPoisonedRefund, Jobs
  <1> QED BY <1>1, <1>2, <1>3, <1>4, <1>5 DEF WorkerInv, TableInv

(* The row lock of the job is taken when nobody holds it. *)
LEMMA LockJobStep ==
  ASSUME SettlementInv, NEW w \in Workers, LockJob(w)
  PROVE  SettlementInv'
  <1> USE SettlementConstants DEF SettlementInv
  <1>a. /\ pc[w] = "settle" /\ job[w] \in Jobs /\ wrote[w] = {}
        /\ UNCHANGED <<dbVars, source, wrote, faults>>
        /\ \A v \in Workers : ~Holds(v, job[w])
    BY DEF LockJob, HasJob, WroteInv, Unlocked
  <1>b. \/ /\ status[job[w]] = "absent" /\ source[w] = "queue"
           /\ job' = [job EXCEPT ![w] = NoJob]
           /\ pc' = [pc EXCEPT ![w] = "commit"]
        \/ /\ status[job[w]] # "absent" /\ job[w] \in Refunds
           /\ job' = job
           /\ pc' = [pc EXCEPT ![w] = "lockpay"]
        \/ /\ status[job[w]] = "pending" /\ job[w] \in Payments
           /\ job' = job
           /\ pc' = [pc EXCEPT ![w] = "ledger"]
        \/ /\ status[job[w]] = "succeeded" /\ job[w] \in Payments
           /\ job' = job
           /\ pc' = [pc EXCEPT ![w] = IF source[w] = "outbox" THEN "mark"
                                                              ELSE "commit"]
    <2>1. status[job[w]] \in Statuses /\ source[w] \in {"outbox", "queue"}
      BY <1>a DEF TypeOK
    <2>2. status[job[w]] = "absent" => source[w] = "queue"
      BY <1>a, <2>1 DEF ClaimInv, OutboxFromBirth
    <2>3. CASE status[job[w]] = "absent"
      BY <1>a, <2>2, <2>3 DEF LockJob, Goto, AfterSettle
    <2>4. CASE status[job[w]] # "absent" /\ job[w] \in Refunds
      BY <2>4 DEF LockJob, Goto
    <2>5. CASE status[job[w]] = "pending" /\ job[w] \in Payments
      BY <2>5 DEF LockJob, Goto
    <2>6. CASE status[job[w]] = "succeeded" /\ job[w] \in Payments
      BY <2>6 DEF LockJob, Goto, AfterSettle
    <2> QED BY <1>a, <2>1, <2>3, <2>4, <2>5, <2>6 DEF Statuses, Jobs
  <1>1. TypeOK'
    BY <1>a, <1>b DEF TypeOK, Stages, LockedStages, dbVars
  <1>2. ASSUME NEW u \in Workers PROVE WorkerInv(u)'
    <2>1. HasJob(u)'
      BY <1>a, <1>b DEF TypeOK, HasJob, Jobs
    <2>2. ClaimInv(u)'
      BY <1>a, <1>b DEF TypeOK, ClaimInv, dbVars
    <2>3. WroteInv(u)'
      BY <1>a, <1>b DEF TypeOK, WroteInv
    <2>4. ReadStillHolds(u)'
      BY <1>a, <1>b DEF TypeOK, ReadStillHolds, dbVars
    <2> QED BY <2>1, <2>2, <2>3, <2>4 DEF WorkerInv
  <1>3. LocksExclusive'
    <2>1. ASSUME NEW v \in Workers, NEW x \in Jobs, v # w
          PROVE  ~(Holds(v, x)' /\ Holds(w, x)')
      <3>1. Holds(v, x)' => Holds(v, x)
        BY <1>a, <1>b, <2>1 DEF TypeOK, Holds
      <3>2. Holds(w, x)' => x = job[w]
        <4>1. pc'[w] \in LockedStages => job'[w] \notin Refunds
          BY <1>a, <1>b DEF TypeOK, LockedStages, Jobs
        <4>2. job'[w] \in {job[w], NoJob}
          BY <1>a, <1>b DEF TypeOK
        <4> QED BY <4>1, <4>2 DEF Holds, Jobs
      <3> QED BY <1>a, <3>1, <3>2
    <2>2. ASSUME NEW u \in Workers, NEW v \in Workers, NEW x \in Jobs,
                 u # v, u # w, v # w
          PROVE  ~(Holds(u, x)' /\ Holds(v, x)')
      BY <1>a, <1>b, <2>2 DEF TypeOK, LocksExclusive, Holds
    <2> QED BY <2>1, <2>2 DEF LocksExclusive
  <1>4. ClaimsExclusive'
    BY <1>a, <1>b DEF TypeOK, ClaimsExclusive, Claims
  <1>5. TableInv'
    BY <1>a DEF TableInv, OutboxFromBirth, LedgerMatchesStatus, PendingIsQueued,
           NoPoisonedRefund, dbVars
  <1> QED BY <1>1, <1>2, <1>3, <1>4, <1>5 DEF WorkerInv, TableInv

(* The row lock of a refund's payment is taken when nobody holds it. *)
LEMMA LockPaymentStep ==
  ASSUME SettlementInv, NEW w \in Workers, LockPaymentOfRefund(w)
  PROVE  SettlementInv'
  <1> USE SettlementConstants DEF SettlementInv, LockPaymentOfRefund, Unlocked, BackToLoop, Goto, dbVars
  <1>1. TypeOK'
    BY DEF TypeOK, Stages, LockedStages, Statuses, Jobs, AfterSettle
  <1>2. ASSUME NEW u \in Workers PROVE WorkerInv(u)'
    <2>1. HasJob(u)'
      BY DEF TypeOK, HasJob, Jobs, AfterSettle
    <2>2. ClaimInv(u)'
      BY DEF TypeOK, ClaimInv, Jobs, AfterSettle
    <2>3. WroteInv(u)'
      BY DEF TypeOK, WroteInv, AfterSettle
    <2>4. ReadStillHolds(u)'
      BY DEF TypeOK, Statuses, HasJob, WroteInv, ReadStillHolds, Jobs, AfterSettle
    <2> QED BY <2>1, <2>2, <2>3, <2>4 DEF WorkerInv
  <1>3. LocksExclusive'
    BY DEF TypeOK, HasJob, LocksExclusive, Holds, LockedStages, Jobs, AfterSettle
  <1>4. ClaimsExclusive'
    BY DEF TypeOK, ClaimsExclusive, Claims, Jobs
  <1>5. TableInv'
    BY DEF TypeOK, TableInv, OutboxFromBirth, LedgerMatchesStatus, PendingIsQueued,
           NoPoisonedRefund, Jobs
  <1> QED BY <1>1, <1>2, <1>3, <1>4, <1>5 DEF WorkerInv, TableInv

(* A write stays in the worker's own transaction. *)
LEMMA WriteStep ==
  ASSUME SettlementInv, NEW w \in Workers,
         AppendLedger(w) \/ UpdateStatus(w) \/ MarkProcessed(w)
  PROVE  SettlementInv'
  <1> USE SettlementConstants DEF SettlementInv, AppendLedger, UpdateStatus, MarkProcessed, Write, Goto, dbVars
  <1>1. TypeOK'
    BY DEF TypeOK, Stages, LockedStages, Statuses, Jobs, AfterSettle
  <1>2. ASSUME NEW u \in Workers PROVE WorkerInv(u)'
    <2>1. HasJob(u)'
      BY DEF TypeOK, HasJob, Jobs, AfterSettle
    <2>2. ClaimInv(u)'
      BY DEF TypeOK, ClaimInv, Jobs, AfterSettle
    <2>3. WroteInv(u)'
      BY DEF TypeOK, HasJob, WroteInv, AfterSettle
    <2>4. ReadStillHolds(u)'
      BY DEF TypeOK, HasJob, WroteInv, ReadStillHolds, Jobs, AfterSettle
    <2> QED BY <2>1, <2>2, <2>3, <2>4 DEF WorkerInv
  <1>3. LocksExclusive'
    BY DEF TypeOK, HasJob, LocksExclusive, Holds, LockedStages, Jobs, AfterSettle
  <1>4. ClaimsExclusive'
    BY DEF TypeOK, ClaimsExclusive, Claims, Jobs
  <1>5. TableInv'
    BY DEF TypeOK, TableInv, OutboxFromBirth, LedgerMatchesStatus, PendingIsQueued,
           NoPoisonedRefund, Jobs
  <1> QED BY <1>1, <1>2, <1>3, <1>4, <1>5 DEF WorkerInv, TableInv

(* A commit settles the job and marks its outbox row in one step; the locks *)
(* keep every other worker off both.                                       *)
LEMMA CommitStep ==
  ASSUME SettlementInv, NEW w \in Workers, Commit(w)
  PROVE  SettlementInv'
  <1> USE SettlementConstants DEF SettlementInv
  <1> DEFINE j == job[w]
  <1>a. /\ pc[w] = "commit"
        /\ pc' = [pc EXCEPT ![w] = "loop"]
        /\ job' = [job EXCEPT ![w] = NoJob]
        /\ source' = [source EXCEPT ![w] = "outbox"]
        /\ wrote' = [wrote EXCEPT ![w] = {}]
        /\ UNCHANGED <<stamp, faults>>
    BY DEF Commit, Publish, BackToLoop, Goto
  <1>b. \/ wrote[w] = {} /\ UNCHANGED <<status, settled, outbox>>
        \/ /\ j \in Jobs /\ "status" \in wrote[w] /\ status[j] = "pending"
           /\ status' = [status EXCEPT ![j] = "succeeded"]
           /\ settled' = settled \cup {j}
           /\ \/ /\ source[w] = "outbox"
                 /\ outbox' = [outbox EXCEPT ![j] = "processed"]
              \/ outbox' = outbox
        \/ /\ j \in Jobs /\ "status" \notin wrote[w] /\ status[j] = "succeeded"
           /\ UNCHANGED <<status, settled>>
           /\ \/ /\ source[w] = "outbox"
                 /\ outbox' = [outbox EXCEPT ![j] = "processed"]
              \/ outbox' = outbox
    BY <1>a DEF Commit, Publish, HasJob, WroteInv, ReadStillHolds
  <1> HIDE DEF j
  <1>1. TypeOK'
    BY <1>a, <1>b DEF TypeOK, Stages, Statuses
  <1>c. ASSUME NEW u \in Workers, u # w
        PROVE  /\ pc'[u] = pc[u] /\ job'[u] = job[u] /\ source'[u] = source[u]
               /\ wrote'[u] = wrote[u]
    BY <1>a, <1>c DEF TypeOK
  <1>2. ASSUME NEW u \in Workers PROVE WorkerInv(u)'
    <2>1. CASE u = w
      BY <2>1, <1>a DEF WorkerInv, TypeOK, HasJob, ClaimInv, WroteInv,
             ReadStillHolds
    <2>2. CASE u # w
      <3> USE <1>c, <2>2
      <3>1. HasJob(u)'
        BY DEF HasJob
      <3>2. ClaimInv(u)'
        <4>1. pc[u] # "loop" /\ source[u] = "outbox" /\ source[w] = "outbox"
                /\ j \in Jobs => job[u] # j
          BY <1>a DEF ClaimInv, ClaimsExclusive, Claims, j
        <4> QED BY <1>b, <4>1 DEF ClaimInv, TypeOK
      <3>3. WroteInv(u)'
        BY DEF WroteInv
      <3>4. ReadStillHolds(u)'
        <4>1. pc[u] \in {"lockpay"} \cup LockedStages /\ job[u] \in Jobs
                => Holds(u, job[u])
          BY DEF Holds
        <4>2. j \in Jobs => Holds(w, j)
          BY <1>a DEF Holds, LockedStages, j
        <4>3. pc[u] \in {"lockpay"} \cup LockedStages /\ job[u] \in Jobs
                /\ j \in Jobs => job[u] # j
          BY <4>1, <4>2 DEF LocksExclusive
        <4>4. pc[u] \in {"lockpay", "ledger", "update"} => job[u] \in Jobs
          BY DEF HasJob
        <4> QED BY <1>b, <4>3, <4>4 DEF ReadStillHolds, LockedStages, TypeOK
      <3> QED BY <3>1, <3>2, <3>3, <3>4 DEF WorkerInv
    <2> QED BY <2>1, <2>2
  <1>3. LocksExclusive'
    <2>1. \A x \in Jobs : ~Holds(w, x)'
      BY <1>a DEF TypeOK, Holds, LockedStages
    <2>2. \A u \in Workers \ {w} : \A x \in Jobs : Holds(u, x)' => Holds(u, x)
      BY <1>c DEF Holds
    <2> QED BY <2>1, <2>2 DEF LocksExclusive
  <1>4. ClaimsExclusive'
    BY <1>a DEF TypeOK, ClaimsExclusive, Claims
  <1>5. TableInv'
    BY <1>b DEF TypeOK, TableInv, OutboxFromBirth, LedgerMatchesStatus,
           PendingIsQueued, NoPoisonedRefund, Jobs, Statuses
  <1> QED BY <1>1, <1>2, <1>3, <1>4, <1>5 DEF WorkerInv, TableInv

(* A rollback leaves the tables and every other worker as they were. *)
LEMMA RollbackStep ==
  ASSUME SettlementInv, NEW w \in Workers, Rollback(w)
  PROVE  SettlementInv'
  <1> USE SettlementConstants DEF SettlementInv, Rollback, BackToLoop, Goto, dbVars
  <1>1. TypeOK'
    BY DEF TypeOK, Stages, LockedStages, Statuses, Jobs, AfterSettle
  <1>2. ASSUME NEW u \in Workers PROVE WorkerInv(u)'
    <2>1. HasJob(u)'
      BY DEF TypeOK, HasJob, Jobs, AfterSettle
    <2>2. ClaimInv(u)'
      BY DEF TypeOK, ClaimInv, Jobs, AfterSettle
    <2>3. WroteInv(u)'
      BY DEF TypeOK, WroteInv, AfterSettle
    <2>4. ReadStillHolds(u)'
      BY DEF TypeOK, HasJob, WroteInv, ReadStillHolds, Jobs, AfterSettle
    <2> QED BY <2>1, <2>2, <2>3, <2>4 DEF WorkerInv
  <1>3. LocksExclusive'
    BY DEF TypeOK, HasJob, LocksExclusive, Holds, LockedStages, Jobs, AfterSettle
  <1>4. ClaimsExclusive'
    BY DEF TypeOK, ClaimsExclusive, Claims, Jobs
  <1>5. TableInv'
    BY DEF TypeOK, TableInv, OutboxFromBirth, LedgerMatchesStatus, PendingIsQueued,
           NoPoisonedRefund, Jobs
  <1> QED BY <1>1, <1>2, <1>3, <1>4, <1>5 DEF WorkerInv, TableInv

(* Every step keeps the invariant. *)
LEMMA SettlementStep == SettlementInv /\ [Next]_vars => SettlementInv'
  <1>1. ASSUME SettlementInv, UNCHANGED vars PROVE SettlementInv'
    BY <1>1
    DEF SettlementInv, vars, TypeOK, HasJob, ClaimInv, WroteInv, ReadStillHolds,
        LocksExclusive, ClaimsExclusive, OutboxFromBirth, LedgerMatchesStatus,
        PendingIsQueued, NoPoisonedRefund, Holds, Claims
  <1> QED BY <1>1, AcceptStep, ClaimStep, LockJobStep, LockPaymentStep, WriteStep,
             CommitStep, RollbackStep
          DEF Next, Work, Lock

(* The inductive invariant holds throughout. *)
THEOREM SettlementInvariant == Spec => []SettlementInv
  BY SettlementStart, SettlementStep, PTL DEF Spec

(* Every variable of the workers' model keeps its type. *)
THEOREM SettlementTypes == Spec => []TypeOK
  <1>1. SettlementInv => TypeOK
    BY DEF SettlementInv
  <1> QED BY <1>1, SettlementInvariant, PTL

(* With any number of workers and failures, the ledger has a settlement    *)
(* event for exactly the jobs that have succeeded.                         *)
THEOREM LedgerExplainsStatus == Spec => []LedgerMatchesStatus
  <1>1. SettlementInv => LedgerMatchesStatus
    BY DEF SettlementInv
  <1> QED BY <1>1, SettlementInvariant, PTL

(* A pending job always has an unprocessed outbox row: no work is lost. *)
THEOREM NoLostWork == Spec => []PendingIsQueued
  <1>1. SettlementInv => PendingIsQueued
    BY DEF SettlementInv
  <1> QED BY <1>1, SettlementInvariant, PTL

(* Each step of a worker is invisible to merchants or settles one job. *)
THEOREM SettlementFollowsLifecycle == Spec => FollowsLifecycle
  <1>1. Init => Merchant!Init
    BY DEF Init, Merchant!Init, Jobs, Merchant!Jobs
  <1>2. SettlementInv /\ [Next]_vars => [Merchant!Next]_status
    <2> SUFFICES ASSUME SettlementInv, [Next]_vars, status' # status
                 PROVE  Merchant!Next
      OBVIOUS
    <2>1. ASSUME NEW p \in Payments, AcceptPayment(p) PROVE Merchant!Next
      BY <2>1 DEF AcceptPayment, Merchant!Next, Merchant!AcceptPayment, Merchant!Move
    <2>2. ASSUME NEW r \in Refunds, AcceptRefund(r) PROVE Merchant!Next
      BY <2>2 DEF AcceptRefund, Merchant!Next, Merchant!AcceptRefund, Merchant!Move
    <2>3. ASSUME NEW w \in Workers, Commit(w) PROVE Merchant!Next
      <3>1. /\ "status" \in wrote[w] /\ status[job[w]] = "pending"
            /\ status' = [status EXCEPT ![job[w]] = "succeeded"]
        BY <2>3 DEF Commit, Publish
      <3>2. job[w] \in Jobs
        BY <2>3, <3>1 DEF SettlementInv, HasJob, Commit
      <3> QED BY <3>1, <3>2
              DEF Merchant!Next, Merchant!Settle, Merchant!Move, Merchant!Jobs, Jobs
    <2>4. ASSUME NEW w \in Workers,
                 \/ Claim(w) \/ PopJob(w) \/ Lock(w) \/ Rollback(w)
                 \/ AppendLedger(w) \/ UpdateStatus(w) \/ MarkProcessed(w)
          PROVE  status' = status
      BY <2>4 DEF Claim, PopJob, Lock, LockJob, LockPaymentOfRefund, Rollback,
                  AppendLedger, UpdateStatus, MarkProcessed, Write, dbVars
    <2> QED BY <2>1, <2>2, <2>3, <2>4 DEF Next, Work, vars
  <1> QED BY <1>1, <1>2, SettlementInvariant, PTL
         DEF Spec, FollowsLifecycle, Merchant!Spec

-----------------------------------------------------------------------------
(* Worker w waits for a row lock that v holds. *)
WaitsFor(w, v) ==
    \/ pc[w] = "settle" /\ Holds(v, job[w])
    \/ pc[w] = "lockpay" /\ Holds(v, PaymentOf[job[w]])

(* No deadlock, however many workers, left-over messages and refunds of    *)
(* one payment meet: behind every open transaction, at most two waits      *)
(* away, is one that waits for nobody.                                     *)
WorkersGoOn ==
    \A w \in Workers : pc[w] # "loop" =>
        \E v \in Workers :
            /\ pc[v] # "loop" /\ \A u \in Workers : ~WaitsFor(v, u)
            /\ \/ v = w \/ WaitsFor(w, v)
               \/ \E u \in Workers : WaitsFor(w, u) /\ WaitsFor(u, v)

(* SettleMockTx locks a refund's row before its payment's and nothing      *)
(* after that, so workers never wait for each other in a circle.           *)
THEOREM WorkersNeverDeadlock == Spec => []WorkersGoOn
  <1>1. SettlementInv => WorkersGoOn
    <2> SUFFICES ASSUME SettlementInv, NEW w \in Workers, pc[w] # "loop"
                 PROVE  \E v \in Workers :
                          /\ pc[v] # "loop" /\ \A u \in Workers : ~WaitsFor(v, u)
                          /\ \/ v = w \/ WaitsFor(w, v)
                             \/ \E u \in Workers : WaitsFor(w, u) /\ WaitsFor(u, v)
      BY DEF WorkersGoOn
    <2>1. ASSUME NEW v \in Workers, NEW u \in Workers, pc[v] = "lockpay", WaitsFor(v, u)
          PROVE  pc[u] \in LockedStages
      <3>1. job[v] \in Refunds /\ PaymentOf[job[v]] \in Payments
        BY <2>1, SettlementConstants DEF SettlementInv, HasJob
      <3>2. Holds(u, PaymentOf[job[v]])
        BY <2>1 DEF WaitsFor
      <3> QED BY <3>1, <3>2, SettlementConstants DEF Holds, SettlementInv, HasJob
    <2>2. ASSUME NEW v \in Workers, pc[v] \in LockedStages
          PROVE  pc[v] # "loop" /\ \A u \in Workers : ~WaitsFor(v, u)
      BY <2>2 DEF LockedStages, WaitsFor
    <2>3. ASSUME NEW v \in Workers, NEW u \in Workers, pc[v] = "settle", WaitsFor(v, u)
          PROVE  pc[u] \in LockedStages \cup {"lockpay"}
      BY <2>3 DEF WaitsFor, Holds
    <2>4. ASSUME NEW v \in Workers, pc[v] = "lockpay"
          PROVE  \E u \in Workers :
                   /\ pc[u] # "loop" /\ \A x \in Workers : ~WaitsFor(u, x)
                   /\ u = v \/ WaitsFor(v, u)
      BY <2>1, <2>2, <2>4
    <2>5. CASE pc[w] = "settle"
      <3>1. CASE \A u \in Workers : ~WaitsFor(w, u)
        BY <3>1
      <3>2. ASSUME NEW u \in Workers, WaitsFor(w, u)
            PROVE  \E v \in Workers :
                     /\ pc[v] # "loop" /\ \A x \in Workers : ~WaitsFor(v, x)
                     /\ v = u \/ WaitsFor(u, v)
        BY <2>2, <2>3, <2>4, <2>5, <3>2
      <3> QED BY <3>1, <3>2
    <2>6. CASE pc[w] = "lockpay"
      BY <2>4, <2>6
    <2>7. CASE pc[w] \notin {"settle", "lockpay"}
      BY <2>7 DEF WaitsFor
    <2> QED BY <2>5, <2>6, <2>7
  <1> QED BY <1>1, SettlementInvariant, PTL

-----------------------------------------------------------------------------
(* What a client has been told of refunds is still so. *)
ToldInv(c) ==
    \A r \in Refunds :
        /\ told[c][r] # "absent" => status[r] # "absent"
        /\ told[c][r] = "succeeded" => r \in settled

(* The row a getPayment has read: a payment that had succeeded still has,  *)
(* and it had if the client knew of a refund of it before.                 *)
HeldInv(c) ==
    /\ at[c] # NoJob /\ held[c] = "succeeded" => at[c] \in settled
    /\ \A r \in Refunds :
          at[c] = PaymentOf[r] /\ told[c][r] # "absent" => held[c] = "succeeded"

ViewTypes == /\ at \in [Clients -> Payments \cup {NoJob}]
             /\ held \in [Clients -> Statuses]
             /\ told \in [Clients -> [Refunds -> Statuses]]

(* The inductive invariant of the readers. *)
ViewInv == /\ SettlementInv /\ ViewTypes
           /\ \A c \in Clients : ToldInv(c) /\ HeldInv(c)
           /\ AnswerIsExplained /\ AnswersAgree

(* Settlement takes nothing back: what exists stays, what is settled stays *)
(* settled.                                                                *)
LEMMA NothingUnsettled ==
  ASSUME SettlementInv, [Next]_vars
  PROVE  /\ settled \subseteq settled'
         /\ \A j \in Jobs : status[j] # "absent" => status'[j] # "absent"
  <1> USE DEF SettlementInv, TypeOK
  <1>1. ASSUME NEW p \in Payments, AcceptPayment(p)
        PROVE  /\ settled \subseteq settled'
               /\ \A j \in Jobs : status[j] # "absent" => status'[j] # "absent"
    BY <1>1 DEF AcceptPayment
  <1>2. ASSUME NEW r \in Refunds, AcceptRefund(r)
        PROVE  /\ settled \subseteq settled'
               /\ \A j \in Jobs : status[j] # "absent" => status'[j] # "absent"
    BY <1>2 DEF AcceptRefund
  <1>3. ASSUME NEW w \in Workers, Commit(w)
        PROVE  /\ settled \subseteq settled'
               /\ \A j \in Jobs : status[j] # "absent" => status'[j] # "absent"
    BY <1>3 DEF Commit, Publish
  <1>4. ASSUME NEW w \in Workers,
               \/ Claim(w) \/ PopJob(w) \/ Lock(w) \/ Rollback(w)
               \/ AppendLedger(w) \/ UpdateStatus(w) \/ MarkProcessed(w)
        PROVE  UNCHANGED <<status, settled>>
    BY <1>4 DEF Claim, PopJob, Lock, LockJob, LockPaymentOfRefund, Rollback,
                AppendLedger, UpdateStatus, MarkProcessed, Write, dbVars
  <1> QED BY <1>1, <1>2, <1>3, <1>4 DEF Next, Work, vars

LEMMA ViewStart == ViewInit => ViewInv
  BY SettlementStart, SettlementConstants
  DEF ViewInit, ViewInv, ViewTypes, ToldInv, HeldInv, AnswerIsExplained,
      AnswersAgree, NothingTold, NoAnswer, Statuses, Jobs

(* A step of the workers or the API under the readers' noses. *)
LEMMA UnderneathStep ==
  ASSUME ViewInv, [Next]_vars, UNCHANGED <<at, held, told>>,
         UNCHANGED answer \/ Silent
  PROVE  ViewInv'
  <1>1. SettlementInv' /\ ViewTypes'
    BY SettlementStep DEF ViewInv, ViewTypes
  <1>2. \A c \in Clients : ToldInv(c)' /\ HeldInv(c)'
    BY NothingUnsettled DEF ViewInv, ToldInv, HeldInv, Jobs
  <1>3. AnswerIsExplained' /\ AnswersAgree'
    BY DEF ViewInv, AnswerIsExplained, AnswersAgree, Silent, NoAnswer, NothingTold
  <1> QED BY <1>1, <1>2, <1>3 DEF ViewInv

(* A step that only reads. *)
LEMMA ReadStep ==
  ASSUME ViewInv, NEW c \in Clients, Get(c)
  PROVE  ViewInv'
  <1>0. SettlementInv'
    <2>1. UNCHANGED vars
      BY DEF Get, GetPayment, ListByPayment, GetFails, Respond, getRefund
    <2> QED BY <2>1, SettlementStep DEF ViewInv
  <1> USE SettlementConstants DEF ViewInv, ViewTypes, ToldInv, HeldInv
  <1>1. ASSUME NEW p \in Payments, GetPayment(c, p)
        PROVE  ViewInv'
    <2>1. status[p] \in Statuses /\ UNCHANGED <<vars, told>>
          /\ at' = [at EXCEPT ![c] = p] /\ held' = [held EXCEPT ![c] = status[p]]
      BY <1>1 DEF GetPayment, SettlementInv, TypeOK, Jobs
    <2>2. status[p] = "succeeded" => p \in settled
      BY DEF SettlementInv, LedgerMatchesStatus, Jobs
    <2>3. \A r \in Refunds : PaymentOf[r] = p /\ told[c][r] # "absent" =>
                             status[p] = "succeeded"
      BY DEF SettlementInv, NoPoisonedRefund
    <2>4. ASSUME NEW d \in Clients PROVE ToldInv(d)' /\ HeldInv(d)'
      BY <2>1, <2>2, <2>3 DEF vars
    <2>5. AnswerIsExplained' /\ AnswersAgree'
      BY <1>1 DEF GetPayment, Silent, AnswerIsExplained, AnswersAgree, NoAnswer,
                  NothingTold
    <2> QED BY <1>0, <2>1, <2>4, <2>5
  <1>2. ASSUME Respond(c)
        PROVE  ViewTypes' /\ \A d \in Clients : ToldInv(d)' /\ HeldInv(d)'
    BY <1>2 DEF Respond, NothingTold, Statuses, vars, Jobs
  <1>3. ASSUME ListByPayment(c)
        PROVE  ViewInv'
    <2>1. at[c] \in Payments /\ Respond(c)
      BY <1>3 DEF ListByPayment, Respond
    <2>2. held[c] = "succeeded" \/ EventsOf(at[c]) # {} => at[c] \in EventsOf(at[c])
      <3>1. ASSUME NEW r \in Refunds, r \in settled, PaymentOf[r] = at[c]
            PROVE  at[c] \in settled
        BY <2>1, <3>1 DEF SettlementInv, LedgerMatchesStatus, NoPoisonedRefund, Jobs
      <3>2. EventsOf(at[c]) # {} => at[c] \in settled
        BY <3>1 DEF EventsOf
      <3>3. held[c] = "succeeded" => at[c] \in settled
        BY <2>1 DEF Jobs
      <3>4. at[c] \in settled => at[c] \in EventsOf(at[c])
        BY DEF EventsOf
      <3> QED BY <3>2, <3>3, <3>4
    <2>3. \A d \in Clients :
            answer'[d] = IF d # c THEN NoAnswer
                         ELSE [of |-> at[c], status |-> held[c],
                               events |-> EventsOf(at[c]), before |-> told[c]]
      BY <1>3 DEF ListByPayment, Answer
    <2>4. AnswerIsExplained'
      BY <2>2, <2>3 DEF AnswerIsExplained, NoAnswer
    <2>5. \A r \in Refunds : at[c] = PaymentOf[r] /\ told[c][r] # "absent" =>
            /\ held[c] = "succeeded"
            /\ told[c][r] = "succeeded" => r \in EventsOf(at[c])
      BY DEF EventsOf
    <2>6. AnswersAgree'
      BY <2>3, <2>5 DEF AnswersAgree, NoAnswer, NothingTold
    <2> QED BY <1>0, <1>2, <2>1, <2>4, <2>6
  <1>4. ASSUME GetFails(c)
        PROVE  ViewInv'
    <2>1. AnswerIsExplained' /\ AnswersAgree'
      BY <1>4 DEF GetFails, Silent, AnswerIsExplained, AnswersAgree, NoAnswer,
                  NothingTold
    <2> QED BY <1>0, <1>2, <1>4, <2>1 DEF GetFails
  <1>5. ASSUME NEW r \in Refunds, getRefund(c, r)
        PROVE  ViewInv'
    <2>1. PICK s \in Statuses : /\ told' = [told EXCEPT ![c][r] = s]
                                /\ s # "absent" => s = status[r]
      BY <1>5 DEF getRefund, Visible, SettlementInv, TypeOK, Jobs, Statuses
    <2>2. at[c] = NoJob /\ UNCHANGED <<vars, at, held>>
      BY <1>5 DEF getRefund
    <2>3. ViewTypes'
      BY <2>1, <2>2
    <2>4. s = "succeeded" => r \in settled
      BY <2>1 DEF SettlementInv, LedgerMatchesStatus, Jobs
    <2>5. ASSUME NEW d \in Clients PROVE ToldInv(d)' /\ HeldInv(d)'
      BY <2>1, <2>2, <2>4 DEF vars, Jobs
    <2>6. AnswerIsExplained' /\ AnswersAgree'
      BY <1>5 DEF getRefund, Silent, AnswerIsExplained, AnswersAgree, NoAnswer,
                  NothingTold
    <2> QED BY <1>0, <2>3, <2>5, <2>6
  <1> QED BY <1>1, <1>3, <1>4, <1>5 DEF Get

LEMMA ViewStep == ViewInv /\ [ViewNext]_allVars => ViewInv'
  BY UnderneathStep, ReadStep DEF ViewNext, allVars, viewVars

(* The readers' inductive invariant holds throughout. *)
THEOREM ViewInvariant == ViewSpec => []ViewInv
  BY ViewStart, ViewStep, PTL DEF ViewSpec

(* Of two SELECTs with settlements in between, any number of clients get   *)
(* answers whose ledger is never behind the status beside it.              *)
THEOREM AnswersExplained == ViewSpec => []AnswerIsExplained
  <1>1. ViewInv => AnswerIsExplained
    BY DEF ViewInv
  <1> QED BY <1>1, ViewInvariant, PTL

(* What a client has learnt of a refund holds in what it is told of the    *)
(* payment next, whatever settles between its requests.                    *)
THEOREM EndpointsAgree == ViewSpec => []AnswersAgree
  <1>1. ViewInv => AnswersAgree
    BY DEF ViewInv
  <1> QED BY <1>1, ViewInvariant, PTL
=============================================================================
