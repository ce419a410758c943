------------------------------- MODULE Startup -------------------------------
(***************************************************************************)
(* How the API and the workers come up: cmd/api's main with migrate.Up,    *)
(* and cmd/worker's main as far as its first look at the outbox.  Every    *)
(* API replica runs every migration file at every start; a process that    *)
(* cannot start exits, and Kubernetes starts it again.                     *)
(*                                                                         *)
(* The SQL of a file goes to PostgreSQL in one Exec without arguments, so  *)
(* it is one transaction: all of the file or nothing.                      *)
(***************************************************************************)
EXTENDS Integers, FiniteSets

CONSTANTS Replicas,     \* pods of payflow-api
          Workers,      \* pods of payflow-worker
          MinAvailable, \* of the PodDisruptionBudget on payflow-api
          MaxFaults     \* bound on crashes, lost connections, evictions

ASSUME StartupConstants ==
    Replicas \cap Workers = {} /\ MinAvailable \in Nat /\ MaxFaults \in Nat

(* internal/migrate/sql: tenants, payments and ledger, refunds and         *)
(* webhooks, outbox.                                                       *)
Files == 1..4

(* The files whose tables a file refers to; async_outbox refers to none. *)
Needs == [f \in Files |-> CASE f = 1 -> {} [] f = 2 -> {1}
                            [] f = 3 -> {1, 2} [] f = 4 -> {}]

(* Only the last file says IF NOT EXISTS throughout. *)
Rerunnable == {4}

VARIABLES applied,    \* files whose objects are in the catalogue
          pc,         \* where each process is in its main
          step,       \* the position in Order each replica has reached
          faults

vars == <<applied, pc, step, faults>>

Processes == Replicas \cup Workers

Init == /\ applied = {}
        /\ pc      = [x \in Processes |-> "down"]
        /\ step    = [r \in Replicas |-> 1]
        /\ faults  = 0

-----------------------------------------------------------------------------
Goto(x, stage) == pc' = [pc EXCEPT ![x] = stage]

(* Mutant: the paths are sorted the other way round. *)
OrderReversed == [n \in Files |-> 5 - n]

(* sort.Strings over the embedded paths. *)
Order == [n \in Files |-> n]

File(r) == Order[step[r]]

(* os.Exit(1), or the end of the container; an open transaction is rolled  *)
(* back.                                                                   *)
Exit(r) == Goto(r, "down") /\ step' = [step EXCEPT ![r] = 1]

(* The pod is started and db.NewPool's ping is answered. *)
Start(r) ==
    /\ pc[r] = "down"
    /\ Goto(r, "migrate")
    /\ UNCHANGED <<applied, step, faults>>

(* The first object a file creates is a unique name of the catalogue, and  *)
(* ALTER TABLE locks its table: a replica waits for another one that has   *)
(* the same file open.                                                     *)
Uncontested(r) == \A q \in Replicas \ {r} : pc[q] = "exec" => File(q) # File(r)

(* The file's statements find what they refer to, and create nothing that  *)
(* is there already.                                                       *)
Applicable(f) == Needs[f] \subseteq applied /\ (f \in applied => f \in Rerunnable)

(* pool.Exec of one file: the transaction is open, or Up returns the error *)
(* and main exits.                                                         *)
Exec(r) ==
    /\ pc[r] = "migrate"
    /\ step[r] \in Files
    /\ Uncontested(r)
    /\ IF Applicable(File(r)) THEN Goto(r, "exec") /\ UNCHANGED step
                              ELSE Exit(r)
    /\ UNCHANGED <<applied, faults>>

(* Mutant: the transaction is never committed. *)
CommitFileForgotten(r) ==
    /\ pc[r] = "exec"
    /\ step' = [step EXCEPT ![r] = @ + 1]
    /\ Goto(r, "migrate")
    /\ UNCHANGED <<applied, faults>>

(* The file is in, and Up goes on to the next. *)
CommitFile(r) ==
    /\ pc[r] = "exec"
    /\ applied' = applied \cup {File(r)}
    /\ step' = [step EXCEPT ![r] = @ + 1]
    /\ Goto(r, "migrate")
    /\ UNCHANGED faults

(* Mutant: an error of Up is only logged. *)
UpReturnsEarly(r) == pc[r] = "migrate"

(* Up has returned nil: every file has been run. *)
UpReturns(r) == pc[r] = "migrate" /\ step[r] \notin Files

(* The broker's client is made, which connects to nothing yet, and the     *)
(* server listens.                                                         *)
Listen(r) ==
    /\ UpReturns(r)
    /\ Goto(r, "serve")
    /\ UNCHANGED <<applied, step, faults>>

(* SIGTERM of an eviction, a rollout or a scale-in once the handler is     *)
(* installed: Shutdown stops listening and waits for the calls in flight.  *)
Terminate(r) ==
    /\ pc[r] = "serve"
    /\ faults < MaxFaults
    /\ faults' = faults + 1
    /\ Goto(r, "drain")
    /\ UNCHANGED <<applied, step>>

(* They have been answered, or fifteen seconds are over. *)
Drained(r) ==
    /\ pc[r] = "drain"
    /\ Exit(r)
    /\ UNCHANGED <<applied, faults>>

-----------------------------------------------------------------------------
(* A worker starts and enters its loop; it runs no migration. *)
StartWorker(w) ==
    /\ pc[w] = "down"
    /\ Goto(w, "poll")
    /\ UNCHANGED <<applied, step, faults>>

(* Mutant: a worker that cannot read the outbox goes to sleep for good. *)
PollOnce(w) ==
    /\ pc[w] = "poll"
    /\ Goto(w, IF 4 \in applied THEN "work" ELSE "asleep")
    /\ UNCHANGED <<applied, step, faults>>

(* tryProcessOutbox fails until async_outbox exists; the error is logged   *)
(* and the loop goes on.                                                   *)
Poll(w) ==
    /\ pc[w] = "poll"
    /\ 4 \in applied
    /\ Goto(w, "work")
    /\ UNCHANGED <<applied, step, faults>>

(* A process dies anywhere, or cannot reach the database while it starts   *)
(* and exits.  A broker that is down stops nobody: its clients connect     *)
(* when they are first used.  Settings main refuses are taken to be right. *)
Crash(x) ==
    /\ pc[x] # "down"
    /\ faults < MaxFaults
    /\ faults' = faults + 1
    /\ IF x \in Replicas THEN Exit(x) ELSE Goto(x, "down") /\ UNCHANGED step
    /\ UNCHANGED applied

-----------------------------------------------------------------------------
(* What a replica does by itself once it has been started. *)
Boot(r)  == Start(r) \/ Exec(r) \/ CommitFile(r) \/ Listen(r) \/ Drained(r)
Join(w)  == StartWorker(w) \/ Poll(w)

Next == \/ \E r \in Replicas : Boot(r) \/ Terminate(r)
        \/ \E w \in Workers : Join(w)
        \/ \E x \in Processes : Crash(x)

Spec == Init /\ [][Next]_vars

(* Kubernetes starts a pod that is down, a process that can go on does,    *)
(* and PostgreSQL lets a waiting transaction go on when the one it waits   *)
(* for has ended.                                                          *)
FairSpec == /\ Spec
            /\ \A r \in Replicas : WF_vars(Boot(r))
            /\ \A w \in Workers : WF_vars(Join(w))

-----------------------------------------------------------------------------
Stages == {"down", "migrate", "exec", "serve", "drain", "poll", "work"}

(* Every variable keeps its type. *)
TypeOK == /\ applied \subseteq Files
          /\ pc \in [Processes -> Stages]
          /\ step \in [Replicas -> 1..5]
          /\ faults \in 0..MaxFaults

Serving == {r \in Replicas : pc[r] = "serve"}

(* A replica that serves has the whole schema under it, also when it was   *)
(* restarted, or came up while another one was in the middle of the files. *)
ServesWholeSchema == Serving # {} => applied = Files

(* A worker that finds the outbox finds every table its transactions name: *)
(* the files are applied from the first on, however replicas race and      *)
(* wherever they die.                                                      *)
WorkersFindTheirTables == (\E w \in Workers : pc[w] = "work") => applied = Files

(* Some replica has got past the first file and is still alive. *)
Leader(r) == pc[r] # "down" /\ step[r] > 1

(* However many replicas start at once, one of them comes to serve, unless *)
(* the one that had begun the files dies before that.                      *)
SomeReplicaServes ==
    <>(\/ Serving # {}
       \/ applied # {} /\ \A r \in Replicas : ~Leader(r))

(* Once the schema is there every worker comes to drain the outbox, also   *)
(* one that was started before the API or is restarted later.              *)
WorkersJoin == applied = Files ~> \A w \in Workers : pc[w] = "work"

(* The disruption budget preserves minimum availability: as long as nobody *)
(* disturbs the replicas, the minimum of them comes up and stays up.       *)
MinimumAvailable == <>[](Cardinality(Serving) >= MinAvailable)
=============================================================================
