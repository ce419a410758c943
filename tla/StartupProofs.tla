---------------------------- MODULE StartupProofs ----------------------------
(***************************************************************************)
(* Theorems about Startup, for any number of replicas, workers, crashes    *)
(* and evictions.                                                          *)
(***************************************************************************)
EXTENDS Startup, TLAPS

(* The files are applied from the first on. *)
IsPrefix == \A f \in applied : \A g \in Files : g < f => g \in applied

(* Where a replica is tells how many files are applied at least.  The file *)
(* it has open, unless it may be run again, nobody has applied.            *)
Position(r) ==
    /\ pc[r] \in {"down", "migrate", "exec", "serve", "drain"}
    /\ \A f \in Files : f < step[r] => f \in applied
    /\ pc[r] = "down" => step[r] = 1
    /\ pc[r] = "exec" => /\ step[r] \in Files
                         /\ step[r] \in applied => step[r] \in Rerunnable
    /\ pc[r] \in {"serve", "drain"} => step[r] = 5

(* A worker that works has found the last file. *)
Joined(w) == pc[w] = "work" => 4 \in applied

(* Only one replica gets past the first file, and only one runs it. *)
OneLeader ==
    \A q, r \in Replicas :
        (step[q] > 1 \/ pc[q] = "exec") /\ (step[r] > 1 \/ pc[r] = "exec")
            => q = r

(* The inductive invariant. *)
StartupInv == /\ TypeOK /\ IsPrefix /\ OneLeader
              /\ \A r \in Replicas : Position(r)
              /\ \A w \in Workers : Joined(w)

LEMMA StartupStart == Init => StartupInv
  BY StartupConstants
  DEF Init, StartupInv, TypeOK, IsPrefix, OneLeader, Position, Joined,
      Processes, Stages, Files

LEMMA OrderIsIdentity == \A n \in Files : Order[n] = n
  BY DEF Order, Files

LEMMA StartupStep == StartupInv /\ [Next]_vars => StartupInv'
  <1> SUFFICES ASSUME StartupInv, [Next]_vars PROVE StartupInv'
    OBVIOUS
  <1> USE StartupConstants
      DEF StartupInv, TypeOK, IsPrefix, OneLeader, Position, Joined, Processes,
          Stages, Files, Goto, Rerunnable
  <1>1. ASSUME NEW r \in Replicas, Start(r) PROVE StartupInv'
    BY <1>1 DEF Start
  <1>2. ASSUME NEW r \in Replicas, Exec(r) PROVE StartupInv'
    <2>1. File(r) = step[r] /\ step[r] \in Files
      BY <1>2, OrderIsIdentity DEF Exec, File
    <2>2. CASE Applicable(File(r))
      <3>1. /\ pc[r] = "migrate" /\ pc' = [pc EXCEPT ![r] = "exec"]
            /\ UNCHANGED <<applied, step, faults>>
            /\ step[r] \in applied => step[r] \in Rerunnable
        BY <1>2, <2>1, <2>2 DEF Exec, Applicable
      <3>2. OneLeader'
        <4>1. ASSUME NEW q \in Replicas, q # r, step[q] > 1 \/ pc[q] = "exec"
              PROVE  step[r] > 1
          <5>1. CASE step[q] > 1
            BY <2>1, <3>1, <4>1, <5>1
          <5>2. CASE step[q] = 1
            BY <1>2, <2>1, <4>1, <5>2, OrderIsIdentity
            DEF Exec, Uncontested, File
          <5> QED BY <5>1, <5>2
        <4> QED BY <3>1, <4>1
      <3> QED BY <2>1, <3>1, <3>2
    <2>3. CASE ~Applicable(File(r))
      BY <1>2, <2>3 DEF Exec, Exit
    <2> QED BY <2>2, <2>3
  <1>3. ASSUME NEW r \in Replicas, CommitFile(r) PROVE StartupInv'
    <2>1. /\ pc[r] = "exec" /\ applied' = applied \cup {step[r]}
          /\ pc' = [pc EXCEPT ![r] = "migrate"]
          /\ step' = [step EXCEPT ![r] = @ + 1]
          /\ UNCHANGED faults
      BY <1>3, OrderIsIdentity DEF CommitFile, File
    <2>a. step[r] \in Files /\ \A f \in Files : f < step[r] => f \in applied
      BY <2>1
    <2>2. TypeOK' /\ IsPrefix'
      <3>1. TypeOK'
        <4>1. (applied \subseteq Files)'
          BY <2>1, <2>a
        <4>2. (pc \in [Processes -> Stages])'
          BY <2>1
        <4>3. (step \in [Replicas -> 1..5])'
          BY <2>1, <2>a
        <4> QED BY <2>1, <4>1, <4>2, <4>3
      <3>2. ASSUME NEW f \in applied', NEW g \in Files, g < f
            PROVE  g \in applied'
        BY <2>1, <2>a, <3>2
      <3> QED BY <3>1, <3>2
    <2>3. OneLeader'
      BY <2>1
    <2>4. ASSUME NEW q \in Replicas PROVE Position(q)'
      <3>1. CASE q = r
        BY <2>1, <3>1
      <3>2. CASE q # r
        <4>1. step[q] = 1 /\ pc[q] # "exec"
          BY <2>1, <3>2
        <4> QED BY <2>1, <3>2, <4>1
      <3> QED BY <3>1, <3>2
    <2>5. \A w \in Workers : Joined(w)'
      BY <2>1
    <2> QED BY <2>2, <2>3, <2>4, <2>5
  <1>4. ASSUME NEW r \in Replicas, Listen(r) PROVE StartupInv'
    BY <1>4 DEF Listen, UpReturns
  <1>5. ASSUME NEW r \in Replicas, Terminate(r) PROVE StartupInv'
    BY <1>5 DEF Terminate
  <1>6. ASSUME NEW r \in Replicas, Drained(r) PROVE StartupInv'
    BY <1>6 DEF Drained, Exit
  <1>7. ASSUME NEW w \in Workers, Join(w) PROVE StartupInv'
    BY <1>7 DEF Join, StartWorker, Poll
  <1>8. ASSUME NEW x \in Processes, Crash(x) PROVE StartupInv'
    <2>1. CASE x \in Replicas
      BY <1>8, <2>1 DEF Crash, Exit
    <2>2. CASE x \notin Replicas
      BY <1>8, <2>2 DEF Crash
    <2> QED BY <2>1, <2>2
  <1>9. CASE UNCHANGED vars
    BY <1>9 DEF vars
  <1> QED BY <1>1, <1>2, <1>3, <1>4, <1>5, <1>6, <1>7, <1>8, <1>9
          DEF Next, Boot

(* The inductive invariant holds throughout. *)
THEOREM StartupInvariant == Spec => []StartupInv
  BY StartupStart, StartupStep, PTL DEF Spec

(* Every variable of the start-up keeps its type. *)
THEOREM StartupTypes == Spec => []TypeOK
  <1>1. StartupInv => TypeOK
    BY DEF StartupInv
  <1> QED BY <1>1, StartupInvariant, PTL

(* However many replicas race through the files and wherever they die, a   *)
(* replica serves only on the whole schema.                                *)
THEOREM ServedSchemaIsWhole == Spec => []ServesWholeSchema
  <1>1. StartupInv => ServesWholeSchema
    <2> SUFFICES ASSUME StartupInv, NEW r \in Replicas, pc[r] = "serve"
                 PROVE  applied = Files
      BY DEF ServesWholeSchema, Serving
    <2>1. \A f \in Files : f \in applied
      BY DEF StartupInv, Position, Files
    <2> QED BY <2>1 DEF StartupInv, TypeOK
  <1> QED BY <1>1, StartupInvariant, PTL

(* A worker that has found the outbox finds every other table, too. *)
THEOREM WorkersFindEverything == Spec => []WorkersFindTheirTables
  <1>1. StartupInv => WorkersFindTheirTables
    <2> SUFFICES ASSUME StartupInv, NEW w \in Workers, pc[w] = "work"
                 PROVE  applied = Files
      BY DEF WorkersFindTheirTables
    <2>1. 4 \in applied
      BY DEF StartupInv, Joined
    <2>2. \A f \in Files : f \in applied
      <3> SUFFICES ASSUME NEW f \in Files PROVE f \in applied
        OBVIOUS
      <3>1. f = 4 \/ f < 4
        BY DEF Files
      <3> QED BY <2>1, <3>1 DEF StartupInv, IsPrefix
    <2> QED BY <2>2 DEF StartupInv, TypeOK
  <1> QED BY <1>1, StartupInvariant, PTL

(* Up has no record of what it has applied: of any number of replicas one  *)
(* at a time serves, whatever budget the manifests ask for.                *)
THEOREM OneReplicaAtMost ==
  Spec => [](\A q, r \in Serving : q = r)
  <1>1. StartupInv => \A q, r \in Serving : q = r
    BY DEF StartupInv, OneLeader, Position, Serving
  <1> QED BY <1>1, StartupInvariant, PTL

-----------------------------------------------------------------------------
(* The files have been begun, and whoever began them is gone. *)
Outage == applied # {} /\ \A r \in Replicas : ~Leader(r)

(* Without a leader everyone is before the first file, which is applied    *)
(* and cannot be run again.                                                *)
LEMMA EveryoneAtTheStart ==
  ASSUME StartupInv, Outage, NEW r \in Replicas
  PROVE  1 \in applied /\ step[r] = 1 /\ pc[r] \in {"down", "migrate"}
  <1>1. 1 \in applied
    <2>1. PICK f \in applied : TRUE
      BY DEF Outage
    <2>2. f \in Files /\ 1 \in Files /\ (f = 1 \/ 1 < f)
      BY DEF StartupInv, TypeOK, Files
    <2> QED BY <2>2 DEF StartupInv, IsPrefix
  <1>2. step[r] = 1
    BY DEF StartupInv, TypeOK, Position, Outage, Leader
  <1> QED BY <1>1, <1>2 DEF StartupInv, Position, Rerunnable, Files

(* The outage is final: restarts, however many, do not end it, and nobody  *)
(* serves while it lasts.  A replica that had applied the files and is     *)
(* restarted leaves the service down until someone repairs the database.   *)
THEOREM OutageIsFinal ==
  Spec => /\ [][Outage => Outage']_vars
          /\ [](Outage => Serving = {})
  <1>1. StartupInv /\ [Next]_vars => (Outage => Outage')
    <2> SUFFICES ASSUME StartupInv, [Next]_vars, Outage
                 PROVE  applied' # {} /\ \A q \in Replicas : step'[q] = 1
      BY DEF Outage, Leader
    <2>t. /\ step \in [Replicas -> 1..5] /\ applied # {}
          /\ \A q \in Replicas : step[q] = 1 /\ pc[q] \in {"down", "migrate"}
      BY EveryoneAtTheStart DEF StartupInv, TypeOK, Outage
    <2>1. ASSUME NEW r \in Replicas, Boot(r) \/ Terminate(r)
          PROVE  applied' = applied /\ \A q \in Replicas : step'[q] = 1
      <3>1. CASE Exec(r)
        <4>1. File(r) = 1 /\ 1 \in applied
          BY <2>t, OrderIsIdentity, EveryoneAtTheStart DEF File, Files
        <4>2. ~Applicable(File(r))
          BY <4>1 DEF Applicable, Rerunnable
        <4> QED BY <2>t, <3>1, <4>2 DEF Exec, Exit
      <3>2. CASE Start(r) \/ CommitFile(r) \/ Listen(r) \/ Drained(r) \/ Terminate(r)
        BY <2>t, <3>2 DEF Start, CommitFile, Listen, UpReturns, Drained, Terminate, Files
      <3> QED BY <2>1, <3>1, <3>2 DEF Boot
    <2>2. ASSUME NEW w \in Workers, Join(w)
          PROVE  applied' = applied /\ \A q \in Replicas : step'[q] = 1
      BY <2>t, <2>2 DEF Join, StartWorker, Poll
    <2>3. ASSUME NEW x \in Processes, Crash(x)
          PROVE  applied' = applied /\ \A q \in Replicas : step'[q] = 1
      BY <2>t, <2>3 DEF Crash, Exit
    <2>4. CASE UNCHANGED vars
      BY <2>t, <2>4 DEF vars
    <2> QED BY <2>t, <2>1, <2>2, <2>3, <2>4 DEF Next
  <1>2. StartupInv => (Outage => Serving = {})
    BY EveryoneAtTheStart DEF Serving
  <1> QED BY <1>1, <1>2, StartupInvariant, PTL DEF Spec

(* As long as nothing has failed the files applied are those of the one    *)
(* replica that is at them.                                                *)
Undisturbed ==
    faults = 0 =>
        /\ \A r \in Replicas : pc[r] # "drain"
        /\ \A r \in Replicas : step[r] > 1 => applied = 1..(step[r] - 1)
        /\ applied # {} => \E r \in Replicas : step[r] > 1

LEMMA UndisturbedStep ==
  ASSUME StartupInv, Undisturbed, [Next]_vars
  PROVE  Undisturbed'
  <1> SUFFICES ASSUME faults' = 0 PROVE Undisturbed'
    BY DEF Undisturbed
  <1>t. /\ step \in [Replicas -> 1..5] /\ pc \in [Processes -> Stages]
        /\ faults \in Nat /\ Replicas \subseteq Processes
    BY StartupConstants DEF StartupInv, TypeOK, Processes
  <1>1. ASSUME NEW r \in Replicas, Exec(r) PROVE Undisturbed'
    <2>1. File(r) = step[r] /\ step[r] \in Files /\ pc[r] = "migrate" /\ faults = 0
      BY <1>1, OrderIsIdentity DEF Exec, File
    <2>2. CASE Applicable(File(r))
      BY <1>1, <1>t, <2>1, <2>2 DEF Exec, Goto, Undisturbed
    <2>3. CASE ~Applicable(File(r))
      <3>1. step[r] = 1
        <4>1. SUFFICES ASSUME step[r] > 1 PROVE Applicable(step[r])
          BY <1>t, <2>1, <2>3
        <4>2. applied = 1..(step[r] - 1)
          BY <2>1, <4>1 DEF Undisturbed
        <4>3. step[r] \in {2, 3, 4}
          BY <2>1, <4>1 DEF Files
        <4> QED BY <4>2, <4>3 DEF Applicable, Needs, Files
      <3> QED BY <1>1, <1>t, <2>1, <2>3, <3>1 DEF Exec, Exit, Goto, Undisturbed
    <2> QED BY <2>2, <2>3
  <1>2. ASSUME NEW r \in Replicas, CommitFile(r) PROVE Undisturbed'
    <2>1. /\ step[r] \in Files /\ pc[r] = "exec" /\ faults = 0
          /\ applied' = applied \cup {step[r]}
          /\ step' = [step EXCEPT ![r] = @ + 1]
          /\ pc' = [pc EXCEPT ![r] = "migrate"]
      BY <1>2, OrderIsIdentity DEF CommitFile, File, Goto, StartupInv, Position
    <2>2. \A q \in Replicas \ {r} : step[q] = 1
      BY <1>t, <2>1 DEF StartupInv, OneLeader
    <2>3. applied = 1..(step[r] - 1)
      <3>1. CASE step[r] > 1
        BY <2>1, <3>1 DEF Undisturbed
      <3>2. CASE step[r] = 1
        BY <1>t, <2>1, <2>2, <3>2 DEF Undisturbed
      <3> QED BY <1>t, <3>1, <3>2
    <2>4. applied' = 1..step[r]
      BY <2>1, <2>3 DEF Files
    <2>5. step'[r] = step[r] + 1 /\ \A q \in Replicas \ {r} : step'[q] = 1
      BY <1>t, <2>1, <2>2
    <2>6. \A q \in Replicas : pc'[q] # "drain"
      BY <1>t, <2>1 DEF Undisturbed
    <2> QED BY <2>1, <2>4, <2>5, <2>6 DEF Undisturbed, Files
  <1>3. ASSUME NEW r \in Replicas, Start(r) \/ Listen(r) PROVE Undisturbed'
    BY <1>3, <1>t DEF Start, Listen, Goto, Undisturbed
  <1>4. ASSUME NEW r \in Replicas, Drained(r) PROVE Undisturbed'
    BY <1>4 DEF Drained, Undisturbed
  <1>5. ASSUME NEW x \in Processes, Terminate(x) \/ Crash(x) PROVE FALSE
    BY <1>5, <1>t DEF Terminate, Crash
  <1>6. ASSUME NEW w \in Workers, Join(w) PROVE Undisturbed'
    <2>1. UNCHANGED <<applied, step, faults>>
      BY <1>6 DEF Join, StartWorker, Poll
    <2>2. \A q \in Replicas : pc'[q] = "drain" => pc[q] = "drain"
      BY <1>6, <1>t DEF Join, StartWorker, Poll, Goto
    <2> QED BY <2>1, <2>2 DEF Undisturbed
  <1>7. CASE UNCHANGED vars
    BY <1>7 DEF vars, Undisturbed
  <1> QED BY <1>1, <1>2, <1>3, <1>4, <1>5, <1>6, <1>7, <1>t DEF Next, Boot

(* The outage needs a failure: until the first crash or eviction the       *)
(* replica that has begun the files is still at them, or serves.           *)
THEOREM NoOutageUnprovoked == Spec => [](faults = 0 => ~Outage)
  <1>1. Init => Undisturbed
    BY DEF Init, Undisturbed, Processes
  <1>2. StartupInv /\ Undisturbed => (faults = 0 => ~Outage)
    BY DEF StartupInv, Position, Undisturbed, Outage, Leader
  <1> QED BY <1>1, <1>2, UndisturbedStep, StartupInvariant, PTL DEF Spec
=============================================================================
