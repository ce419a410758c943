------------------------ MODULE PaymentCreateProofs ------------------------
(***************************************************************************)
(* Theorems about PaymentCreate, for any number of calls, tenants, keys    *)
(* and amounts.                                                            *)
(***************************************************************************)
EXTENDS PaymentCreate, CreateTxProofs, FiniteSetTheorems

Inv == TxInv /\ TypeOK

(* Every step of payment.Create and of its failures keeps the invariant. *)
LEMMA PaymentStep == Inv /\ [Next]_vars => Inv'
  <1> SUFFICES ASSUME Inv, [Next]_vars PROVE TxInv' /\ PaymentsCreated' \in Nat
    BY DEF Inv, TypeOK, TxInv
  <1> USE DEF Inv, TypeOK
  <1>1. ASSUME NEW c \in Calls, postPayment(c)
        PROVE  TxInv' /\ PaymentsCreated' \in Nat
    <2>1. PICK t \in Tenants, k \in Keys, a \in Amounts, cur \in RawCurrencies :
            IF validateCreate(a, cur, k)
              THEN /\ req' = [req EXCEPT ![c] =
                                [tenant |-> t, key |-> k,
                                 intent |-> RequestFingerprint(a, cur)]]
                   /\ Goto(c, "insert")
                   /\ UNCHANGED <<rowid, buf, answer, db>>
              ELSE Refuse(c, "invalid")
      BY <1>1 DEF postPayment
    <2>2. CASE validateCreate(a, cur, k)
      <3> DEFINE r == [tenant |-> t, key |-> k,
                       intent |-> RequestFingerprint(a, cur)]
      <3>1. r \in Requests
        BY <2>2, PaymentConstants
        DEF validateCreate, RequestFingerprint, Requests
      <3> HIDE DEF r
      <3> QED BY <1>1, <2>1, <2>2, <3>1, EarlyTx DEF postPayment, r
    <2>3. CASE ~validateCreate(a, cur, k)
      BY <1>1, <2>1, <2>3, RefuseTx DEF postPayment, Answers
    <2> QED BY <2>2, <2>3
  <1>2. ASSUME NEW c \in Calls, CreateStep(c)
        PROVE  TxInv' /\ PaymentsCreated' \in Nat
    BY <1>2, InsertRowTx, SelectRowTx, WriteTx DEF CreateStep, TxNext
  <1>3. ASSUME NEW c \in Calls, CommitPayment(c)
        PROVE  TxInv' /\ PaymentsCreated' \in Nat
    BY <1>3, CommitTx DEF CommitPayment
  <1>4. ASSUME NEW c \in Calls, ReplayPayment(c) \/ ReplyCreated(c)
        PROVE  TxInv' /\ PaymentsCreated' \in Nat
    BY <1>4, AnswerTx DEF ReplayPayment, ReplyCreated
  <1>5. ASSUME NEW c \in Calls, AbortPayment(c) \/ ReplyLost(c)
        PROVE  TxInv' /\ PaymentsCreated' \in Nat
    BY <1>5, FailTx DEF AbortPayment, ReplyLost
  <1>6. CASE UNCHANGED vars
    BY <1>6, StutterTx DEF vars, txVars
  <1> QED BY <1>1, <1>2, <1>3, <1>4, <1>5, <1>6 DEF Next, Progress, Idle

(* The inductive invariant holds throughout. *)
THEOREM PaymentInvariant == Spec => []Inv
  <1>1. PaymentInit => Inv
    BY TxInit DEF PaymentInit, Inv, TypeOK, TxInv
  <1> QED BY <1>1, PaymentStep, PTL DEF Spec

(* Every variable of payment.Create's model keeps its type. *)
THEOREM PaymentTypes == Spec => []TypeOK
  BY PaymentInvariant, PTL DEF Inv

(* However many calls race, crash or retry, a tenant's idempotency key     *)
(* belongs to one payment at most.                                         *)
THEOREM OnePaymentPerKey == Spec => []OneRowPerKey
  <1>1. Inv => OneRowPerKey
    BY DEF Inv, TxInv
  <1> QED BY <1>1, PaymentInvariant, PTL

(* Clients that sent payment.Create the same key and were served hold the  *)
(* same payment for the same request, and one of them at most a 201.       *)
THEOREM OnePaymentOutcome == Spec => []OneOutcomePerKey
  <1>1. Inv => OneOutcomePerKey
    BY OutcomeFollows DEF Inv
  <1> QED BY <1>1, PaymentInvariant, PTL

(* An accepted payment has its ledger event, its audit row and its one     *)
(* outbox row, and a payment that was not accepted has left no trace.      *)
THEOREM NoHalfPayment == Spec => []AcceptedIsComplete
  <1>1. Inv => AcceptedIsComplete
    BY DEF Inv, TxInv
  <1> QED BY <1>1, PaymentInvariant, PTL

(* payment.Create implements the idempotency contract: the first writer of *)
(* a key wins, 201 goes to one call, 200 and 409 are honest about the row. *)
THEOREM PaymentHonoursContract == Spec => HonoursContract
  <1>1. PaymentInit => Contract!Init
    BY ContractInit DEF PaymentInit
  <1>2. Inv /\ [Next]_vars => [Contract!Next]_(Contract!vars)
    <2> SUFFICES ASSUME Inv, [Next]_vars PROVE Simulates
      BY DEF Simulates
    <2> USE DEF Inv
    <2>1. ASSUME NEW c \in Calls, postPayment(c) PROVE Simulates
      <3>1. answer[c] = "none" /\ pc[c] # "done" /\ TxTypeOK
        BY <2>1 DEF TxInv, StageInv, AnsweredWhenDone, postPayment
      <3>2. CASE Refuse(c, "invalid")
        BY <3>1, <3>2, RefuseSim DEF Answers
      <3>3. CASE ~Refuse(c, "invalid")
        <4>1. /\ UNCHANGED <<rows, answer, rowid>>
              /\ \A d \in Calls \ {c} : req'[d] = req[d]
          BY <2>1, <3>1, <3>3 DEF postPayment, db, TxTypeOK
        <4> QED BY <3>1, <4>1, SilentSim
      <3> QED BY <3>2, <3>3
    <2>2. ASSUME NEW c \in Calls, CreateStep(c) PROVE Simulates
      BY <2>2, QuietSim, SelectRowSim DEF CreateStep, TxNext
    <2>3. ASSUME NEW c \in Calls, CommitPayment(c) PROVE Simulates
      BY <2>3, CommitSim DEF CommitPayment
    <2>4. ASSUME NEW c \in Calls, ReplayPayment(c) \/ ReplyCreated(c)
          PROVE  Simulates
      BY <2>4, AnswerSim DEF ReplayPayment, ReplyCreated
    <2>5. ASSUME NEW c \in Calls, AbortPayment(c) \/ ReplyLost(c)
          PROVE  Simulates
      BY <2>5, FailSim DEF AbortPayment, ReplyLost
    <2>6. CASE UNCHANGED vars
      BY <2>6 DEF vars, txVars, Simulates, Contract!vars, Told
    <2> QED BY <2>1, <2>2, <2>3, <2>4, <2>5, <2>6 DEF Next, Progress, Idle
  <1> QED BY <1>1, <1>2, PaymentInvariant, PTL
         DEF Spec, HonoursContract, Contract!Spec

-----------------------------------------------------------------------------
(* Calls whose payment is committed and may yet be counted. *)
Uncounted == {c \in Calls : pc[c] = "reply"}

(* Every count stands for a committed row, and so does every count still   *)
(* to come.                                                                *)
MetricInv == /\ IsFiniteSet(Committed) /\ IsFiniteSet(Uncounted)
             /\ PaymentsCreated + Cardinality(Uncounted) <= Cardinality(Committed)

(* A step that commits nothing and answers nobody's commit. *)
LEMMA MetricUntouched ==
  ASSUME MetricInv, UNCHANGED <<rows, PaymentsCreated>>, Uncounted' = Uncounted
  PROVE  MetricInv'
  BY DEF MetricInv, Committed

LEMMA MetricStep ==
  ASSUME Inv, MetricInv, [Next]_vars
  PROVE  MetricInv'
  <1> USE DEF Inv, TypeOK, TxInv
  <1>1. ASSUME NEW c \in Calls, postPayment(c)
        PROVE  MetricInv'
    <2>1. UNCHANGED <<rows, PaymentsCreated>>
      BY <1>1 DEF postPayment, Refuse, db
    <2>2. Uncounted' = Uncounted
      BY <1>1 DEF postPayment, Refuse, Finish, Goto, Uncounted, TxTypeOK
    <2> QED BY <2>1, <2>2, MetricUntouched
  <1>2. ASSUME NEW c \in Calls, CreateStep(c)
        PROVE  MetricInv'
    <2>1. UNCHANGED <<rows, PaymentsCreated>>
      BY <1>2 DEF CreateStep, TxNext, InsertRow, SelectRow, AppendLedger, WriteAudit,
                  InsertOutbox, Write, Refuse, db
    <2>2. Uncounted' = Uncounted
      BY <1>2 DEF CreateStep, TxNext, InsertRow, SelectRow, AppendLedger, WriteAudit,
                  InsertOutbox, Write, Refuse, Finish, Goto, Uncounted, TxTypeOK
    <2> QED BY <2>1, <2>2, MetricUntouched
  <1>3. ASSUME NEW c \in Calls, CommitPayment(c)
        PROVE  MetricInv'
    <2>1. /\ rowid[c] \in Ids \ Committed /\ req[c] \in Requests /\ pc[c] = "commit"
          /\ PaymentsCreated' = PaymentsCreated
      BY <1>3 DEF CommitPayment, Commit, StageInv, OwnsItsRow, Owner, OwnerStages,
                  TxStages
    <2>2. Committed' = Committed \cup {rowid[c]}
      BY <1>3, <2>1, NullsAreFresh DEF CommitPayment, Commit, Publish, Committed, TxTypeOK
    <2>3. Uncounted' = Uncounted \cup {c} /\ c \notin Uncounted
      BY <1>3, <2>1 DEF CommitPayment, Commit, Goto, Uncounted, TxTypeOK
    <2>4. /\ IsFiniteSet(Committed')
          /\ Cardinality(Committed') = Cardinality(Committed) + 1
      BY <2>1, <2>2, FS_AddElement DEF MetricInv
    <2>5. /\ IsFiniteSet(Uncounted')
          /\ Cardinality(Uncounted') = Cardinality(Uncounted) + 1
      BY <2>3, FS_AddElement DEF MetricInv
    <2>6. Cardinality(Committed) \in Nat /\ Cardinality(Uncounted) \in Nat
      BY FS_CardinalityType DEF MetricInv
    <2> QED BY <2>1, <2>4, <2>5, <2>6 DEF MetricInv
  <1>4. ASSUME NEW c \in Calls, ReplayPayment(c) \/ AbortPayment(c)
        PROVE  MetricInv'
    <2>1. UNCHANGED <<rows, PaymentsCreated>>
      BY <1>4 DEF ReplayPayment, AbortPayment, CommitReplay, Abort, Refuse, db
    <2>2. Uncounted' = Uncounted
      BY <1>4 DEF ReplayPayment, AbortPayment, CommitReplay, Abort, Refuse, Finish,
                  Goto, Uncounted, TxStages, OwnerStages, TxTypeOK
    <2> QED BY <2>1, <2>2, MetricUntouched
  <1>5. ASSUME NEW c \in Calls, ReplyCreated(c) \/ ReplyLost(c)
        PROVE  MetricInv'
    <2>1. /\ PaymentsCreated' \in {PaymentsCreated, PaymentsCreated + 1}
          /\ rows' = rows /\ c \in Uncounted
      BY <1>5 DEF ReplyCreated, ReplyLost, Reply, LoseReply, Refuse, db, Uncounted
    <2>2. Uncounted' = Uncounted \ {c}
      BY <1>5 DEF ReplyCreated, ReplyLost, Reply, LoseReply, Refuse, Finish, Goto,
                  Uncounted, TxTypeOK
    <2>3. /\ IsFiniteSet(Uncounted')
          /\ Cardinality(Uncounted') = Cardinality(Uncounted) - 1
      BY <2>1, <2>2, FS_RemoveElement DEF MetricInv
    <2>4. Cardinality(Committed) \in Nat /\ Cardinality(Uncounted) \in Nat
      BY FS_CardinalityType DEF MetricInv
    <2>5. Committed' = Committed
      BY <2>1 DEF Committed
    <2> QED BY <2>1, <2>3, <2>4, <2>5 DEF MetricInv
  <1>6. CASE UNCHANGED vars
    BY <1>6, MetricUntouched DEF vars, txVars, Uncounted
  <1> QED BY <1>1, <1>2, <1>3, <1>4, <1>5, <1>6 DEF Next, Progress, Idle

(* The metric never runs ahead of the table, whatever answers are lost and *)
(* however many replays there are.                                         *)
THEOREM MetricIsHonest == Spec => []MetricNeverOvercounts
  <1>1. PaymentInit => MetricInv
    <2> SUFFICES ASSUME PaymentInit PROVE MetricInv
      OBVIOUS
    <2>1. Committed = {} /\ Uncounted = {} /\ PaymentsCreated = 0
      BY DEF PaymentInit, Init, Committed, Uncounted
    <2> QED BY <2>1, FS_EmptySet DEF MetricInv
  <1>2. Inv /\ MetricInv => MetricNeverOvercounts
    <2> SUFFICES ASSUME Inv, MetricInv PROVE MetricNeverOvercounts
      OBVIOUS
    <2>1. Cardinality(Committed) \in Nat /\ Cardinality(Uncounted) \in Nat
      BY FS_CardinalityType DEF MetricInv
    <2> QED BY <2>1 DEF MetricInv, Inv, TypeOK, MetricNeverOvercounts
  <1> QED BY <1>1, <1>2, MetricStep, PaymentInvariant, PTL DEF Spec
=============================================================================
