------------------------- MODULE RefundCreateProofs -------------------------
(***************************************************************************)
(* Theorems about RefundCreate, for any number of calls, payments, tenants *)
(* and keys.  That no payment is refunded beyond its amount is proved for  *)
(* amounts whose sums fit in an int64 (AmountsFit): beyond that the code's *)
(* addition wraps and the property fails.                                  *)
(***************************************************************************)
EXTENDS RefundCreate, CreateTxProofs, FiniteSetTheorems

(* A request is about a payment and an integer amount. *)
LEMMA RequestShape ==
  ASSUME NEW r \in Requests
  PROVE  PayOf(r) \in Payments /\ AmtOf(r) \in Int /\ r.tenant \in Tenants
  BY RefundConstants DEF Requests, PayOf, AmtOf

(* A call in a transaction has a request. *)
LEMMA InTx ==
  ASSUME TxInv, NEW c \in Calls, pc[c] \in TxStages
  PROVE  req[c] \in Requests
  BY DEF TxInv, StageInv, OwnsItsRow

(* A step that takes no lock and passes no check: no row or status         *)
(* changes, and whoever holds a lock or has passed a check already did.    *)
Downstream ==
    /\ UNCHANGED <<rows, payStatus>>
    /\ \A d \in Calls :
         /\ pc'[d] \in LockStages => pc[d] \in LockStages /\ req'[d] = req[d]
         /\ pc'[d] \in LockStages \ {"sum"} => pc[d] \in LockStages \ {"sum"}

(* The sums are what the table says. *)
LEMMA SameTable ==
  ASSUME UNCHANGED rows
  PROVE  /\ \A p \in Payments : Reserved(p)' = Reserved(p)
         /\ CentsAreFinite => CentsAreFinite'
  <1>1. ASSUME NEW p \in Payments PROVE CentsOf(p)' = CentsOf(p)
    BY DEF CentsOf, RowsOf, Committed, PayOf, AmtOf
  <1> QED BY <1>1 DEF Reserved, CentsAreFinite

(* Such a step keeps everything that is said of payments and locks. *)
LEMMA DownstreamKeeps ==
  ASSUME BackedInv, Downstream
  PROVE  /\ LockIsExclusive' /\ CheckStillHolds' /\ RefundsAreBacked'
         /\ RoomIsKept /\ NeverOverRefunded => RoomIsKept' /\ NeverOverRefunded'
  <1> USE DEF BackedInv, Downstream
  <1>1. LockIsExclusive'
    BY DEF LockIsExclusive, PayOf
  <1>2. CheckStillHolds'
    BY DEF CheckStillHolds, PayOf, AmtOf
  <1>3. RefundsAreBacked'
    BY DEF RefundsAreBacked, Committed, PayOf, AmtOf
  <1>4. RoomIsKept /\ NeverOverRefunded => RoomIsKept' /\ NeverOverRefunded'
    <2>1. \A d \in Calls : pc[d] \in LockStages => PayOf(req[d]) \in Payments
      BY InTx, RequestShape DEF LockStages, OwnerStages, TxStages
    <2> QED BY <2>1, SameTable DEF RoomIsKept, NeverOverRefunded, PayOf, AmtOf
  <1> QED BY <1>1, <1>2, <1>3, <1>4

(* The arrival of a call, its statements from the insert on, its answer    *)
(* and its failure are such steps.                                         *)
LEMMA TxIsDownstream ==
  ASSUME BackedInv, NEW c \in Calls,
         \/ postRefund(c) \/ CreateStep(c) \/ ReplayRefund(c)
         \/ ReplyCreated(c) \/ ReplyLost(c) \/ AbortRefund(c)
  PROVE  Downstream
  <1> USE DEF BackedInv, TxInv, TxTypeOK, Downstream, LockStages, OwnerStages
  <1>1. CASE CreateStep(c)
    <2>1. CASE InsertRow(c)
      BY <1>1, <2>1 DEF CreateStep, InsertRow, Goto, db
    <2>2. CASE SelectRow(c)
      BY <1>1, <2>2 DEF CreateStep, SelectRow, Refuse, Finish, Goto, db
    <2>3. CASE AppendLedger(c) \/ WriteAudit(c) \/ InsertOutbox(c)
      BY <1>1, <2>3 DEF CreateStep, AppendLedger, WriteAudit, InsertOutbox,
                        Write, Goto, db
    <2> QED BY <1>1, <2>1, <2>2, <2>3 DEF CreateStep, TxNext
  <1>2. CASE ReplayRefund(c) \/ ReplyCreated(c)
    BY <1>2 DEF ReplayRefund, ReplyCreated, CommitReplay, Reply, Finish, Goto, db
  <1>3. CASE ReplyLost(c) \/ AbortRefund(c)
    BY <1>3 DEF ReplyLost, AbortRefund, LoseReply, Abort, Refuse, Finish, Goto, db
  <1>4. CASE postRefund(c)
    BY <1>4 DEF postRefund, Refuse, Finish, Goto, db
  <1> QED BY <1>1, <1>2, <1>3, <1>4

(* The transaction part of the invariant, for every step of a refund call. *)
LEMMA RefundTxStep ==
  ASSUME BackedInv, [Next]_vars
  PROVE  TxInv'
  <1> USE DEF BackedInv
  <1>1. ASSUME NEW c \in Calls, postRefund(c) PROVE TxInv'
    <2>1. PICK t \in Tenants, k \in Keys, p \in Payments, a \in Amounts :
            IF k \in UsableKeys
              THEN /\ req' = [req EXCEPT ![c] = [tenant |-> t, key |-> k,
                                                 intent |-> <<p, a>>]]
                   /\ Goto(c, "lock")
                   /\ UNCHANGED <<rowid, buf, answer, db>>
              ELSE Refuse(c, "invalid")
      BY <1>1 DEF postRefund
    <2>2. CASE k \in UsableKeys
      <3> DEFINE r == [tenant |-> t, key |-> k, intent |-> <<p, a>>]
      <3>1. r \in Requests
        BY RefundConstants DEF Requests
      <3> HIDE DEF r
      <3> QED BY <1>1, <2>1, <2>2, <3>1, EarlyTx DEF postRefund, r
    <2>3. CASE k \notin UsableKeys
      BY <1>1, <2>1, <2>3, RefuseTx DEF postRefund, Answers
    <2> QED BY <2>2, <2>3
  <1>2. ASSUME NEW c \in Calls, LockPayment(c) PROVE TxInv'
    <2> DEFINE p == PayOf(req[c])
               s == [req[c] EXCEPT !.intent = <<p, RefundAmount(req[c])>>]
    <2>1. pc[c] = "lock" /\ req[c] \in Requests
      BY <1>2, InTx DEF LockPayment, TxStages
    <2>2. CASE PaymentCheck(req[c]) = "ok"
      <3>1. s \in Requests
        BY <2>1, RefundConstants DEF Requests, PayOf, AmtOf, RefundAmount
      <3>2. req' = [req EXCEPT ![c] = s]
        BY <1>2, <2>2 DEF LockPayment
      <3>3. Goto(c, "sum") /\ UNCHANGED <<rowid, buf, answer, db>>
        BY <1>2, <2>2 DEF LockPayment
      <3> HIDE DEF s
      <3> QED BY <2>1, <3>1, <3>2, <3>3, EarlyTx
    <2>3. CASE PaymentCheck(req[c]) # "ok"
      <3>1. Refuse(c, PaymentCheck(req[c]))
        BY <1>2, <2>3 DEF LockPayment
      <3>2. PaymentCheck(req[c]) \in {"not_found", "not_refundable", "invalid"}
        BY <2>3 DEF PaymentCheck
      <3> QED BY <2>1, <3>1, <3>2, RefuseTx DEF Answers
    <2> QED BY <2>2, <2>3
  <1>3. ASSUME NEW c \in Calls, SumReserved(c) PROVE TxInv'
    <2>1. pc[c] = "sum" /\ req[c] \in Requests
      BY <1>3, InTx DEF SumReserved, TxStages
    <2>2. CASE Refuse(c, "error") \/ Refuse(c, "exceeded")
      BY <2>1, <2>2, RefuseTx DEF Answers
    <2>3. CASE Goto(c, "insert") /\ UNCHANGED <<req, rowid, buf, answer, db>>
      <3>1. req' = [req EXCEPT ![c] = req[c]]
        BY <2>3 DEF TxInv, TxTypeOK
      <3> QED BY <2>1, <2>3, <3>1, EarlyTx
    <2> QED BY <1>3, <2>2, <2>3 DEF SumReserved
  <1>4. ASSUME NEW c \in Calls, CreateStep(c) PROVE TxInv'
    BY <1>4, InsertRowTx, SelectRowTx, WriteTx DEF CreateStep, TxNext
  <1>5. ASSUME NEW c \in Calls, CommitRefund(c) PROVE TxInv'
    BY <1>5, CommitTx DEF CommitRefund
  <1>6. ASSUME NEW c \in Calls, ReplayRefund(c) \/ ReplyCreated(c) PROVE TxInv'
    BY <1>6, AnswerTx DEF ReplayRefund, ReplyCreated
  <1>7. ASSUME NEW c \in Calls, AbortRefund(c) \/ ReplyLost(c) PROVE TxInv'
    BY <1>7, FailTx DEF AbortRefund, ReplyLost
  <1>8. ASSUME NEW p \in Payments, AcceptPayment(p) \/ SettlePayment(p)
        PROVE  TxInv'
    BY <1>8, StutterTx DEF AcceptPayment, SettlePayment
  <1>9. CASE UNCHANGED vars
    BY <1>9, StutterTx DEF vars, txVars
  <1> QED BY <1>1, <1>2, <1>3, <1>4, <1>5, <1>6, <1>7, <1>8, <1>9
          DEF Next, Progress, Idle

(* The invariant without the sums, for all amounts. *)
LEMMA BackedStep == BackedInv /\ [Next]_vars => BackedInv'
  <1> SUFFICES ASSUME BackedInv, [Next]_vars PROVE BackedInv'
    OBVIOUS
  <1> DEFINE Goal == /\ payStatus' \in [Payments -> {"absent", "pending", "succeeded"}]
                     /\ LockIsExclusive' /\ CheckStillHolds' /\ RefundsAreBacked'
  <1> SUFFICES Goal
    <2>1. TxInv' /\ TxTypeOK'
      BY RefundTxStep DEF TxInv
    <2>2. ASSUME Goal, NEW i \in Committed'
          PROVE  AmtOf(rows'[i]) \in 1..MaxInt
      <3>1. PayOf(rows'[i]) \in Payments
        BY <2>1, <2>2, RequestShape DEF TxTypeOK, Committed
      <3>2. AmtOf(rows'[i]) \in 1..PayAmount[PayOf(rows'[i])]
        BY <2>2 DEF RefundsAreBacked, AmtOf, PayOf
      <3> QED BY <3>1, <3>2, RefundConstants
    <2> QED BY <2>1, <2>2 DEF BackedInv, TypeOK, AmtOf
  <1>t. TxInv /\ TxTypeOK /\ TypeOK
    BY DEF BackedInv, TxInv
  <1>d. ASSUME Downstream PROVE Goal
    BY <1>d, <1>t, DownstreamKeeps DEF Downstream, TypeOK
  <1>1. ASSUME NEW c \in Calls,
               \/ postRefund(c) \/ CreateStep(c) \/ ReplayRefund(c)
               \/ ReplyCreated(c) \/ ReplyLost(c) \/ AbortRefund(c)
        PROVE  Goal
    BY <1>1, <1>d, TxIsDownstream
  <1>2. ASSUME NEW c \in Calls, LockPayment(c) PROVE Goal
    <2>1. CASE PaymentCheck(req[c]) # "ok"
      <3>1. Downstream
        BY <1>2, <1>t, <2>1 DEF LockPayment, Refuse, Finish, Goto, db, Downstream,
               TxTypeOK, LockStages, OwnerStages
      <3> QED BY <3>1, <1>d
    <2>2. CASE PaymentCheck(req[c]) = "ok"
      <3> DEFINE p == PayOf(req[c])
                 amt == RefundAmount(req[c])
      <3>1. req[c] \in Requests /\ p \in Payments /\ AmtOf(req[c]) \in Int
        BY <1>2, <1>t, InTx, RequestShape DEF LockPayment, TxStages
      <3>2. /\ payStatus[p] = "succeeded" /\ PayTenant[p] = req[c].tenant
            /\ amt > 0 /\ amt <= PayAmount[p]
        BY <2>2 DEF PaymentCheck, Found, Refundable, AmountFits
      <3>i. amt \in Int
        BY <3>1, RefundConstants DEF RefundAmount
      <3>3. /\ PayOf(req'[c]) = p /\ AmtOf(req'[c]) = amt
            /\ req'[c].tenant = req[c].tenant
            /\ \A d \in Calls \ {c} : req'[d] = req[d]
        BY <1>2, <1>t, <2>2, <3>1 DEF LockPayment, PayOf, AmtOf, TxTypeOK, Requests
      <3>4. /\ pc' = [pc EXCEPT ![c] = "sum"]
            /\ UNCHANGED <<rows, payStatus>>
            /\ \A d \in Calls : pc[d] \in LockStages => PayOf(req[d]) # p
        BY <1>2, <2>2 DEF LockPayment, Goto, db, Unlocked, Holds
      <3> HIDE DEF p, amt
      <3>5. LockIsExclusive'
        BY <1>t, <3>3, <3>4 DEF BackedInv, LockIsExclusive, TxTypeOK, PayOf
      <3>6. CheckStillHolds'
        <4> SUFFICES ASSUME NEW d \in Calls, pc'[d] \in LockStages
                     PROVE  /\ payStatus'[PayOf(req'[d])] = "succeeded"
                            /\ PayTenant[PayOf(req'[d])] = req'[d].tenant
                            /\ AmtOf(req'[d]) \in 1..PayAmount[PayOf(req'[d])]
          BY DEF CheckStillHolds, PayOf, AmtOf
        <4>1. CASE d = c
          BY <4>1, <3>1, <3>2, <3>i, <3>3, <3>4, RefundConstants
        <4>2. CASE d # c
          BY <4>2, <1>t, <3>3, <3>4 DEF BackedInv, CheckStillHolds, TxTypeOK
        <4> QED BY <4>1, <4>2
      <3>7. RefundsAreBacked'
        BY <3>4 DEF BackedInv, RefundsAreBacked, Committed, PayOf, AmtOf
      <3> QED BY <1>t, <3>4, <3>5, <3>6, <3>7 DEF TypeOK
    <2> QED BY <2>1, <2>2
  <1>3. ASSUME NEW c \in Calls, SumReserved(c) PROVE Goal
    <2>1. LockIsExclusive'
      BY <1>3, <1>t DEF BackedInv, LockIsExclusive, SumReserved, Refuse, Finish, Goto,
                  db, TxTypeOK, LockStages, OwnerStages, PayOf
    <2>2. CheckStillHolds'
      BY <1>3, <1>t DEF BackedInv, CheckStillHolds, SumReserved, Refuse, Finish, Goto,
                  db, TxTypeOK, LockStages, OwnerStages, PayOf, AmtOf
    <2>3. RefundsAreBacked'
      BY <1>3 DEF BackedInv, RefundsAreBacked, Committed, SumReserved, Refuse, db,
                  PayOf, AmtOf
    <2> QED BY <1>3, <1>t, <2>1, <2>2, <2>3 DEF SumReserved, TypeOK
  <1>4. ASSUME NEW c \in Calls, CommitRefund(c) PROVE Goal
    <2>1. /\ pc[c] = "commit" /\ req[c] \in Requests
          /\ PayOf(req[c]) \in Payments /\ AmtOf(req[c]) \in Int
          /\ rowid[c] \in Ids
      BY <1>4, <1>t, InTx, RequestShape
      DEF CommitRefund, Commit, TxStages, TxInv, StageInv, OwnsItsRow,
          Owner, OwnerStages
    <2>2. /\ payStatus[PayOf(req[c])] = "succeeded"
          /\ PayTenant[PayOf(req[c])] = req[c].tenant
          /\ AmtOf(req[c]) \in 1..PayAmount[PayOf(req[c])]
      BY <2>1 DEF BackedInv, CheckStillHolds, LockStages, OwnerStages
    <2>3. /\ pc' = [pc EXCEPT ![c] = "reply"]
          /\ rows' = [rows EXCEPT ![rowid[c]] = req[c]]
          /\ UNCHANGED <<req, payStatus>>
      BY <1>4 DEF CommitRefund, Commit, Publish, Goto
    <2>4. LockIsExclusive'
      BY <1>t, <2>3 DEF BackedInv, LockIsExclusive, TxTypeOK, LockStages,
             OwnerStages, PayOf
    <2>5. CheckStillHolds'
      BY <1>t, <2>3 DEF BackedInv, CheckStillHolds, TxTypeOK, LockStages,
             OwnerStages, PayOf, AmtOf
    <2>6. RefundsAreBacked'
      BY <1>t, <2>1, <2>2, <2>3
      DEF BackedInv, RefundsAreBacked, Committed, TxTypeOK, PayOf, AmtOf
    <2> QED BY <1>t, <2>3, <2>4, <2>5, <2>6 DEF TypeOK
  <1>5. ASSUME NEW p \in Payments, AcceptPayment(p) \/ SettlePayment(p)
        PROVE  Goal
    <2>1. payStatus' \in [Payments -> {"absent", "pending", "succeeded"}]
      BY <1>5, <1>t DEF AcceptPayment, SettlePayment, TypeOK
    <2>2. /\ UNCHANGED <<pc, req, rows>>
          /\ \A q \in Payments : payStatus[q] = "succeeded"
                                   => payStatus'[q] = "succeeded"
      BY <1>5, <1>t DEF AcceptPayment, SettlePayment, TypeOK, txVars
    <2>3. LockIsExclusive'
      BY <2>2 DEF BackedInv, LockIsExclusive, PayOf
    <2>4. CheckStillHolds'
      <3>1. \A c \in Calls : pc[c] \in LockStages => PayOf(req[c]) \in Payments
        BY <1>t, InTx, RequestShape DEF LockStages, TxStages
      <3> QED BY <2>2, <3>1 DEF BackedInv, CheckStillHolds, PayOf, AmtOf
    <2>5. RefundsAreBacked'
      <3>1. \A i \in Committed : PayOf(rows[i]) \in Payments
        BY <1>t, RequestShape DEF Committed, TxTypeOK
      <3> QED BY <2>2, <3>1 DEF BackedInv, RefundsAreBacked, Committed, PayOf, AmtOf
    <2> QED BY <1>t, <2>1, <2>2, <2>3, <2>4, <2>5 DEF TypeOK
  <1>6. CASE UNCHANGED vars
    BY <1>6, <1>d DEF vars, txVars, Downstream
  <1> HIDE DEF Goal
  <1> QED BY <1>1, <1>2, <1>3, <1>4, <1>5, <1>6 DEF Next, Progress, Idle

(* What a commit adds to the table: the row, and so its cents. *)
LEMMA CommitAddsRow ==
  ASSUME BackedInv, NEW c \in Calls, CommitRefund(c)
  PROVE  LET i == rowid[c]
             p == PayOf(req[c])
             a == AmtOf(req[c])
         IN  /\ i \in Ids \ Committed /\ p \in Payments /\ a \in Nat \ {0}
             /\ payStatus[p] = "succeeded" /\ UNCHANGED payStatus
             /\ rows' = [rows EXCEPT ![i] = req[c]]
             /\ req[c] \in Requests
  <1> USE DEF BackedInv
  <1>1. pc[c] = "commit" /\ pc[c] \in LockStages /\ Owner(c)
    BY DEF CommitRefund, Commit, LockStages, OwnerStages, Owner
  <1>2. req[c] \in Requests /\ rowid[c] \in Ids \ Committed
    BY <1>1, InTx DEF TxInv, StageInv, OwnsItsRow, TxStages, OwnerStages
  <1>3. PayOf(req[c]) \in Payments
    BY <1>2, RequestShape
  <1>4. /\ payStatus[PayOf(req[c])] = "succeeded"
        /\ AmtOf(req[c]) \in Nat \ {0}
    BY <1>1, <1>3, RefundConstants DEF CheckStillHolds
  <1>5. /\ rows' = [rows EXCEPT ![rowid[c]] = req[c]]
        /\ UNCHANGED payStatus
    BY DEF CommitRefund, Commit, Publish
  <1> QED BY <1>2, <1>3, <1>4, <1>5

LEMMA RowsGrow ==
  ASSUME BackedInv, NEW c \in Calls, CommitRefund(c), NEW q \in Payments
  PROVE  RowsOf(q)' = IF q = PayOf(req[c]) THEN RowsOf(q) \cup {rowid[c]}
                                           ELSE RowsOf(q)
  BY CommitAddsRow, NullsAreFresh
  DEF BackedInv, TxInv, TxTypeOK, RowsOf, Committed, PayOf

(* The SUM of a payment grows by the amount of the refund committed under  *)
(* it, and by nothing else.                                                *)
LEMMA SumGrows ==
  ASSUME BackedInv, CentsAreFinite, NEW c \in Calls, CommitRefund(c),
         NEW q \in Payments
  PROVE  /\ IsFiniteSet(CentsOf(q)')
         /\ Reserved(q) \in Nat
         /\ Reserved(q)' = IF q = PayOf(req[c]) THEN Reserved(q) + AmtOf(req[c])
                                                ELSE Reserved(q)
  <1>1. PICK i, p, a :
          /\ i = rowid[c] /\ p = PayOf(req[c]) /\ a = AmtOf(req[c])
          /\ i \in Ids \ Committed /\ p \in Payments /\ a \in Nat \ {0}
          /\ rows' = [rows EXCEPT ![i] = req[c]]
    BY CommitAddsRow
  <1> DEFINE new == {i} \X (1..a)
  <1>2. \A j \in Committed : rows'[j] = rows[j]
    BY <1>1 DEF BackedInv, TxInv, TxTypeOK, Committed
  <1>3. rows'[i] = req[c]
    BY <1>1 DEF BackedInv, TxInv, TxTypeOK
  <1>4. \A j \in RowsOf(q) : AmtOf(rows[j])' = AmtOf(rows[j])
    BY <1>2 DEF RowsOf, AmtOf
  <1>f. IsFiniteSet(CentsOf(q)) /\ Reserved(q) \in Nat
    BY FS_CardinalityType DEF CentsAreFinite, Reserved
  <1>5. CASE q # p
    <2>1. RowsOf(q)' = RowsOf(q)
      BY <1>1, <1>5, RowsGrow
    <2>2. CentsOf(q)' = CentsOf(q)
      BY <1>4, <2>1 DEF CentsOf
    <2> QED BY <1>1, <1>5, <1>f, <2>2 DEF Reserved
  <1>6. CASE q = p
    <2>1. RowsOf(q)' = RowsOf(q) \cup {i}
      BY <1>1, <1>6, RowsGrow
    <2>2. AmtOf(rows[i])' = a
      BY <1>1, <1>3 DEF AmtOf
    <2>3. CentsOf(q)' = CentsOf(q) \cup new
      BY <1>4, <2>1, <2>2 DEF CentsOf
    <2>4. CentsOf(q) \cap new = {}
      BY <1>1 DEF CentsOf, RowsOf
    <2>5. IsFiniteSet(new) /\ Cardinality(new) = a
      <3>1. IsFiniteSet({i}) /\ Cardinality({i}) = 1
        BY FS_Singleton
      <3>2. IsFiniteSet(1..a) /\ Cardinality(1..a) = a
        BY <1>1, FS_Interval
      <3>3. IsFiniteSet(new) /\ Cardinality(new) = Cardinality({i}) * Cardinality(1..a)
        BY <3>1, <3>2, FS_Product
      <3> QED BY <1>1, <3>1, <3>2, <3>3
    <2>6. /\ IsFiniteSet(CentsOf(q) \cup new)
          /\ Cardinality(CentsOf(q) \cup new) = Cardinality(CentsOf(q)) + a
      <3> HIDE DEF new
      <3>1. /\ IsFiniteSet(CentsOf(q) \cup new)
            /\ Cardinality(CentsOf(q) \cup new) =
                 Cardinality(CentsOf(q)) + Cardinality(new) - Cardinality({})
        BY <1>f, <2>4, <2>5, FS_Union
      <3>2. Cardinality(CentsOf(q)) \in Nat
        BY <1>f DEF Reserved
      <3> QED BY <1>1, <2>5, <3>1, <3>2, FS_EmptySet
    <2> QED BY <1>1, <1>6, <1>f, <2>3, <2>6 DEF Reserved
  <1> QED BY <1>5, <1>6

(* Only a commit changes the table. *)
LEMMA TableStep ==
  ASSUME BackedInv, [Next]_vars, ~\E c \in Calls : CommitRefund(c)
  PROVE  UNCHANGED rows
  <1>1. CASE \E c \in Calls : Progress(c) \/ postRefund(c)
                              \/ AbortRefund(c) \/ ReplyLost(c)
    BY <1>1, TxIsDownstream
    DEF Progress, LockPayment, SumReserved, Refuse, Finish, db, Downstream
  <1>2. CASE (\E p \in Payments : AcceptPayment(p) \/ SettlePayment(p))
             \/ Idle \/ UNCHANGED vars
    BY <1>2 DEF AcceptPayment, SettlePayment, Idle, vars, txVars
  <1> QED BY <1>1, <1>2 DEF Next

LEMMA FiniteStep ==
  ASSUME BackedInv, CentsAreFinite, [Next]_vars
  PROVE  CentsAreFinite'
  <1>1. CASE \E c \in Calls : CommitRefund(c)
    BY <1>1, SumGrows DEF CentsAreFinite
  <1>2. CASE ~\E c \in Calls : CommitRefund(c)
    BY <1>2, TableStep, SameTable
  <1> QED BY <1>1, <1>2

(* The sums: a call finds room under the payment's lock, and the room is   *)
(* still there when it commits, because only the holder adds to the total. *)
LEMMA RoomStep ==
  ASSUME AmountsFit, RefundInv, [Next]_vars
  PROVE  RoomIsKept' /\ NeverOverRefunded'
  <1> USE DEF RefundInv
  <1>t. TxInv /\ TxTypeOK /\ TypeOK
    BY DEF BackedInv, TxInv
  <1>p. \A c \in Calls : pc[c] \in LockStages =>
            PayOf(req[c]) \in Payments /\ AmtOf(req[c]) \in Int
    BY <1>t, InTx, RequestShape DEF LockStages, TxStages
  <1>1. ASSUME Downstream PROVE RoomIsKept' /\ NeverOverRefunded'
    BY <1>1, DownstreamKeeps
  <1>2. ASSUME NEW c \in Calls, LockPayment(c)
        PROVE  RoomIsKept' /\ NeverOverRefunded'
    <2>1. /\ UNCHANGED rows
          /\ \A d \in Calls : pc'[d] \in LockStages \ {"sum"} =>
                pc[d] \in LockStages \ {"sum"} /\ req'[d] = req[d]
      BY <1>2, <1>t DEF LockPayment, Refuse, Finish, Goto, db, TxTypeOK,
                        LockStages, OwnerStages
    <2>2. RoomIsKept'
      BY <1>p, <2>1, SameTable DEF RoomIsKept, PayOf, AmtOf
    <2> QED BY <2>1, <2>2, SameTable DEF NeverOverRefunded
  <1>3. ASSUME NEW c \in Calls, SumReserved(c)
        PROVE  RoomIsKept' /\ NeverOverRefunded'
    <2> DEFINE p == PayOf(req[c])
               amt == AmtOf(req[c])
    <2>1. /\ pc[c] = "sum" /\ p \in Payments /\ amt \in 1..PayAmount[p]
          /\ Reserved(p) \in Nat /\ Reserved(p) <= PayAmount[p]
          /\ PayAmount[p] \in Nat /\ 2 * PayAmount[p] <= MaxInt /\ MaxInt \in Nat
      <3>1. /\ pc[c] = "sum" /\ p \in Payments /\ amt \in 1..PayAmount[p]
            /\ Reserved(p) <= PayAmount[p] /\ 2 * PayAmount[p] <= MaxInt
        BY <1>3, <1>p
        DEF SumReserved, BackedInv, CheckStillHolds, LockStages, AmountsFit,
            NeverOverRefunded
      <3>2. Reserved(p) \in Nat
        BY <3>1, FS_CardinalityType DEF CentsAreFinite, Reserved
      <3> QED BY <3>1, <3>2, RefundConstants
    <2>2. Plus64(Reserved(p), amt) = Reserved(p) + amt
      BY <2>1 DEF Plus64
    <2>3. CASE \E a \in {"error", "exceeded"} : Refuse(c, a)
      <3>1. Downstream
        BY <1>3, <1>t, <2>3 DEF SumReserved, Refuse, Finish, Goto, db, Downstream,
               TxTypeOK, LockStages, OwnerStages
      <3> QED BY <1>1, <3>1
    <2>4. CASE ~(\E a \in {"error", "exceeded"} : Refuse(c, a))
      <3>1. /\ Reserved(p) + amt <= PayAmount[p]
            /\ pc' = [pc EXCEPT ![c] = "insert"]
            /\ UNCHANGED <<req, rows>>
        BY <1>3, <2>2, <2>4 DEF SumReserved, Goto, db
      <3>2. RoomIsKept'
        <4> SUFFICES ASSUME NEW d \in Calls, pc'[d] \in LockStages \ {"sum"}
                     PROVE  Reserved(PayOf(req[d])) + AmtOf(req[d])
                              <= PayAmount[PayOf(req[d])]
          BY <1>t, <1>p, <2>1, <3>1, SameTable
          DEF RoomIsKept, TxTypeOK, PayOf, AmtOf, LockStages
        <4> QED BY <1>t, <3>1 DEF RoomIsKept, TxTypeOK
      <3> QED BY <3>1, <3>2, SameTable DEF NeverOverRefunded
    <2> QED BY <2>3, <2>4
  <1>4. ASSUME NEW c \in Calls, CommitRefund(c)
        PROVE  RoomIsKept' /\ NeverOverRefunded'
    <2>1. pc[c] = "commit" /\ pc[c] \in LockStages \ {"sum"}
      BY <1>4 DEF CommitRefund, Commit, LockStages, OwnerStages
    <2>2. /\ pc' = [pc EXCEPT ![c] = "reply"]
          /\ UNCHANGED req
      BY <1>4 DEF CommitRefund, Commit, Goto
    <2> DEFINE p == PayOf(req[c])
               amt == AmtOf(req[c])
    <2>3. \A q \in Payments :
            Reserved(q)' = IF q = p THEN Reserved(q) + amt ELSE Reserved(q)
      BY <1>4, SumGrows
    <2>4. Reserved(p) + amt <= PayAmount[p] /\ p \in Payments
      BY <1>p, <2>1 DEF RoomIsKept
    <2>5. RoomIsKept'
      <3> SUFFICES ASSUME NEW d \in Calls, pc'[d] \in LockStages \ {"sum"}
                   PROVE  Reserved(PayOf(req[d]))' + AmtOf(req[d])
                            <= PayAmount[PayOf(req[d])]
        BY <2>2 DEF RoomIsKept, PayOf, AmtOf
      <3>1. d # c /\ pc[d] \in LockStages \ {"sum"}
        BY <1>t, <2>2 DEF TxTypeOK, LockStages, OwnerStages
      <3>2. PayOf(req[d]) \in Payments /\ PayOf(req[d]) # p
        BY <1>p, <2>1, <3>1 DEF BackedInv, LockIsExclusive
      <3>3. Reserved(PayOf(req[d]))' = Reserved(PayOf(req[d]))
        <4>1. PICK q \in Payments : q = PayOf(req[d]) /\ q # p
          BY <3>2
        <4>2. PayOf(req[d])' = q
          BY <2>2, <4>1 DEF PayOf
        <4>3. Reserved(q)' = Reserved(q)
          BY <2>3, <4>1
        <4> QED BY <4>1, <4>2, <4>3
      <3> QED BY <3>1, <3>3 DEF RoomIsKept
    <2>6. NeverOverRefunded'
      BY <2>3, <2>4 DEF NeverOverRefunded
    <2> QED BY <2>5, <2>6
  <1>5. CASE UNCHANGED <<pc, req, rows>>
    BY <1>5, <1>p, SameTable DEF RoomIsKept, NeverOverRefunded, PayOf, AmtOf
  <1> QED BY <1>1, <1>2, <1>3, <1>4, <1>5, TxIsDownstream
          DEF Next, Progress, Idle, AcceptPayment, SettlePayment, vars, txVars

(* The initial state: no rows, no locks. *)
LEMMA RefundStart == RefundInit => RefundInv
  <1> SUFFICES ASSUME RefundInit PROVE RefundInv
    OBVIOUS
  <1> USE DEF RefundInit, Init
  <1>1. TxInv /\ TypeOK
    BY TxInit DEF TypeOK, TxInv, Committed
  <1>2. LockIsExclusive /\ CheckStillHolds /\ RoomIsKept
    BY DEF LockIsExclusive, CheckStillHolds, RoomIsKept, LockStages, OwnerStages
  <1>3. RefundsAreBacked /\ NeverOverRefunded /\ CentsAreFinite
    <2>1. Committed = {}
      BY DEF Committed
    <2>2. \A p \in Payments : CentsOf(p) = {}
      BY <2>1 DEF CentsOf, RowsOf
    <2>3. IsFiniteSet({}) /\ Cardinality({}) = 0
      BY FS_EmptySet
    <2>4. CentsAreFinite /\ \A p \in Payments : Reserved(p) = 0
      BY <2>2, <2>3, Zenon DEF CentsAreFinite, Reserved
    <2>5. NeverOverRefunded
      BY <2>4, RefundConstants DEF NeverOverRefunded
    <2> QED BY <2>1, <2>4, <2>5 DEF RefundsAreBacked
  <1> QED BY <1>1, <1>2, <1>3 DEF RefundInv, BackedInv

(* The part of the invariant that holds for amounts of any size. *)
THEOREM RefundBackedInvariant == Spec => []BackedInv
  <1>1. RefundInit => BackedInv
    BY RefundStart DEF RefundInv
  <1> QED BY <1>1, BackedStep, PTL DEF Spec

(* Every variable of refund.Create's model keeps its type. *)
THEOREM RefundTypes == Spec => []TypeOK
  <1>1. BackedInv => TypeOK
    BY DEF BackedInv
  <1> QED BY <1>1, RefundBackedInvariant, PTL

(* A refund is only ever recorded for a settled payment of its own tenant, *)
(* with an amount between one cent and the payment's.                      *)
THEOREM OnlyBackedRefunds == Spec => []RefundsAreBacked
  <1>1. BackedInv => RefundsAreBacked
    BY DEF BackedInv
  <1> QED BY <1>1, RefundBackedInvariant, PTL

(* Clients that sent refund.Create the same key and were served hold the   *)
(* same refund for the same request, and one of them at most a 201; what   *)
(* finding 1 takes away is only that a repeated call need not be served.   *)
THEOREM OneRefundOutcome == Spec => []OneOutcomePerKey
  <1>1. BackedInv => OneOutcomePerKey
    BY OutcomeFollows DEF BackedInv
  <1> QED BY <1>1, RefundBackedInvariant, PTL

(* A recorded refund has its ledger event, its audit row and its one       *)
(* outbox row.                                                             *)
THEOREM NoHalfRefund == Spec => []AcceptedIsComplete
  <1>1. BackedInv => AcceptedIsComplete
    BY DEF BackedInv, TxInv
  <1> QED BY <1>1, RefundBackedInvariant, PTL

(* The refunds in the table never exceed their payment, provided that      *)
(* twice the payment fits in an int64.                                     *)
THEOREM NoOverRefund ==
  ASSUME AmountsFit
  PROVE  Spec => []NeverOverRefunded
  <1>1. RefundInv /\ [Next]_vars => RefundInv'
    BY AmountsFit, BackedStep, FiniteStep, RoomStep DEF RefundInv
  <1>2. RefundInv => NeverOverRefunded
    BY DEF RefundInv
  <1> QED BY <1>1, <1>2, RefundStart, PTL DEF Spec

-----------------------------------------------------------------------------
(* refund.Create implements the idempotency contract as far as 200, 201    *)
(* and idempotency-conflict answers go.                                    *)
THEOREM RefundHonoursContract == Spec => HonoursContract
  <1>1. RefundInit => Contract!Init
    BY ContractInit DEF RefundInit
  <1>2. BackedInv /\ [Next]_vars => [Contract!Next]_(Contract!vars)
    <2> SUFFICES ASSUME BackedInv, [Next]_vars PROVE Simulates
      BY DEF Simulates
    <2>t. TxInv /\ TxTypeOK
      BY DEF BackedInv, TxInv
    <2>1. ASSUME NEW c \in Calls, postRefund(c) PROVE Simulates
      <3>1. answer[c] = "none" /\ pc[c] # "done"
        BY <2>1, <2>t DEF TxInv, StageInv, AnsweredWhenDone, postRefund
      <3>2. CASE Refuse(c, "invalid")
        BY <2>t, <3>1, <3>2, RefuseSim DEF Answers
      <3>3. CASE ~Refuse(c, "invalid")
        <4>1. /\ UNCHANGED <<rows, answer, rowid>>
              /\ \A d \in Calls \ {c} : req'[d] = req[d]
          BY <2>1, <2>t, <3>3 DEF postRefund, db, TxTypeOK
        <4> QED BY <2>t, <3>1, <4>1, SilentSim
      <3> QED BY <3>2, <3>3
    <2>2. ASSUME NEW c \in Calls, LockPayment(c) PROVE Simulates
      <3>1. answer[c] = "none" /\ pc[c] # "done"
        BY <2>2, <2>t DEF TxInv, StageInv, AnsweredWhenDone, LockPayment
      <3>2. CASE PaymentCheck(req[c]) # "ok"
        <4>1. Refuse(c, PaymentCheck(req[c]))
          BY <2>2, <3>2 DEF LockPayment
        <4>2. PaymentCheck(req[c]) \in {"not_found", "not_refundable", "invalid"}
          BY <3>2 DEF PaymentCheck
        <4> QED BY <2>t, <3>1, <4>1, <4>2, RefuseSim DEF Answers
      <3>3. CASE PaymentCheck(req[c]) = "ok"
        <4>1. /\ UNCHANGED <<rows, answer, rowid>>
              /\ \A d \in Calls \ {c} : req'[d] = req[d]
          BY <2>2, <2>t, <3>3 DEF LockPayment, db, TxTypeOK
        <4> QED BY <2>t, <3>1, <4>1, SilentSim
      <3> QED BY <3>2, <3>3
    <2>3. ASSUME NEW c \in Calls, SumReserved(c) PROVE Simulates
      <3>1. answer[c] = "none" /\ pc[c] # "done"
        BY <2>3, <2>t DEF TxInv, StageInv, AnsweredWhenDone, SumReserved
      <3>2. CASE Refuse(c, "error") \/ Refuse(c, "exceeded")
        BY <2>t, <3>1, <3>2, RefuseSim DEF Answers
      <3>3. CASE UNCHANGED <<req, rowid, answer, rows>>
        BY <2>t, <3>1, <3>3, SilentSim
      <3> QED BY <2>3, <3>2, <3>3 DEF SumReserved, db
    <2>4. ASSUME NEW c \in Calls, CreateStep(c) PROVE Simulates
      BY <2>4, <2>t, QuietSim, SelectRowSim DEF CreateStep, TxNext
    <2>5. ASSUME NEW c \in Calls, CommitRefund(c) PROVE Simulates
      BY <2>5, <2>t, CommitSim DEF CommitRefund
    <2>6. ASSUME NEW c \in Calls, ReplayRefund(c) \/ ReplyCreated(c)
          PROVE  Simulates
      BY <2>6, <2>t, AnswerSim DEF ReplayRefund, ReplyCreated
    <2>7. ASSUME NEW c \in Calls, AbortRefund(c) \/ ReplyLost(c) PROVE Simulates
      BY <2>7, <2>t, FailSim DEF AbortRefund, ReplyLost
    <2>8. CASE UNCHANGED txVars
      BY <2>8 DEF txVars, Simulates, Contract!vars, Told
    <2> QED BY <2>1, <2>2, <2>3, <2>4, <2>5, <2>6, <2>7, <2>8
            DEF Next, Progress, Idle, vars, AcceptPayment, SettlePayment
  <1> QED BY <1>1, <1>2, RefundBackedInvariant, PTL
         DEF Spec, HonoursContract, Contract!Spec

-----------------------------------------------------------------------------
(* A payment is shown with its status, a refund once its row is committed. *)
LEMMA ShownPayment ==
  ASSUME NEW p \in Payments
  PROVE  Shown[p] = payStatus[p]
  BY DEF Shown

LEMMA ShownRefund ==
  ASSUME NEW i \in Ids, NEW p \in Payments
  PROVE  Shown[<<i, p>>] = IF i \in RowsOf(p) THEN "pending" ELSE "absent"
  BY RefundConstants DEF Shown

(* One entry of Shown changes when one payment's status or one payment's   *)
(* set of refunds does.                                                    *)
LEMMA StatusMoves ==
  ASSUME NEW p \in Payments, NEW s, UNCHANGED rows,
         payStatus \in [Payments -> {"absent", "pending", "succeeded"}],
         payStatus' = [payStatus EXCEPT ![p] = s]
  PROVE  Shown' = [Shown EXCEPT ![p] = s]
  <1>1. ASSUME NEW q \in Payments PROVE RowsOf(q)' = RowsOf(q)
    BY DEF RowsOf, Committed, PayOf
  <1> QED BY <1>1, RefundConstants DEF Shown

LEMMA RefundAppears ==
  ASSUME NEW i \in Ids, NEW p \in Payments, UNCHANGED payStatus,
         \A q \in Payments :
            RowsOf(q)' = IF q = p THEN RowsOf(q) \cup {i} ELSE RowsOf(q)
  PROVE  Shown' = [Shown EXCEPT ![<<i, p>>] = "pending"]
  <1> DEFINE new == [Shown EXCEPT ![<<i, p>>] = "pending"]
  <1>1. ASSUME NEW q \in Payments PROVE Shown'[q] = new[q]
    BY <1>1, RefundConstants DEF Shown
  <1>2. ASSUME NEW k \in Ids, NEW q \in Payments
        PROVE  Shown'[<<k, q>>] = new[<<k, q>>]
    BY <1>2, RefundConstants DEF Shown
  <1> DEFINE J == Payments \cup (Ids \X Payments)
  <1>3. Shown' = [j \in J |-> Shown'[j]] /\ new = [j \in J |-> new[j]]
    BY DEF Shown
  <1>4. \A j \in J : Shown'[j] = new[j]
    <2> HIDE DEF new
    <2> QED BY <1>1, <1>2
  <1> HIDE DEF new, J
  <1>5. Shown' = new
    BY <1>3, <1>4
  <1> QED BY <1>5 DEF new

(* Refunds enter the life cycle merchants see where Settlement says they   *)
(* do: a refund appears once its payment has succeeded, never before, and  *)
(* neither disappears.                                                     *)
THEOREM RefundsFollowLifecycle == Spec => FollowsLifecycle
  <1>1. RefundInit => Merchant!Init
    BY DEF RefundInit, Init, Merchant!Init, Merchant!Jobs, Shown, RowsOf, Committed
  <1>2. BackedInv /\ [Next]_vars => [Merchant!Next]_Shown
    <2> SUFFICES ASSUME BackedInv, [Next]_vars PROVE [Merchant!Next]_Shown
      OBVIOUS
    <2>1. ASSUME NEW c \in Calls, CommitRefund(c) PROVE Merchant!Next
      <3>1. PICK i \in Ids, p \in Payments :
              /\ i = rowid[c] /\ p = PayOf(req[c]) /\ i \notin Committed
              /\ payStatus[p] = "succeeded" /\ UNCHANGED payStatus
        BY <2>1, CommitAddsRow
      <3>2. \A q \in Payments :
              RowsOf(q)' = IF q = p THEN RowsOf(q) \cup {i} ELSE RowsOf(q)
        BY <2>1, <3>1, RowsGrow
      <3>3. Shown' = [Shown EXCEPT ![<<i, p>>] = "pending"]
        BY <3>1, <3>2, RefundAppears
      <3>4. Shown[<<i, p>>] = "absent" /\ Shown[p] = "succeeded"
        BY <3>1, ShownRefund, ShownPayment DEF RowsOf
      <3>5. Merchant!AcceptRefund(<<i, p>>)
        BY <3>3, <3>4 DEF Merchant!AcceptRefund, Merchant!Move
      <3> QED BY <3>5 DEF Merchant!Next
    <2>2. ASSUME NEW p \in Payments, AcceptPayment(p) PROVE Merchant!Next
      <3>1. Shown[p] = "absent" /\ Shown' = [Shown EXCEPT ![p] = "pending"]
        BY <2>2, ShownPayment, StatusMoves DEF AcceptPayment, BackedInv, TypeOK, txVars
      <3> QED BY <3>1 DEF Merchant!Next, Merchant!AcceptPayment, Merchant!Move
    <2>3. ASSUME NEW p \in Payments, SettlePayment(p) PROVE Merchant!Next
      <3>1. Shown[p] = "pending" /\ Shown' = [Shown EXCEPT ![p] = "succeeded"]
        BY <2>3, ShownPayment, StatusMoves DEF SettlePayment, BackedInv, TypeOK, txVars
      <3> QED BY <3>1 DEF Merchant!Next, Merchant!Settle, Merchant!Move, Merchant!Jobs
    <2>4. CASE UNCHANGED <<rows, payStatus>>
      BY <2>4 DEF Shown, RowsOf, Committed, PayOf
    <2>5. ASSUME NEW c \in Calls, ~CommitRefund(c),
                 \/ Progress(c) \/ postRefund(c) \/ AbortRefund(c) \/ ReplyLost(c)
          PROVE  UNCHANGED <<rows, payStatus>>
      BY <2>5, TxIsDownstream
      DEF Progress, LockPayment, SumReserved, Refuse, Finish, db, Downstream
    <2> QED BY <2>1, <2>2, <2>3, <2>4, <2>5 DEF Next, Progress, Idle, vars, txVars
  <1> QED BY <1>1, <1>2, RefundBackedInvariant, PTL
         DEF Spec, FollowsLifecycle, Merchant!Spec

-----------------------------------------------------------------------------
(* The row an insert has run into is there when it is selected. *)
ConflictHasRow == \A c \in Calls : pc[c] = "conflict" => Matching(c) # {}

LEMMA ConflictStep ==
  ASSUME BackedInv, ConflictHasRow, [Next]_vars
  PROVE  ConflictHasRow'
  <1> USE DEF BackedInv, TxInv, TxTypeOK
  <1>1. ASSUME NEW c \in Calls, InsertRow(c) PROVE ConflictHasRow'
    BY <1>1 DEF ConflictHasRow, InsertRow, Matching, Committed, Goto, db
  <1>2. ASSUME UNCHANGED rows,
               \A d \in Calls : pc'[d] = "conflict" =>
                  pc[d] = "conflict" /\ req'[d] = req[d]
        PROVE  ConflictHasRow'
    BY <1>2 DEF ConflictHasRow, Matching, Committed
  <1>3. ASSUME NEW c \in Calls, CommitRefund(c) PROVE ConflictHasRow'
    <2>1. /\ \A j \in Committed : j \in Committed' /\ rows'[j] = rows[j]
          /\ UNCHANGED req
          /\ \A d \in Calls : pc'[d] = "conflict" => pc[d] = "conflict"
      BY <1>3, CommitAddsRow DEF CommitRefund, Commit, Committed, Goto
    <2>2. \A d \in Calls : Matching(d) \subseteq Matching(d)'
      BY <2>1 DEF Matching
    <2> QED BY <2>1, <2>2 DEF ConflictHasRow
  <1>4. ASSUME NEW c \in Calls, ~InsertRow(c), ~CommitRefund(c),
               \/ Progress(c) \/ postRefund(c) \/ AbortRefund(c) \/ ReplyLost(c)
        PROVE  /\ UNCHANGED rows
               /\ \A d \in Calls : pc'[d] = "conflict" =>
                     pc[d] = "conflict" /\ req'[d] = req[d]
    <2>1. CASE LockPayment(c) \/ SumReserved(c) \/ postRefund(c)
      BY <2>1 DEF LockPayment, SumReserved, postRefund, Refuse, Finish, Goto, db
    <2>2. CASE CreateStep(c)
      BY <1>4, <2>2 DEF CreateStep, TxNext, SelectRow, AppendLedger, WriteAudit,
                        InsertOutbox, Write, Refuse, Finish, Goto, db
    <2>3. CASE \/ ReplayRefund(c) \/ ReplyCreated(c)
               \/ AbortRefund(c) \/ ReplyLost(c)
      BY <2>3 DEF ReplayRefund, ReplyCreated, CommitReplay, Reply, AbortRefund,
                  ReplyLost, Abort, LoseReply, Refuse, Finish, Goto, db
    <2> QED BY <1>4, <2>1, <2>2, <2>3 DEF Progress
  <1>5. CASE (\E p \in Payments : AcceptPayment(p) \/ SettlePayment(p))
             \/ Idle \/ UNCHANGED vars
    BY <1>5, <1>2 DEF AcceptPayment, SettlePayment, Idle, vars, txVars
  <1> QED BY <1>1, <1>2, <1>3, <1>4, <1>5 DEF Next, Progress

(* Call c waits for the payment's row lock, or for the key, that d holds. *)
WaitsFor(c, d) ==
    \/ pc[c] = "lock" /\ Holds(d, PayOf(req[c]))
    \/ pc[c] = "insert" /\ d # c /\ Owner(d) /\ SameKey(req[d], req[c])

(* An open transaction whose next statement waits for nobody and finds     *)
(* what it selects.                                                        *)
CanGo(c) == /\ pc[c] \in TxStages
            /\ \A d \in Calls : ~WaitsFor(c, d)
            /\ pc[c] = "conflict" => Matching(c) # {}

(* No deadlock, however many refunds of one payment and one key meet:      *)
(* behind every open transaction, at most two waits away, is one that can  *)
(* go on.                                                                  *)
RefundsGoOn ==
    \A c \in Calls : pc[c] \in TxStages =>
        \E d \in Calls :
            /\ CanGo(d)
            /\ \/ c = d \/ WaitsFor(c, d)
               \/ \E e \in Calls : WaitsFor(c, e) /\ WaitsFor(e, d)

(* The payment's lock is always taken before the key, so refund calls      *)
(* never wait for each other in a circle; and the SELECT after a key       *)
(* conflict always finds the row.                                          *)
THEOREM RefundsNeverDeadlock == Spec => []RefundsGoOn
  <1>1. ConflictHasRow => RefundsGoOn
    <2> SUFFICES ASSUME ConflictHasRow, NEW c \in Calls, pc[c] \in TxStages
                 PROVE  \E d \in Calls :
                          /\ CanGo(d)
                          /\ \/ c = d \/ WaitsFor(c, d)
                             \/ \E e \in Calls : WaitsFor(c, e) /\ WaitsFor(e, d)
      BY DEF RefundsGoOn
    <2>1. ASSUME NEW d \in Calls, pc[d] \in TxStages, pc[d] \notin {"lock", "insert"}
          PROVE  CanGo(d)
      BY <2>1 DEF CanGo, WaitsFor, ConflictHasRow
    <2>2. ASSUME NEW d \in Calls, pc[d] \in TxStages, \A e \in Calls : ~WaitsFor(d, e)
          PROVE  CanGo(d)
      BY <2>2 DEF CanGo, ConflictHasRow
    <2>3. ASSUME NEW d \in Calls, NEW e \in Calls, pc[d] = "insert", WaitsFor(d, e)
          PROVE  CanGo(e)
      <3>1. pc[e] \in OwnerStages
        BY <2>3 DEF WaitsFor, Owner
      <3> QED BY <2>1, <3>1 DEF OwnerStages, TxStages
    <2>4. ASSUME NEW d \in Calls, NEW e \in Calls, pc[d] = "lock", WaitsFor(d, e)
          PROVE  pc[e] \in TxStages \ {"lock"}
      BY <2>4 DEF WaitsFor, Holds, LockStages, OwnerStages, TxStages
    <2>5. CASE pc[c] = "insert"
      BY <2>2, <2>3, <2>5
    <2>6. CASE pc[c] = "lock"
      <3>1. CASE \A e \in Calls : ~WaitsFor(c, e)
        BY <2>2, <3>1
      <3>2. ASSUME NEW e \in Calls, WaitsFor(c, e)
            PROVE  \E d \in Calls : CanGo(d) /\ (d = e \/ WaitsFor(e, d))
        BY <2>1, <2>2, <2>3, <2>4, <2>6, <3>2
      <3> QED BY <3>1, <3>2
    <2>7. CASE pc[c] \notin {"lock", "insert"}
      BY <2>1, <2>7
    <2> QED BY <2>5, <2>6, <2>7
  <1>2. RefundInit => ConflictHasRow
    BY DEF RefundInit, Init, ConflictHasRow
  <1> QED BY <1>1, <1>2, ConflictStep, RefundBackedInvariant, PTL DEF Spec
=============================================================================
