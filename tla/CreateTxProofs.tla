--------------------------- MODULE CreateTxProofs ---------------------------
(***************************************************************************)
(* The create transaction keeps TxInv: one lemma per step.  The payment    *)
(* and refund modules cite them for their own specifications.              *)
(***************************************************************************)
EXTENDS CreateTx, TLAPS

(* The initial state satisfies the invariant. *)
LEMMA TxInit == Init => TxInv
  BY NullsAreFresh
  DEF Init, TxInv, TxTypeOK, StageInv, OwnersDiffer, OneCreator, OneRowPerKey,
      AcceptedIsComplete, OwnsItsRow, BufferInv, NamesItsRow,
      AnsweredWhenDone, Stages, TxStages, OwnerStages, Answers, Writes,
      Owner, Announces, Committed, Matching

(* A call that ends without naming a row keeps the invariant: whatever it  *)
(* had written is dropped.                                                 *)
LEMMA RefuseTx ==
  ASSUME TxInv, NEW c \in Calls, pc[c] # "done",
         NEW a \in Answers \ {"none", "created", "replayed"}, Refuse(c, a)
  PROVE  TxInv'
  <1> USE NullsAreFresh DEF Refuse, Finish, Goto, db, TxInv
  <1>1. TxTypeOK'
    BY DEF TxTypeOK, Stages, Answers
  <1>2. ASSUME NEW d \in Calls PROVE StageInv(d)'
    <2>1. OwnsItsRow(d)'
      BY DEF StageInv, OwnsItsRow, TxTypeOK, Owner, OwnerStages, TxStages,
             Committed, Matching, SameKey
    <2>2. BufferInv(d)'
      BY DEF StageInv, BufferInv, TxTypeOK
    <2>3. NamesItsRow(d)'
      BY DEF StageInv, NamesItsRow, TxTypeOK
    <2>4. AnsweredWhenDone(d)'
      BY DEF StageInv, AnsweredWhenDone, TxTypeOK
    <2> QED BY <2>1, <2>2, <2>3, <2>4 DEF StageInv
  <1>3. OwnersDiffer'
    BY DEF OwnersDiffer, TxTypeOK, Owner, OwnerStages, SameKey
  <1>4. OneCreator'
    BY DEF OneCreator, TxTypeOK, Announces
  <1>5. OneRowPerKey' /\ AcceptedIsComplete'
    BY DEF OneRowPerKey, AcceptedIsComplete, Committed, SameKey
  <1> QED BY <1>1, <1>2, <1>3, <1>4, <1>5

(* A fresh row takes a key and an id nobody else holds; a conflict changes *)
(* nothing but the stage.                                                  *)
LEMMA InsertRowTx ==
  ASSUME TxInv, NEW c \in Calls, InsertRow(c)
  PROVE  TxInv'
  <1> USE DEF InsertRow, Goto, db, TxInv
  <1>1. TxTypeOK'
    BY DEF TxTypeOK, Stages, TxStages, OwnerStages
  <1>a. StageInv(c) /\ req[c] \in Requests /\ KeyFree(c)
    BY DEF StageInv, OwnsItsRow, TxStages
  <1>2. ASSUME NEW d \in Calls PROVE StageInv(d)'
    <2>1. OwnsItsRow(d)'
      BY <1>a DEF StageInv, OwnsItsRow, TxTypeOK, Owner, OwnerStages, TxStages,
             Committed, Matching, SameKey
    <2>2. BufferInv(d)'
      BY DEF StageInv, BufferInv, TxTypeOK
    <2>3. NamesItsRow(d)'
      BY <1>a DEF StageInv, NamesItsRow, AnsweredWhenDone, TxTypeOK
    <2>4. AnsweredWhenDone(d)'
      BY <1>a DEF StageInv, AnsweredWhenDone, TxTypeOK
    <2> QED BY <2>1, <2>2, <2>3, <2>4 DEF StageInv
  <1>3. OwnersDiffer'
    BY <1>a DEF OwnersDiffer, KeyFree, TxTypeOK, Owner, OwnerStages, SameKey
  <1>4. OneCreator'
    BY <1>a DEF OneCreator, TxTypeOK, Announces, StageInv, AnsweredWhenDone
  <1>5. OneRowPerKey' /\ AcceptedIsComplete'
    BY DEF OneRowPerKey, AcceptedIsComplete, Committed, SameKey
  <1> QED BY <1>1, <1>2, <1>3, <1>4, <1>5

(* The conflict branch names the committed row only if it is what the call *)
(* asked for.                                                              *)
LEMMA SelectRowTx ==
  ASSUME TxInv, NEW c \in Calls, SelectRow(c)
  PROVE  TxInv'
  <1>a. StageInv(c) /\ pc[c] = "conflict" /\ req[c] \in Requests
    BY DEF SelectRow, TxInv, StageInv, OwnsItsRow, TxStages
  <1>b. PICK i \in Matching(c) :
          IF rows[i].intent # req[c].intent
            THEN Refuse(c, "mismatch")
            ELSE /\ rowid' = [rowid EXCEPT ![c] = i]
                 /\ Goto(c, "replay")
                 /\ UNCHANGED <<req, buf, answer, db>>
    BY DEF SelectRow
  <1>1. CASE Refuse(c, "mismatch")
    BY <1>a, <1>1, RefuseTx DEF Answers
  <1>2. CASE /\ rows[i].intent = req[c].intent
             /\ rowid' = [rowid EXCEPT ![c] = i]
             /\ Goto(c, "replay")
             /\ UNCHANGED <<req, buf, answer, db>>
    <2> USE <1>2 DEF Goto, db, TxInv
    <2>a. i \in Ids /\ rows[i] = req[c]
      BY <1>a, <1>b DEF Matching, Committed, SameKey, Requests, TxTypeOK
    <2>1. TxTypeOK'
      BY <2>a DEF TxTypeOK, Stages, TxStages
    <2>2. ASSUME NEW d \in Calls PROVE StageInv(d)'
      <3>1. OwnsItsRow(d)'
        BY <1>a DEF StageInv, OwnsItsRow, TxTypeOK, Owner, OwnerStages, TxStages,
               Committed, Matching, SameKey
      <3>2. BufferInv(d)'
        BY <1>a DEF StageInv, BufferInv, TxTypeOK
      <3>3. NamesItsRow(d)'
        BY <1>a, <2>a DEF StageInv, NamesItsRow, AnsweredWhenDone, TxTypeOK
      <3>4. AnsweredWhenDone(d)'
        BY <1>a DEF StageInv, AnsweredWhenDone, TxTypeOK
      <3> QED BY <3>1, <3>2, <3>3, <3>4 DEF StageInv
    <2>3. OwnersDiffer'
      BY <1>a DEF OwnersDiffer, TxTypeOK, Owner, OwnerStages, SameKey
    <2>4. OneCreator'
      BY <1>a DEF OneCreator, TxTypeOK, Announces, StageInv, AnsweredWhenDone
    <2>5. OneRowPerKey' /\ AcceptedIsComplete'
      BY DEF OneRowPerKey, AcceptedIsComplete, Committed, SameKey
    <2> QED BY <2>1, <2>2, <2>3, <2>4, <2>5
  <1> QED BY <1>b, <1>1, <1>2

(* A write stays in the call's own transaction. *)
LEMMA WriteTx ==
  ASSUME TxInv, NEW c \in Calls,
         AppendLedger(c) \/ WriteAudit(c) \/ InsertOutbox(c)
  PROVE  TxInv'
  <1> USE DEF AppendLedger, WriteAudit, InsertOutbox, Write, Goto, db, TxInv
  <1>1. TxTypeOK'
    BY DEF TxTypeOK, Stages, TxStages, OwnerStages, Writes
  <1>2. ASSUME NEW d \in Calls PROVE StageInv(d)'
    <2>1. OwnsItsRow(d)'
      BY DEF StageInv, OwnsItsRow, TxTypeOK, Owner, OwnerStages, TxStages,
             Committed, Matching, SameKey
    <2>2. BufferInv(d)'
      BY DEF StageInv, BufferInv, TxTypeOK, Writes
    <2>3. NamesItsRow(d)'
      BY DEF StageInv, NamesItsRow, TxTypeOK
    <2>4. AnsweredWhenDone(d)'
      BY DEF StageInv, AnsweredWhenDone, TxTypeOK
    <2> QED BY <2>1, <2>2, <2>3, <2>4 DEF StageInv
  <1>3. OwnersDiffer'
    BY DEF OwnersDiffer, TxTypeOK, Owner, OwnerStages, SameKey
  <1>4. OneCreator'
    BY DEF OneCreator, TxTypeOK, Announces
  <1>5. OneRowPerKey' /\ AcceptedIsComplete'
    BY DEF OneRowPerKey, AcceptedIsComplete, Committed, SameKey
  <1> QED BY <1>1, <1>2, <1>3, <1>4, <1>5

(* The commit publishes a whole row under a key and an id nobody has. *)
LEMMA CommitTx ==
  ASSUME TxInv, NEW c \in Calls, Commit(c)
  PROVE  TxInv'
  <1> USE NullsAreFresh DEF TxInv
  <1>a. /\ StageInv(c) /\ pc[c] = "commit" /\ req[c] \in Requests
        /\ rowid[c] \in Ids /\ rows[rowid[c]] = NoRow /\ Matching(c) = {}
        /\ buf[c] = {"ledger", "audit", "outbox"} /\ answer[c] = "none"
    BY DEF Commit, StageInv, OwnsItsRow, BufferInv, AnsweredWhenDone, Owner,
           OwnerStages, TxStages, Committed, Writes
  <1>b. /\ pc'     = [pc EXCEPT ![c] = "reply"]
        /\ buf'    = [buf EXCEPT ![c] = {}]
        /\ rows'   = [rows EXCEPT ![rowid[c]] = req[c]]
        /\ ledger' = ledger \cup {rowid[c]}
        /\ audit'  = [audit EXCEPT ![rowid[c]] = @ + 1]
        /\ outbox' = [outbox EXCEPT ![rowid[c]] = @ + 1]
        /\ UNCHANGED <<req, rowid, answer>>
    BY <1>a DEF Commit, Publish, Goto, Writes
  <1>c. Committed' = Committed \cup {rowid[c]}
    BY <1>a, <1>b DEF Committed, TxTypeOK
  <1>1. TxTypeOK'
    BY <1>a, <1>b DEF TxTypeOK, Stages
  <1>2. ASSUME NEW d \in Calls PROVE StageInv(d)'
    <2>1. OwnsItsRow(d)'
      <3>1. CASE d = c
        BY <3>1, <1>a, <1>b DEF OwnsItsRow, TxTypeOK, Owner, OwnerStages
      <3>2. CASE d # c
        BY <3>2, <1>a, <1>b, <1>c DEF StageInv, OwnsItsRow, OwnersDiffer, TxTypeOK,
               Owner, OwnerStages, Matching, SameKey
      <3> QED BY <3>1, <3>2
    <2>2. BufferInv(d)'
      BY <1>a, <1>b DEF StageInv, BufferInv, TxTypeOK
    <2>3. NamesItsRow(d)'
      BY <1>a, <1>b DEF StageInv, NamesItsRow, TxTypeOK
    <2>4. AnsweredWhenDone(d)'
      BY <1>a, <1>b DEF StageInv, AnsweredWhenDone, TxTypeOK
    <2> QED BY <2>1, <2>2, <2>3, <2>4 DEF StageInv
  <1>3. OwnersDiffer'
    BY <1>a, <1>b DEF OwnersDiffer, TxTypeOK, Owner, OwnerStages, SameKey
  <1>4. OneCreator'
    BY <1>a, <1>b DEF OneCreator, TxTypeOK, Announces, StageInv, NamesItsRow
  <1>5. OneRowPerKey'
    BY <1>a, <1>b, <1>c DEF OneRowPerKey, TxTypeOK, Matching, SameKey, Committed
  <1>6. AcceptedIsComplete'
    BY <1>a, <1>b DEF AcceptedIsComplete, TxTypeOK
  <1> QED BY <1>1, <1>2, <1>3, <1>4, <1>5, <1>6

(* A call that names a row in its answer was already about to. *)
LEMMA AnswerTx ==
  ASSUME TxInv, NEW c \in Calls, CommitReplay(c) \/ Reply(c)
  PROVE  TxInv'
  <1> USE DEF CommitReplay, Reply, Finish, Goto, db, TxInv
  <1>a. /\ StageInv(c) /\ rowid[c] \in Ids /\ req[c] \in Requests
        /\ rows[rowid[c]] = req[c]
    BY DEF StageInv, NamesItsRow
  <1>1. TxTypeOK'
    BY DEF TxTypeOK, Stages, Answers
  <1>2. ASSUME NEW d \in Calls PROVE StageInv(d)'
    <2>1. OwnsItsRow(d)'
      BY DEF StageInv, OwnsItsRow, TxTypeOK, Owner, OwnerStages, TxStages,
             Committed, Matching, SameKey
    <2>2. BufferInv(d)'
      BY DEF StageInv, BufferInv, TxTypeOK
    <2>3. NamesItsRow(d)'
      BY <1>a DEF StageInv, NamesItsRow, TxTypeOK
    <2>4. AnsweredWhenDone(d)'
      BY DEF StageInv, AnsweredWhenDone, TxTypeOK
    <2> QED BY <2>1, <2>2, <2>3, <2>4 DEF StageInv
  <1>3. OwnersDiffer'
    BY DEF OwnersDiffer, TxTypeOK, Owner, OwnerStages, SameKey
  <1>4. OneCreator'
    BY <1>a DEF OneCreator, TxTypeOK, Announces, StageInv, AnsweredWhenDone
  <1>5. OneRowPerKey' /\ AcceptedIsComplete'
    BY DEF OneRowPerKey, AcceptedIsComplete, Committed, SameKey
  <1> QED BY <1>1, <1>2, <1>3, <1>4, <1>5

(* A rollback or a lost response. *)
LEMMA FailTx ==
  ASSUME TxInv, NEW c \in Calls, Abort(c) \/ LoseReply(c)
  PROVE  TxInv'
  <1>1. pc[c] # "done"
    BY DEF Abort, LoseReply, TxStages, OwnerStages
  <1>2. PICK a \in {"error", "lost"} : Refuse(c, a)
    BY DEF Abort, LoseReply
  <1> QED BY <1>1, <1>2, RefuseTx DEF Answers

(* Steps of the handler before its insert: they set the request and move   *)
(* between stages that hold no row.                                        *)
LEMMA EarlyTx ==
  ASSUME TxInv, NEW c \in Calls, pc[c] \in {"idle", "lock", "sum"},
         NEW r \in Requests, NEW s \in {"lock", "sum", "insert"},
         req' = [req EXCEPT ![c] = r], Goto(c, s),
         UNCHANGED <<rowid, buf, answer, db>>
  PROVE  TxInv'
  <1> USE DEF Goto, db, TxInv
  <1>1. TxTypeOK'
    BY DEF TxTypeOK, Stages, TxStages
  <1>2. ASSUME NEW d \in Calls PROVE StageInv(d)'
    <2>1. OwnsItsRow(d)'
      BY DEF StageInv, OwnsItsRow, TxTypeOK, Owner, OwnerStages, TxStages,
             Committed, Matching, SameKey
    <2>2. BufferInv(d)'
      BY DEF StageInv, BufferInv, TxTypeOK
    <2>3. NamesItsRow(d)'
      BY DEF StageInv, NamesItsRow, AnsweredWhenDone, TxTypeOK
    <2>4. AnsweredWhenDone(d)'
      BY DEF StageInv, AnsweredWhenDone, TxTypeOK
    <2> QED BY <2>1, <2>2, <2>3, <2>4 DEF StageInv
  <1>3. OwnersDiffer'
    BY DEF OwnersDiffer, TxTypeOK, Owner, OwnerStages, SameKey
  <1>4. OneCreator'
    BY DEF OneCreator, TxTypeOK, Announces, StageInv, AnsweredWhenDone
  <1>5. OneRowPerKey' /\ AcceptedIsComplete'
    BY DEF OneRowPerKey, AcceptedIsComplete, Committed, SameKey
  <1> QED BY <1>1, <1>2, <1>3, <1>4, <1>5

(* Nothing the transaction owns changes. *)
LEMMA StutterTx == TxInv /\ UNCHANGED txVars => TxInv'
  BY DEF TxInv, TxTypeOK, StageInv, OwnsItsRow, BufferInv, NamesItsRow,
         AnsweredWhenDone, OwnersDiffer, OneCreator, OneRowPerKey,
         AcceptedIsComplete, Announces, Owner, Committed, Matching, SameKey,
         txVars
-----------------------------------------------------------------------------
(* Each step of the transaction is a step of the contract, or changes      *)
(* nothing the contract speaks of.                                         *)
Simulates == [Contract!Next]_(Contract!vars)

(* What clients were told, and the table, are untouched. *)
LEMMA SilentSim ==
  ASSUME TxInv, NEW c \in Calls, UNCHANGED <<rows, answer>>, answer[c] = "none",
         \A d \in Calls \ {c} : req'[d] = req[d] /\ rowid'[d] = rowid[d]
  PROVE  Simulates
  <1>1. Told' = Told
    BY DEF Told
  <1> QED BY <1>1 DEF Simulates, Contract!vars

(* Ending one call changes what that client was told and nothing else. *)
LEMMA FinishTold ==
  ASSUME TxInv, NEW c \in Calls, NEW a \in Answers, NEW i, Finish(c, a, i),
         UNCHANGED req
  PROVE  Told' = [Told EXCEPT ![c] =
                    IF a \in {"created", "replayed", "mismatch"}
                      THEN <<a, req[c], i>> ELSE <<a, NoReq, NoId>>]
  BY DEF Told, Finish, TxInv, TxTypeOK

(* A call that is not done has not been told anything. *)
LEMMA NotYetTold ==
  ASSUME TxInv, NEW c \in Calls, pc[c] # "done"
  PROVE  Told[c] = Contract!Unanswered
  BY DEF Told, TxInv, StageInv, AnsweredWhenDone, Contract!Unanswered

(* A refusal that says nothing of the row. *)
LEMMA RefuseSim ==
  ASSUME TxInv, NEW c \in Calls, pc[c] # "done",
         NEW a \in Answers \ {"none", "created", "replayed", "mismatch"},
         Refuse(c, a)
  PROVE  Simulates
  <1>1. Told' = [Told EXCEPT ![c] = <<a, NoReq, NoId>>]
    BY FinishTold DEF Refuse
  <1>2. Contract!Tell(c, <<a, NoReq, NoId>>)
    BY <1>1, NotYetTold DEF Contract!Tell, Refuse, db
  <1> QED BY <1>2 DEF Simulates, Contract!Next

(* A mismatch is told only of a committed row with the key and another     *)
(* intent.                                                                 *)
LEMMA SelectRowSim ==
  ASSUME TxInv, NEW c \in Calls, SelectRow(c)
  PROVE  Simulates
  <1>a. /\ pc[c] = "conflict" /\ req[c] \in Requests /\ answer[c] = "none"
        /\ TxTypeOK
    BY DEF SelectRow, TxInv, StageInv, OwnsItsRow, TxStages, AnsweredWhenDone
  <1>b. PICK i \in Matching(c) :
          IF rows[i].intent # req[c].intent
            THEN Refuse(c, "mismatch")
            ELSE /\ rowid' = [rowid EXCEPT ![c] = i]
                 /\ Goto(c, "replay")
                 /\ UNCHANGED <<req, buf, answer, db>>
    BY DEF SelectRow
  <1>1. CASE rows[i].intent # req[c].intent
    <2>1. Told' = [Told EXCEPT ![c] = <<"mismatch", req[c], NoId>>]
      BY <1>b, <1>1, FinishTold DEF Refuse, Answers
    <2>2. Contract!Tell(c, <<"mismatch", req[c], NoId>>)
      BY <1>a, <1>b, <1>1, <2>1, NotYetTold DEF Contract!Tell, Refuse, db
    <2>3. i \in Ids /\ rows[i] # NoRow /\ rows[i] # req[c]
          /\ Contract!SameKey(rows[i], req[c])
      BY <1>1 DEF Matching, Committed, SameKey, Contract!SameKey
    <2>4. Contract!TellMismatch(c, req[c], i)
      BY <2>2, <2>3 DEF Contract!TellMismatch
    <2> QED BY <1>a, <2>3, <2>4 DEF Simulates, Contract!Next
  <1>2. CASE rows[i].intent = req[c].intent
    BY <1>a, <1>b, <1>2, SilentSim DEF TxTypeOK, db
  <1> QED BY <1>1, <1>2

(* The insert and the writes that follow are invisible. *)
LEMMA QuietSim ==
  ASSUME TxInv, NEW c \in Calls,
         InsertRow(c) \/ AppendLedger(c) \/ WriteAudit(c) \/ InsertOutbox(c)
  PROVE  Simulates
  <1>1. UNCHANGED <<rows, answer, req>> /\ answer[c] = "none"
    BY DEF InsertRow, AppendLedger, WriteAudit, InsertOutbox, Write, db, TxInv,
           StageInv, AnsweredWhenDone
  <1>2. \A d \in Calls \ {c} : rowid'[d] = rowid[d]
    BY DEF InsertRow, AppendLedger, WriteAudit, InsertOutbox, Write, TxInv,
           TxTypeOK
  <1> QED BY <1>1, <1>2, SilentSim

(* The commit is the instant at which the contract accepts the request. *)
LEMMA CommitSim ==
  ASSUME TxInv, NEW c \in Calls, Commit(c)
  PROVE  Simulates
  <1>1. /\ req[c] \in Requests /\ rowid[c] \in Ids /\ rows[rowid[c]] = NoRow
        /\ Matching(c) = {}
    BY DEF Commit, TxInv, StageInv, OwnsItsRow, Owner, OwnerStages, TxStages,
           Committed
  <1>2. Told' = Told
    BY DEF Commit, Told
  <1>3. \A j \in Ids : rows[j] # NoRow => ~Contract!SameKey(rows[j], req[c])
    BY <1>1 DEF Matching, Committed, SameKey, Contract!SameKey
  <1>4. Contract!Accept(req[c], rowid[c])
    BY <1>1, <1>2, <1>3 DEF Contract!Accept, Commit, Publish
  <1> QED BY <1>1, <1>4 DEF Simulates, Contract!Next

(* 200 and 201 name a committed row that is what the call asked for, and   *)
(* 201 names it for the first time.                                        *)
LEMMA AnswerSim ==
  ASSUME TxInv, NEW c \in Calls, CommitReplay(c) \/ Reply(c)
  PROVE  Simulates
  <1>1. /\ rowid[c] \in Ids /\ req[c] \in Requests /\ rows[rowid[c]] = req[c]
        /\ pc[c] # "done" /\ req[c] # NoRow
    BY NullsAreFresh DEF TxInv, StageInv, NamesItsRow, CommitReplay, Reply
  <1>2. CASE CommitReplay(c)
    <2>1. Told' = [Told EXCEPT ![c] = <<"replayed", req[c], rowid[c]>>]
      BY <1>2, FinishTold DEF CommitReplay, Answers
    <2>2. Contract!TellReplayed(c, rowid[c])
      BY <1>1, <1>2, <2>1, NotYetTold
      DEF Contract!TellReplayed, Contract!Tell, CommitReplay, db
    <2> QED BY <1>1, <2>2 DEF Simulates, Contract!Next
  <1>3. CASE Reply(c)
    <2>1. Told' = [Told EXCEPT ![c] = <<"created", req[c], rowid[c]>>]
      BY <1>3, FinishTold DEF Reply, Answers
    <2>2. \A d \in Calls : Told[d] # <<"created", rows[rowid[c]], rowid[c]>>
      BY <1>1, <1>3 DEF Told, TxInv, OneCreator, Announces, Reply, StageInv,
                        AnsweredWhenDone
    <2>3. Contract!TellCreated(c, rowid[c])
      BY <1>1, <1>3, <2>1, <2>2, NotYetTold
      DEF Contract!TellCreated, Contract!Tell, Reply, db
    <2> QED BY <1>1, <2>3 DEF Simulates, Contract!Next
  <1> QED BY <1>2, <1>3

(* A rollback or a lost response. *)
LEMMA FailSim ==
  ASSUME TxInv, NEW c \in Calls, Abort(c) \/ LoseReply(c)
  PROVE  Simulates
  <1>1. pc[c] # "done"
    BY DEF Abort, LoseReply, TxStages, OwnerStages
  <1>2. PICK a \in {"error", "lost"} : Refuse(c, a)
    BY DEF Abort, LoseReply
  <1> QED BY <1>1, <1>2, RefuseSim DEF Answers

(* Initially nobody has been told anything and the table is empty. *)
LEMMA ContractInit == Init => Contract!Init
  BY DEF Init, Contract!Init, Contract!Unanswered, Told
-----------------------------------------------------------------------------
(* What clients that sent the same key can conclude by comparing their     *)
(* answers: all who were served sent the same request and were given the   *)
(* same row, and only one of them was told that it created it.             *)
Served(c) == answer[c] \in {"created", "replayed"}
OneOutcomePerKey ==
    \A c, d \in Calls : Served(c) /\ Served(d) /\ SameKey(req[c], req[d]) =>
        /\ rowid[c] = rowid[d] /\ req[c] = req[d]
        /\ answer[c] = "created" /\ answer[d] = "created" => c = d

(* It follows from what each answer says of the table, for two answers     *)
(* given at any time: rows are never changed once committed.               *)
LEMMA OutcomeFollows == TxInv => OneOutcomePerKey
  <1> SUFFICES ASSUME TxInv, NEW c \in Calls, NEW d \in Calls,
                      Served(c), Served(d), SameKey(req[c], req[d])
               PROVE  /\ rowid[c] = rowid[d] /\ req[c] = req[d]
                      /\ answer[c] = "created" /\ answer[d] = "created" => c = d
    BY DEF OneOutcomePerKey
  <1>1. /\ rowid[c] \in Committed /\ rows[rowid[c]] = req[c]
        /\ rowid[d] \in Committed /\ rows[rowid[d]] = req[d]
    BY NullsAreFresh DEF TxInv, StageInv, NamesItsRow, Served, Committed
  <1>2. rowid[c] = rowid[d]
    BY <1>1 DEF TxInv, OneRowPerKey
  <1> QED BY <1>1, <1>2 DEF TxInv, OneCreator, Announces

=============================================================================
