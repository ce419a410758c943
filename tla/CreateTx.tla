------------------------------ MODULE CreateTx ------------------------------
(***************************************************************************)
(* The transaction that payment.Create and refund.Create share: insert a   *)
(* row under a unique (tenant_id, idempotency_scope, idempotency_key), and *)
(* on success append to the ledger, the audit log and the outbox, commit,  *)
(* and answer; on a conflict read the stored row and answer from it.       *)
(*                                                                         *)
(* A call is one HTTP request, served by one goroutine of some API         *)
(* replica.  Each SQL statement is one step, so the calls of every replica *)
(* interleave between statements; what a transaction wrote is in rowid and *)
(* buf until Commit publishes it.  The database runs at READ COMMITTED,    *)
(* the default the pool leaves unchanged.                                  *)
(***************************************************************************)
EXTENDS Integers, FiniteSets

CONSTANTS Calls,      \* the HTTP requests
          Ids,        \* primary keys gen_random_uuid() can return
          Tenants, Keys,
          Intents,    \* what a request fingerprint tells apart
          NoId, NoReq, NoRow

Requests == [tenant : Tenants, key : Keys, intent : Intents]

ASSUME NullsAreFresh ==
    NoId \notin Ids /\ NoReq \notin Requests /\ NoRow \notin Requests

VARIABLES pc,         \* the statement each call executes next
          req,        \* the request of each call, normalised
          rowid,      \* the row a call inserted, or the one it replays
          buf,        \* tables its open transaction has written to
          answer,     \* what the client was told
          rows,       \* committed rows of the table, by primary key
          ledger,     \* rows with a committed "accepted/requested" event
          audit,      \* committed audit rows per id
          outbox      \* committed async_outbox rows per id

db     == <<rows, ledger, audit, outbox>>
txVars == <<pc, req, rowid, buf, answer, rows, ledger, audit, outbox>>

Writes == {"ledger", "audit", "outbox"}

(* Stages at which the call's own inserted row is still uncommitted. *)
OwnerStages == {"ledger", "audit", "outbox", "commit"}
(* Stages inside a transaction, from Begin to the end of Commit. *)
TxStages == {"lock", "sum", "insert", "conflict", "replay"} \cup OwnerStages
Stages   == TxStages \cup {"idle", "reply", "done"}

Answers == {"none", "created", "replayed", "mismatch", "invalid", "error",
            "lost", "not_found", "not_refundable", "exceeded"}

Init ==
    /\ pc     = [c \in Calls |-> "idle"]
    /\ req    = [c \in Calls |-> NoReq]
    /\ rowid  = [c \in Calls |-> NoId]
    /\ buf    = [c \in Calls |-> {}]
    /\ answer = [c \in Calls |-> "none"]
    /\ rows   = [i \in Ids |-> NoRow]
    /\ ledger = {}
    /\ audit  = [i \in Ids |-> 0]
    /\ outbox = [i \in Ids |-> 0]

-----------------------------------------------------------------------------
SameKey(r, s)  == r.tenant = s.tenant /\ r.key = s.key
Owner(c)       == pc[c] \in OwnerStages
Committed      == {i \in Ids : rows[i] # NoRow}
Matching(c)    == {i \in Committed : SameKey(rows[i], req[c])}

Goto(c, stage) == pc' = [pc EXCEPT ![c] = stage]

(* The end of a call.  The deferred tx.Rollback drops whatever its         *)
(* transaction had not committed; i is the resource the response names.    *)
Finish(c, a, i) ==
    /\ Goto(c, "done")
    /\ answer' = [answer EXCEPT ![c] = a]
    /\ rowid'  = [rowid EXCEPT ![c] = i]
    /\ buf'    = [buf EXCEPT ![c] = {}]

Refuse(c, a) == Finish(c, a, NoId) /\ UNCHANGED <<req, db>>

(* Mutant: the insert does not wait for a transaction that already holds   *)
(* the key in the unique index.                                            *)
KeyFreeNoWait(c) == TRUE

(* Mutant: a call that failed leaves its transaction open. *)
KeyFreeLeaked(c) == \A d \in Calls \ {c} :
    Owner(d) \/ answer[d] = "error" => ~SameKey(req[d], req[c])

(* A unique index makes an insert wait while another open transaction has  *)
(* inserted the same key: that row may yet be committed or rolled back.    *)
KeyFree(c) == \A d \in Calls \ {c} : Owner(d) => ~SameKey(req[d], req[c])

(* INSERT ... ON CONFLICT DO NOTHING RETURNING id: a committed row with    *)
(* the key yields no row, otherwise a new row with a fresh primary key.    *)
InsertRow(c) ==
    /\ pc[c] = "insert"
    /\ KeyFree(c)
    /\ IF Matching(c) # {}
         THEN /\ Goto(c, "conflict")
              /\ UNCHANGED rowid
         ELSE \E i \in Ids \ Committed :
                /\ \A d \in Calls : Owner(d) => rowid[d] # i
                /\ rowid' = [rowid EXCEPT ![c] = i]
                /\ Goto(c, "ledger")
    /\ UNCHANGED <<req, buf, answer, db>>

(* Mutant: the stored fingerprint is not compared with the request's. *)
SelectRowNoCompare(c) ==
    /\ pc[c] = "conflict"
    /\ \E i \in Matching(c) :
         /\ rowid' = [rowid EXCEPT ![c] = i]
         /\ Goto(c, "replay")
         /\ UNCHANGED <<req, buf, answer, db>>

(* The conflict branch: SELECT the stored row and compare fingerprints.    *)
(* READ COMMITTED takes a new snapshot, so the row the insert ran into is  *)
(* visible; rows are never deleted.                                        *)
SelectRow(c) ==
    /\ pc[c] = "conflict"
    /\ \E i \in Matching(c) :
         IF rows[i].intent # req[c].intent
           THEN Refuse(c, "mismatch")
           ELSE /\ rowid' = [rowid EXCEPT ![c] = i]
                /\ Goto(c, "replay")
                /\ UNCHANGED <<req, buf, answer, db>>

(* The commit of the conflict branch, which wrote nothing: 200 with the    *)
(* stored row's id.                                                        *)
CommitReplay(c) ==
    /\ pc[c] = "replay"
    /\ Finish(c, "replayed", rowid[c])
    /\ UNCHANGED <<req, db>>

(* One of the three inserts that follow a fresh row, in the order of the   *)
(* code; visible to nobody before the commit.                              *)
Write(c, table, next) ==
    /\ pc[c] = table
    /\ buf' = [buf EXCEPT ![c] = @ \cup {table}]
    /\ Goto(c, next)
    /\ UNCHANGED <<req, rowid, answer, db>>

AppendLedger(c) == Write(c, "ledger", "audit")
WriteAudit(c)   == Write(c, "audit", "outbox")

(* Mutant: the outbox row is written after the commit, on its own. *)
InsertOutboxLater(c) ==
    /\ pc[c] = "outbox"
    /\ Goto(c, "commit")
    /\ UNCHANGED <<req, rowid, buf, answer, db>>

InsertOutbox(c) == Write(c, "outbox", "commit")

(* What a commit makes visible, all at once.  The ledger is a set because  *)
(* of its unique (payment_id, dedupe_key); audit and outbox have no such   *)
(* constraint and are counted.                                             *)
Publish(c) ==
    LET i   == rowid[c]
        one == [t \in Writes |-> IF t \in buf[c] THEN 1 ELSE 0]
    IN  /\ rows'   = [rows EXCEPT ![i] = req[c]]
        /\ ledger' = IF "ledger" \in buf[c] THEN ledger \cup {i} ELSE ledger
        /\ audit'  = [audit EXCEPT ![i] = @ + one["audit"]]
        /\ outbox' = [outbox EXCEPT ![i] = @ + one["outbox"]]

Commit(c) ==
    /\ pc[c] = "commit"
    /\ Publish(c)
    /\ buf' = [buf EXCEPT ![c] = {}]
    /\ Goto(c, "reply")
    /\ UNCHANGED <<req, rowid, answer>>

(* 201 with the new row's id. *)
Reply(c) ==
    /\ pc[c] = "reply"
    /\ Finish(c, "created", rowid[c])
    /\ UNCHANGED <<req, db>>

(* A statement fails, the context is cancelled (500, if anyone still       *)
(* listens) or the process dies (no answer): the transaction rolls back.   *)
Abort(c) ==
    /\ pc[c] \in TxStages
    /\ \E a \in {"error", "lost"} : Refuse(c, a)

(* Committed, but the client does not learn it: the connection broke while *)
(* COMMIT was in flight and the handler answers 500, or the process died   *)
(* or the client left before the response was written.                     *)
LoseReply(c) ==
    /\ pc[c] = "reply"
    /\ \E a \in {"error", "lost"} : Refuse(c, a)

(* The steps from the insert on that treat payments and refunds alike. *)
TxNext(c) ==
    \/ InsertRow(c) \/ SelectRow(c)
    \/ AppendLedger(c) \/ WriteAudit(c) \/ InsertOutbox(c)

Quiescent == \A c \in Calls : pc[c] = "done"

-----------------------------------------------------------------------------
TxTypeOK ==
    /\ pc \in [Calls -> Stages]
    /\ req \in [Calls -> Requests \cup {NoReq}]
    /\ rowid \in [Calls -> Ids \cup {NoId}]
    /\ buf \in [Calls -> SUBSET Writes]
    /\ answer \in [Calls -> Answers]
    /\ rows \in [Ids -> Requests \cup {NoRow}]
    /\ ledger \subseteq Ids
    /\ audit \in [Ids -> Nat]
    /\ outbox \in [Ids -> Nat]

(* At most one row is ever committed under an idempotency key, however     *)
(* many calls race for it (the unique index and the insert that waits).    *)
OneRowPerKey ==
    \A i, j \in Committed : SameKey(rows[i], rows[j]) => i = j

(* A committed row has its ledger event and exactly one audit and one      *)
(* outbox row, and nothing of the kind exists for a row that is not        *)
(* committed: no accepted payment or refund that will never be settled,    *)
(* and none that is settled without having been accepted.                  *)
AcceptedIsComplete ==
    \A i \in Ids :
        IF rows[i] # NoRow THEN i \in ledger /\ audit[i] = 1 /\ outbox[i] = 1
                           ELSE i \notin ledger /\ audit[i] = 0 /\ outbox[i] = 0

-----------------------------------------------------------------------------
(* The strengthening that makes the two invariants above inductive. *)

(* A call in a transaction has a request, and one that inserted a row      *)
(* holds an id and a key nobody has committed.                             *)
OwnsItsRow(c) ==
    /\ pc[c] \in TxStages \cup {"reply"} => req[c] \in Requests
    /\ Owner(c) => rowid[c] \in Ids \ Committed /\ Matching(c) = {}

(* What a transaction has written follows from the statement it is at. *)
BufferInv(c) ==
    /\ pc[c] \notin {"audit", "outbox", "commit"} => buf[c] = {}
    /\ pc[c] = "audit"  => buf[c] = {"ledger"}
    /\ pc[c] = "outbox" => buf[c] = {"ledger", "audit"}
    /\ pc[c] = "commit" => buf[c] = Writes

(* A call names a row in its answer, or is about to, only if that row is   *)
(* committed and is what the call asked for.                               *)
NamesItsRow(c) ==
    pc[c] \in {"replay", "reply"} \/ answer[c] \in {"created", "replayed"}
      => rowid[c] \in Ids /\ req[c] \in Requests /\ rows[rowid[c]] = req[c]

AnsweredWhenDone(c) == answer[c] = "none" <=> pc[c] # "done"

StageInv(c) ==
    OwnsItsRow(c) /\ BufferInv(c) /\ NamesItsRow(c) /\ AnsweredWhenDone(c)

(* Open transactions that inserted a row have different rows and keys. *)
OwnersDiffer ==
    \A c, d \in Calls : c # d /\ Owner(c) /\ Owner(d) =>
        rowid[c] # rowid[d] /\ ~SameKey(req[c], req[d])

(* A row is announced as new by the call that inserted it and no other. *)
Announces(c) == pc[c] = "reply" \/ answer[c] = "created"
OneCreator ==
    \A c, d \in Calls : c # d /\ Announces(c) /\ Announces(d) =>
        rowid[c] # rowid[d]

(* The inductive invariant of the create transaction: every call is where  *)
(* its rows say it is, and the safety properties above hold.               *)
TxInv == /\ TxTypeOK
         /\ \A c \in Calls : StageInv(c)
         /\ OwnersDiffer
         /\ OneCreator
         /\ OneRowPerKey
         /\ AcceptedIsComplete

-----------------------------------------------------------------------------
(* The view of IdempotentCreate: what each client was told, and about     *)
(* which request and row.                                                  *)
Told == [c \in Calls |->
           IF answer[c] \in {"created", "replayed", "mismatch"}
             THEN <<answer[c], req[c], rowid[c]>>
             ELSE <<answer[c], NoReq, NoId>>]

Contract == INSTANCE IdempotentCreate
              WITH store <- rows, told <- Told,
                   OtherCodes <- Answers \ {"none", "created", "replayed",
                                            "mismatch"}
=============================================================================
