----------------------------- MODULE PaymentView -----------------------------
(***************************************************************************)
(* What merchants read while the workers settle: GET /v1/payments/{id} and *)
(* GET /v1/refunds/{id}.  getPayment runs two SELECTs outside any          *)
(* transaction, first the payment's row and then its ledger events, and a  *)
(* settlement may commit between them.                                     *)
(***************************************************************************)
EXTENDS Settlement

CONSTANTS Clients,    \* merchants' programs, each with one GET at a time
          Mine        \* jobs of the clients' tenant

ASSUME ViewConstants == Mine \subseteq Jobs

VARIABLES at,         \* the payment whose row a getPayment has read
          held,       \* the status it found there
          answer,     \* the 200 just given to a getPayment, until the next step
          told        \* the status it was told of a refund since its last
                      \* getPayment; "absent" is a 404 or nothing yet

viewVars == <<at, held, answer, told>>
allVars  == <<vars, viewVars>>

NothingTold == [r \in Refunds |-> "absent"]
NoAnswer == [of |-> NoJob, status |-> "absent", events |-> {},
             before |-> NothingTold]

ViewInit ==
    /\ Init
    /\ at     = [c \in Clients |-> NoJob]
    /\ held   = [c \in Clients |-> "absent"]
    /\ answer = [c \in Clients |-> NoAnswer]
    /\ told   = [c \in Clients |-> NothingTold]

-----------------------------------------------------------------------------
Silent == answer' = [c \in Clients |-> NoAnswer]

(* WHERE id = $1 AND tenant_id = $2. *)
Visible(j) == j \in Mine /\ status[j] # "absent"

(* Settlement events of a payment and of its refunds carry its id. *)
EventsOf(p) == settled \cap ({p} \cup {r \in Refunds : PaymentOf[r] = p})

(* getPayment's SELECT of the payment; an unknown one or another tenant's  *)
(* is a 404.                                                               *)
GetPayment(c, p) ==
    /\ at[c] = NoJob
    /\ Visible(p)
    /\ at'   = [at EXCEPT ![c] = p]
    /\ held' = [held EXCEPT ![c] = status[p]]
    /\ Silent
    /\ UNCHANGED <<vars, told>>

(* The end of a getPayment. *)
Respond(c) == /\ at[c] # NoJob
              /\ at'   = [at EXCEPT ![c] = NoJob]
              /\ held' = [held EXCEPT ![c] = "absent"]
              /\ told' = [told EXCEPT ![c] = NothingTold]
              /\ UNCHANGED vars

Answer(c, s, events) ==
    answer' = [d \in Clients |->
                 IF d # c THEN NoAnswer
                 ELSE [of |-> at[c], status |-> s, events |-> events,
                       before |-> told[c]]]

(* Mutant: the events are loaded first and the row after them. *)
ListByPaymentFirst(c) ==
    /\ Respond(c)
    /\ Answer(c, status[at[c]],
              IF held[c] = "succeeded" THEN EventsOf(at[c]) ELSE {})

(* ledger.ListByPayment, and the answer. *)
ListByPayment(c) == Respond(c) /\ Answer(c, held[c], EventsOf(at[c]))

(* One of the SELECTs fails: 500. *)
GetFails(c) == Respond(c) /\ Silent

(* getRefund is one SELECT. *)
getRefund(c, r) ==
    /\ at[c] = NoJob
    /\ told' = [told EXCEPT ![c][r] = IF Visible(r) THEN status[r]
                                                     ELSE "absent"]
    /\ Silent
    /\ UNCHANGED <<vars, at, held>>

-----------------------------------------------------------------------------
Get(c) == \/ \E p \in Payments : GetPayment(c, p)
          \/ ListByPayment(c) \/ GetFails(c)
          \/ \E r \in Refunds : getRefund(c, r)

ViewNext == \/ Next /\ Silent /\ UNCHANGED <<at, held, told>>
            \/ \E c \in Clients : Get(c)

(* The workers' fairness; nobody need read anything. *)
ViewSpec == /\ ViewInit /\ [][ViewNext]_allVars
            /\ \A w \in Workers : WF_vars(Work(w)) /\ SF_vars(Lock(w))

-----------------------------------------------------------------------------
(* A payment reported as succeeded is shown with its settlement event, and *)
(* a refund's event never without its payment's: the ledger in an answer   *)
(* may be ahead of the status beside it but never behind.                  *)
AnswerIsExplained ==
    \A c \in Clients :
        LET a == answer[c] IN
        a.status = "succeeded" \/ a.events # {} => a.of \in a.events

(* What a client has learnt from one endpoint holds in what it asks next   *)
(* of the other: once it has seen a refund, the payment is reported as     *)
(* succeeded, and with the refund's event if the refund had succeeded.     *)
AnswersAgree ==
    \A c \in Clients, r \in Refunds :
        LET a == answer[c] IN
        a.of = PaymentOf[r] /\ a.before[r] # "absent" =>
            /\ a.status = "succeeded"
            /\ a.before[r] = "succeeded" => r \in a.events
=============================================================================
