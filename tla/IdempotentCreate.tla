-------------------------- MODULE IdempotentCreate --------------------------
(***************************************************************************)
(* What an idempotent create promises its clients: the first writer of a   *)
(* key wins, and every answer is honest about the row that won.  No        *)
(* transactions, no stages: a row appears whole, and an answer is given at *)
(* one instant.  A row may appear without anyone being told (a lost or     *)
(* failed response); nobody is told of a row that is not there.            *)
(***************************************************************************)
CONSTANTS Calls, Ids, Requests, NoRow, NoReq, NoId,
          OtherCodes     \* answers that promise nothing about the row

VARIABLES store,    \* Ids -> Requests, or NoRow
          told      \* Calls -> what the client was told, and about what

vars == <<store, told>>

SameKey(r, s) == r.tenant = s.tenant /\ r.key = s.key

Unanswered == <<"none", NoReq, NoId>>

Init == /\ store = [i \in Ids |-> NoRow]
        /\ told  = [c \in Calls |-> Unanswered]

(* The first request for a key becomes a row, which then never changes. *)
Accept(r, i) ==
    /\ \A j \in Ids : store[j] # NoRow => ~SameKey(store[j], r)
    /\ store[i] = NoRow
    /\ store' = [store EXCEPT ![i] = r]
    /\ UNCHANGED told

Tell(c, what) == /\ told[c] = Unanswered
                 /\ told' = [told EXCEPT ![c] = what]
                 /\ UNCHANGED store

(* 201, to one client only. *)
TellCreated(c, i) ==
    /\ store[i] # NoRow
    /\ \A d \in Calls : told[d] # <<"created", store[i], i>>
    /\ Tell(c, <<"created", store[i], i>>)

(* 200: the request is the one that was accepted under its key. *)
TellReplayed(c, i) ==
    /\ store[i] # NoRow
    /\ Tell(c, <<"replayed", store[i], i>>)

(* 409: the key was accepted with another intent. *)
TellMismatch(c, r, i) ==
    /\ store[i] # NoRow
    /\ SameKey(store[i], r)
    /\ store[i] # r
    /\ Tell(c, <<"mismatch", r, NoId>>)

Next == \/ \E r \in Requests, i \in Ids : Accept(r, i)
        \/ \E c \in Calls, i \in Ids : TellCreated(c, i) \/ TellReplayed(c, i)
        \/ \E c \in Calls, r \in Requests, i \in Ids : TellMismatch(c, r, i)
        \/ \E c \in Calls, a \in OtherCodes : Tell(c, <<a, NoReq, NoId>>)

Spec == Init /\ [][Next]_vars
=============================================================================
