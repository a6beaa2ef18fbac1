---------------------------- MODULE FillBackend ----------------------------
(***************************************************************************)
(* The contract every FillBackend keeps, as the file comment of            *)
(* remote/mirror_backend.hpp states it and row_cache.hpp relies on it: a   *)
(* bounded first-in first-out queue; a request is refused only when the    *)
(* queue is full or the backend has been shut down; every accepted request *)
(* gets exactly one completion, some time after submit has returned.       *)
(***************************************************************************)
EXTENDS Integers, Sequences

CONSTANTS
    Requests,     \* the requests submitted, each once
    Capacity,     \* the bound of the queue
    Completion    \* what a completion can say

VARIABLES
    queue,        \* accepted requests nobody has taken yet, oldest first
    active,       \* requests taken from the queue and not completed
    answer,       \* what submit returned for each request
    completed,    \* the completions each request has received
    open          \* shutdown has not been called

vars == <<queue, active, answer, completed, open>>

Init ==
    /\ queue = <<>>
    /\ active = {}
    /\ answer = [r \in Requests |-> "new"]
    /\ completed = [r \in Requests |-> <<>>]
    /\ open = TRUE

Accept(r) ==
    /\ answer[r] = "new"
    /\ open
    /\ Len(queue) < Capacity
    /\ queue' = Append(queue, r)
    /\ answer' = [answer EXCEPT ![r] = "accepted"]
    /\ UNCHANGED <<active, completed, open>>

Refuse(r) ==
    /\ answer[r] = "new"
    /\ ~open \/ Len(queue) = Capacity
    /\ answer' = [answer EXCEPT ![r] = "refused"]
    /\ UNCHANGED <<queue, active, completed, open>>

Take ==
    /\ queue # <<>>
    /\ active' = active \cup {Head(queue)}
    /\ queue' = Tail(queue)
    /\ UNCHANGED <<answer, completed, open>>

Complete(r) ==
    /\ r \in active
    /\ completed[r] = <<>>
    /\ active' = active \ {r}
    /\ \E d \in Completion : completed' = [completed EXCEPT ![r] = <<d>>]
    /\ UNCHANGED <<queue, answer, open>>

\* shutdown takes everything that waits: it will be completed as cancelled.
Close ==
    /\ open
    /\ open' = FALSE
    /\ active' = active \cup {queue[i] : i \in DOMAIN queue}
    /\ queue' = <<>>
    /\ UNCHANGED <<answer, completed>>

Next ==
    \/ \E r \in Requests : Accept(r) \/ Refuse(r) \/ Complete(r)
    \/ Take
    \/ Close

Spec == Init /\ [][Next]_vars
=============================================================================
