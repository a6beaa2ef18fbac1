---------------------- MODULE MirrorBackendProperties ----------------------
(***************************************************************************)
(* What MirrorBackend promises, stated over module MirrorBackend.          *)
(***************************************************************************)
EXTENDS MirrorBackend

Busy == {w \in Workers : work[w].pc = "perform"}
Awake == {w \in Workers \ asleep : work[w].pc = "wait"}
Accounting == {w \in Workers : work[w].pc \in {"perform", "account"}}
Undelivered == IF \E c \in Callers : closing[c].pc = "count" THEN 2 .. Len(queued) ELSE DOMAIN queued

\* notify_one is enough: no worker sleeps while more requests wait than workers are on their way to
\* them, so a burst of submits is served by as many workers as there are.
NoIdleWorker == asleep # {} => ringSize <= Cardinality(Awake)

\* The counters account for every accepted request, and in_flight for every worker inside perform, at
\* every moment stats() can look, though they are updated after the delivery and in another section.
StatsAddUp ==
    /\ stats["inFlight"] = Cardinality(Accounting)
    /\ stats["accepted"] = stats["ok"] + stats["short"] + stats["errors"] + stats["cancelled"]
                           + stats["inFlight"] + ringSize + Len(queued)

\* Every accepted request is delivered in the end.
AcceptedIsDelivered ==
    \A r \in Requests : submitted[r] = "accepted" ~> delivered[r] # <<>>

\* shutdown and the destructor return.
ShutdownReturns == \A c \in Callers : closing[c].pc # "idle" ~> closing[c].pc = "idle"

-----------------------------------------------------------------------------
Contract == INSTANCE FillBackend WITH
    queue <- [i \in 1 .. ringSize |-> Waiting[i].request],
    active <- {work[w].item.request : w \in Busy} \cup {queued[i].request : i \in Undelivered},
    answer <- submitted,
    completed <- delivered,
    open <- ~shuttingDown

\* MirrorBackend implements the contract of a FillBackend: the ring is a bounded first-in first-out
\* queue, and every delivery is the only one of a request that was taken.
ImplementsFillBackend == Contract!Spec
=============================================================================
