--------------------------- MODULE MirrorBackend ---------------------------
(***************************************************************************)
(* The class MirrorBackend of remote/mirror_backend.hpp: a bounded ring of *)
(* accepted fill requests served by a pool of worker threads, and shut     *)
(* down by any caller or by its destructor.                                *)
(*                                                                         *)
(* A critical section of mutex_ is one step.  Delivering a completion, and *)
(* reading through the Mirror before it, happen outside mutex_ and are a   *)
(* step of their own.                                                      *)
(***************************************************************************)
EXTENDS Integers, Sequences, FiniteSets

CONSTANTS
    Workers,      \* the threads of workers_
    Callers,      \* the threads that call shutdown or destroy the backend
    Requests,     \* the requests submitted, each once
    Sources,      \* source ids
    SourceOf,     \* SourceOf[r]: the source request r names
    Capacity,     \* config.queue_capacity
    MaxSources,   \* config.max_sources
    Length        \* destination.size() of every request

\* What create requires.
ASSUME ConfigAssumption ==
    /\ IsFiniteSet(Workers) /\ Workers # {}
    /\ Capacity \in Nat \ {0}
    /\ MaxSources \in Nat \ {0}
    /\ Length \in Nat \ {0}
    /\ SourceOf \in [Requests -> Sources]

VARIABLES
    ring,          \* ring_
    head,          \* head_
    ringSize,      \* ring_size_
    shuttingDown,  \* shutting_down_
    sources,       \* sources_
    stats,         \* stats_
    work,          \* what each worker is doing, and its `item`
    asleep,        \* the workers asleep on cv_
    closing,       \* where each caller is in shutdown, and whether ~MirrorBackend called it
    queued,        \* `queued` of the one shutdown call that drained the ring
    submitted,     \* what submit returned for each request
    delivered,     \* the completions each request's sink has received
    life           \* the object: live or destroyed

queueVars == <<ring, head, ringSize, shuttingDown>>
vars == <<queueVars, sources, stats, work, asleep, closing, queued, submitted, delivered, life>>

Indices == 0 .. Capacity - 1
NoItem == <<>>
Completion == [status : {"ok", "invalid_argument", "io_error", "cancelled"}, bytes : 0 .. Length]
Counters == {"accepted", "rejected", "ok", "short", "errors", "cancelled", "bytes", "inFlight",
              "highWater"}

Init ==
    /\ ring = [i \in Indices |-> NoItem]
    /\ head = 0
    /\ ringSize = 0
    /\ shuttingDown = FALSE
    /\ sources = {}
    /\ stats = [k \in Counters |-> 0]
    /\ work = [w \in Workers |-> [pc |-> "wait", item |-> NoItem]]
    /\ asleep = {}
    /\ closing = [c \in Callers |-> [pc |-> "idle", last |-> FALSE]]
    /\ queued = <<>>
    /\ submitted = [r \in Requests |-> "new"]
    /\ delivered = [r \in Requests |-> <<>>]
    /\ life = "live"

-----------------------------------------------------------------------------
(* register_mirror and submit *)

\* register_mirror, for a source that is new while the table has room; otherwise it refuses.
Register(s) ==
    /\ life = "live"
    /\ s \notin sources
    /\ Cardinality(sources) < MaxSources
    /\ sources' = sources \cup {s}
    /\ UNCHANGED <<queueVars, stats, work, asleep, closing, queued, submitted, delivered, life>>

\* A mutant: the bound of the queue is reached one request early.
RefusesEarly == shuttingDown \/ ringSize >= Capacity - 1
Refuses == shuttingDown \/ ringSize = Capacity

NextHead == (head + 1) % Capacity
End == (head + ringSize) % Capacity

\* Mutants: submit notifies nobody, or only when the queue was empty.
NotifyNobody == {asleep}
NotifyIfEmpty == IF ringSize = 0 /\ asleep # {} THEN {asleep \ {w} : w \in asleep} ELSE {asleep}

\* cv_.notify_one: the sets of workers that can still be asleep after it.
NotifyOne == IF asleep = {} THEN {asleep} ELSE {asleep \ {w} : w \in asleep}

\* submit: refused, or appended to the ring with its source looked up, and one worker notified.
SubmitRefused(r) ==
    /\ life = "live"
    /\ submitted[r] = "new"
    /\ Refuses
    /\ submitted' = [submitted EXCEPT ![r] = "refused"]
    /\ stats' = [stats EXCEPT !["rejected"] = @ + 1]
    /\ UNCHANGED <<queueVars, sources, work, asleep, closing, queued, delivered, life>>

Submit(r) ==
    /\ life = "live"
    /\ submitted[r] = "new"
    /\ ~Refuses
    /\ ring' = [ring EXCEPT ![End] = [request |-> r, known |-> SourceOf[r] \in sources]]
    /\ ringSize' = ringSize + 1
    /\ stats' = [stats EXCEPT !["accepted"] = @ + 1,
                              !["highWater"] = IF @ < ringSize + 1 THEN ringSize + 1 ELSE @]
    /\ asleep' \in NotifyOne
    /\ submitted' = [submitted EXCEPT ![r] = "accepted"]
    /\ UNCHANGED <<head, shuttingDown, sources, work, closing, queued, delivered, life>>

-----------------------------------------------------------------------------
(* worker_loop and perform *)

\* A worker tests the predicate of cv_.wait: it sleeps, returns, or takes the request at the head.
WorkerSleeps(w) ==
    /\ work[w].pc = "wait"
    /\ w \notin asleep
    /\ ringSize = 0
    /\ ~shuttingDown
    /\ asleep' = asleep \cup {w}
    /\ UNCHANGED <<queueVars, sources, stats, work, closing, queued, submitted, delivered, life>>

WorkerExits(w) ==
    /\ work[w].pc = "wait"
    /\ w \notin asleep
    /\ ringSize = 0
    /\ shuttingDown
    /\ work' = [work EXCEPT ![w].pc = "exited"]
    /\ UNCHANGED <<queueVars, sources, stats, asleep, closing, queued, submitted, delivered, life>>

WorkerTakes(w) ==
    /\ work[w].pc = "wait"
    /\ w \notin asleep
    /\ ringSize # 0
    /\ work' = [work EXCEPT ![w] = [pc |-> "perform", item |-> ring[head]]]
    /\ head' = NextHead
    /\ ringSize' = ringSize - 1
    /\ stats' = [stats EXCEPT !["inFlight"] = @ + 1]
    /\ UNCHANGED <<ring, shuttingDown, sources, asleep, closing, queued, submitted, delivered, life>>

\* What Mirror::read can return: every byte, a body that ended early, or another failure.
Outcomes ==
    {[status |-> "ok", bytes |-> Length], [status |-> "failed", bytes |-> 0]}
    \cup {[status |-> "truncated", bytes |-> b] : b \in 0 .. Length - 1}

\* The completion perform reports for an outcome: a truncated read is an ok one with fewer bytes.
Reported(outcome) ==
    IF outcome.status = "failed" THEN [status |-> "io_error", bytes |-> 0]
    ELSE [status |-> "ok", bytes |-> outcome.bytes]

\* The completions of an item: its source was unknown when it was submitted, or it is read.
Completions(item) ==
    IF item.known THEN {Reported(o) : o \in Outcomes}
    ELSE {[status |-> "invalid_argument", bytes |-> 0]}

\* perform, up to the delivery.
Deliver(w) ==
    /\ work[w].pc = "perform"
    /\ \E d \in Completions(work[w].item) :
        delivered' = [delivered EXCEPT ![work[w].item.request] = Append(@, d)]
    /\ work' = [work EXCEPT ![w].pc = "account"]
    /\ UNCHANGED <<queueVars, sources, stats, asleep, closing, queued, submitted, life>>

\* The counter a completion belongs to.
CounterOf(d) ==
    IF d.status # "ok" THEN "errors" ELSE IF d.bytes = Length THEN "ok" ELSE "short"

\* A mutant: the early return for an unknown source leaves in_flight as it is.
AccountedLeaky(w, d) ==
    [stats EXCEPT ![CounterOf(d)] = @ + 1, !["bytes"] = @ + d.bytes,
                  !["inFlight"] = IF work[w].item.known THEN @ - 1 ELSE @]
Accounted(w, d) ==
    [stats EXCEPT ![CounterOf(d)] = @ + 1, !["bytes"] = @ + d.bytes, !["inFlight"] = @ - 1]

\* perform, after the delivery: the counters, under mutex_ again.
Account(w) ==
    /\ work[w].pc = "account"
    /\ LET sent == delivered[work[w].item.request] IN
       stats' = Accounted(w, sent[Len(sent)])
    /\ work' = [work EXCEPT ![w] = [pc |-> "wait", item |-> NoItem]]
    /\ UNCHANGED <<queueVars, sources, asleep, closing, queued, submitted, delivered, life>>

SpuriousWake(w) ==
    /\ w \in asleep
    /\ asleep' = asleep \ {w}
    /\ UNCHANGED <<queueVars, sources, stats, work, closing, queued, submitted, delivered, life>>

-----------------------------------------------------------------------------
(* shutdown and the destructor *)

\* The accepted requests no worker has taken, oldest first.
Waiting == [i \in 1 .. ringSize |-> ring[(head + i - 1) % Capacity]]

\* A mutant: shutdown wakes one worker only.
StillAsleepOne == IF asleep = {} THEN {} ELSE asleep \ {CHOOSE w \in asleep : TRUE}
StillAsleep == {}

\* The critical section of shutdown, when it is the first: move the ring out and wake every worker.
CloseQueue(c, last) ==
    /\ ~shuttingDown
    /\ shuttingDown' = TRUE
    /\ queued' = Waiting
    /\ head' = (head + ringSize) % Capacity
    /\ ringSize' = 0
    /\ asleep' = StillAsleep
    /\ closing' = [closing EXCEPT ![c] = [pc |-> "cancel", last |-> last]]
    /\ UNCHANGED <<ring, sources, stats, work, submitted, delivered, life>>

\* shutdown; when another call has closed the queue before, it returns at once.
Shutdown(c) ==
    /\ life = "live"
    /\ closing[c].pc = "idle"
    /\ \/ shuttingDown /\ UNCHANGED vars
       \/ CloseQueue(c, FALSE)

\* ~MirrorBackend, with no caller inside shutdown.
Destroy(c) ==
    /\ life = "live"
    /\ \A d \in Callers : closing[d].pc = "idle"
    /\ \/ CloseQueue(c, TRUE)
       \/ /\ shuttingDown
          /\ life' = "destroyed"
          /\ UNCHANGED <<queueVars, sources, stats, work, asleep, closing, queued, submitted, delivered>>

\* One round of the loop over `queued`: deliver, then count under mutex_.
CancelNext(c) ==
    /\ closing[c].pc = "cancel"
    /\ queued # <<>>
    /\ delivered' = [delivered EXCEPT ![Head(queued).request] =
                       Append(@, [status |-> "cancelled", bytes |-> 0])]
    /\ closing' = [closing EXCEPT ![c].pc = "count"]
    /\ UNCHANGED <<queueVars, sources, stats, work, asleep, queued, submitted, life>>

CountCancelled(c) ==
    /\ closing[c].pc = "count"
    /\ stats' = [stats EXCEPT !["cancelled"] = @ + 1]
    /\ queued' = SubSeq(queued, 2, Len(queued))
    /\ closing' = [closing EXCEPT ![c].pc = "cancel"]
    /\ UNCHANGED <<queueVars, sources, work, asleep, submitted, delivered, life>>

Joined == \A w \in Workers : work[w].pc = "exited"

\* The loop of join() ends when every worker has returned; so does the call.
Join(c) ==
    /\ closing[c].pc = "cancel"
    /\ queued = <<>>
    /\ Joined
    /\ closing' = [closing EXCEPT ![c].pc = "idle"]
    /\ life' = IF closing[c].last THEN "destroyed" ELSE life
    /\ UNCHANGED <<queueVars, sources, stats, work, asleep, queued, submitted, delivered>>

-----------------------------------------------------------------------------
WorkerStep(w) ==
    WorkerSleeps(w) \/ WorkerExits(w) \/ WorkerTakes(w) \/ Deliver(w) \/ Account(w)
ShutdownStep(c) == CancelNext(c) \/ CountCancelled(c) \/ Join(c)

Next ==
    \/ \E s \in Sources : Register(s)
    \/ \E r \in Requests : Submit(r) \/ SubmitRefused(r)
    \/ \E w \in Workers : WorkerStep(w) \/ SpuriousWake(w)
    \/ \E c \in Callers : Shutdown(c) \/ Destroy(c) \/ ShutdownStep(c)

Spec == Init /\ [][Next]_vars

\* The scheduler runs every thread that can go on, and a Mirror's read returns.  Nobody has to submit,
\* shut down or destroy.
Fairness ==
    /\ \A w \in Workers : WF_vars(WorkerStep(w))
    /\ \A c \in Callers : WF_vars(ShutdownStep(c))

FairSpec == Spec /\ Fairness
=============================================================================
