------------------------------- MODULE Table -------------------------------
(***************************************************************************)
(* The class Table of row_cache.hpp: a bounded pool of resident rows,      *)
(* filled by asynchronous transfers, pinned by leases, shared by client    *)
(* threads and one completion worker.                                      *)
(*                                                                         *)
(* Granularity.  A critical section of lock_ is one step, except phase A   *)
(* of resolve_into and the loop of prefetch, which take one step per row   *)
(* while `lock` stays held.  What the code does outside lock_ (waiting for *)
(* a transfer, running the codec) is a step of its own.                    *)
(*                                                                         *)
(* The row index is abstracted to the flag `indexed` of each slot: a       *)
(* lookup finds the indexed slot that holds the key.  The counters of      *)
(* TableStats and non_free_ are left out; no branch of the code reads them.*)
(***************************************************************************)
EXTENDS Integers, Sequences, FiniteSets

CONSTANTS
    Clients,        \* the threads that call the table
    Worker,         \* the completion worker's thread
    NoThread,       \* lock_ is free
    RowCount,       \* config_.row_count: rows are 0..RowCount-1
    BudgetRows,     \* config_.budget_rows: slots are 0..BudgetRows-1
    MaxBatch,       \* config_.max_batch_rows
    MaxTickets,     \* config_.max_tickets
    Converting,     \* active_codec_ != nullptr
    ScratchRows,    \* config_.scratch_rows
    MaxChunks,      \* chunks_per_row_
    WordModulus,    \* 2^32 in the code: the width of Slot::epoch and TicketRecord::generation
    MaxGeneration,  \* bound on the number of generations (invalidate() stops being called)
    Shards,         \* the shards of a binding
    Extent,         \* Extent[g][r]: what generation g's resolver says of row r
    Requests        \* the row lists callers pass to resolve_into and prefetch

Rows == 0 .. RowCount - 1
Slots == 0 .. BudgetRows - 1
Positions == 1 .. MaxBatch
ChunkIds == 1 .. MaxChunks
Records == 1 .. MaxTickets
Scratches == 0 .. ScratchRows - 1
Generations == 0 .. MaxGeneration
Words == 0 .. WordModulus - 1
Threads == Clients \cup {Worker}

NONE == -1                 \* no slot, no scratch slot
NoBinding == -1            \* a null Binding pointer
Garbage == <<>>            \* bytes that are no row of any generation

Statuses == {"ok", "empty_range", "batch_too_large", "out_of_range", "invalid_argument",
             "pool_exhausted", "ticket_exhausted", "busy", "io_error", "codec_failed", "timeout"}

ASSUME ThreadAssumption ==
    /\ Worker \notin Clients
    /\ NoThread \notin Clients \cup {Worker}
    /\ IsFiniteSet(Clients)

ASSUME SizeAssumption ==
    /\ {RowCount, BudgetRows, MaxBatch, MaxTickets, MaxChunks, WordModulus} \subseteq Nat \ {0}
    /\ {ScratchRows, MaxGeneration} \subseteq Nat
    /\ Converting \in BOOLEAN

ASSUME InputAssumption ==
    /\ Requests \subseteq Seq(Nat)
    /\ Extent \in [Generations -> [Rows -> [status : Statuses, shard : Shards, chunks : ChunkIds]]]

VARIABLES
    lock,        \* lock_: its owner while it is held across steps
    slots,       \* slots_ and, in the field `indexed`, index_
    claims,      \* claims[s][c]: the transfer of chunk c of slot s's current fill
    dropped,     \* transfers released while in flight: they still write their destination
    output,      \* output_storage: output[s][c] is the row whose bytes chunk c of slot s holds
    scratchUsed, \* scratch_used_
    scratchData, \* scratch_storage
    generation,  \* current_generation_, which also names current_binding_
    retiring,    \* retiring_binding_
    bindFill,    \* Binding::in_flight
    inFlight,    \* in_flight_
    clockHand,   \* clock_hand_
    tickets,     \* tickets_
    waiters,     \* waiters_
    pinsTotal,   \* pins_total_
    out,         \* out[c][i]: the RowLease objects of client c
    tick,        \* tick[c]: the PrefetchTicket object of client c
    call,        \* the call a client is in
    fin,         \* the activation of finish_fill a thread is in
    sleeping,    \* the threads asleep on progress_
    worker,      \* whether worker_loop runs or has returned
    life         \* the Table object: live, stopping, destroyed; or the process: terminated

fillVars == <<claims, dropped, output, scratchUsed, scratchData, bindFill, inFlight>>
poolVars == <<slots, fillVars, clockHand, pinsTotal>>
bindVars == <<generation, retiring>>
ticketVars == <<tickets, waiters, tick>>
tableVars == <<poolVars, bindVars, ticketVars>>
sysVars == <<worker, life>>
vars == <<lock, tableVars, out, call, fin, sleeping, sysVars>>

-----------------------------------------------------------------------------
(* Records *)

NoLease == [slot |-> NONE, epoch |-> 0, row |-> 0, gen |-> 0, ready |-> FALSE]
NoTicket == [record |-> 0, generation |-> 0]
NoTally == [filled |-> 0, failed |-> 0, pending |-> 0, evicted |-> 0]
NoFinish == [pc |-> "idle", slot |-> NONE, timed |-> FALSE, status |-> "ok"]
Idle == [op |-> "none", pc |-> "idle", rows |-> <<>>, i |-> 1, rec |-> 0, timed |-> FALSE,
         status |-> "ok", tally |-> NoTally, since |-> 0]
FreeSlot == [row |-> 0, gen |-> 0, epoch |-> 0, pins |-> 0, state |-> "free", failure |-> "ok",
             referenced |-> FALSE, finishing |-> FALSE, indexed |-> FALSE,
             binding |-> NoBinding, scratch |-> NONE]
NoWaiter == [slot |-> NONE, epoch |-> 0, row |-> 0]   \* `row` is history: no code reads it

SlotRecord ==
    [row : Rows, gen : Generations, epoch : Words, pins : Nat,
     state : {"free", "filling", "ready", "failed"}, failure : Statuses,
     referenced : BOOLEAN, finishing : BOOLEAN, indexed : BOOLEAN,
     binding : Generations \cup {NoBinding}, scratch : Scratches \cup {NONE}]
LeaseRecord ==
    [slot : Slots \cup {NONE}, epoch : Words, row : Rows, gen : Generations, ready : BOOLEAN]
WaiterRecord == [slot : Slots \cup {NONE}, epoch : Words, row : Rows]
Transfer == [binding : Generations, shard : Shards, slot : Slots, chunk : ChunkIds, row : Rows]
Bytes == (Generations \X Rows) \cup {Garbage}
CallRecord ==
    [op : {"none", "resolve", "prefetch", "wait", "drain", "invalidate"},
     pc : {"idle", "reset", "admit", "drive", "finish", "blocked", "unwind", "prefetch",
           "drain", "returned"},
     rows : Requests \cup {<<>>}, i : Nat, rec : Records \cup {0}, timed : BOOLEAN,
     status : Statuses, tally : [filled : Nat, failed : Nat, pending : Nat, evicted : Nat],
     since : Generations]
FinishRecord ==
    [pc : {"idle", "begin", "wait", "publish"}, slot : Slots \cup {NONE}, timed : BOOLEAN,
     status : Statuses]

Init ==
    /\ lock = NoThread
    /\ slots = [s \in Slots |-> FreeSlot]
    /\ claims = [s \in Slots |-> [c \in ChunkIds |-> "none"]]
    /\ dropped = {}
    /\ output = [s \in Slots |-> [c \in ChunkIds |-> Garbage]]
    /\ scratchUsed = {}
    /\ scratchData = [k \in Scratches |-> Garbage]
    /\ generation = 0
    /\ retiring = NoBinding
    /\ bindFill = [g \in Generations |-> 0]
    /\ inFlight = 0
    /\ clockHand = 0
    /\ tickets = [k \in Records |-> [generation |-> 0, count |-> 0, held |-> FALSE]]
    /\ waiters = [k \in Records |-> [i \in Positions |-> NoWaiter]]
    /\ pinsTotal = 0
    /\ out = [c \in Clients |-> [i \in Positions |-> NoLease]]
    /\ tick = [c \in Clients |-> NoTicket]
    /\ call = [c \in Clients |-> Idle]
    /\ fin = [t \in Threads |-> NoFinish]
    /\ sleeping = {}
    /\ worker = "running"
    /\ life = "live"

\* A mutant: notify_one, which leaves the other threads asleep.
NotifyOne == IF sleeping = {} THEN {} ELSE sleeping \ {CHOOSE t \in sleeping : TRUE}

\* progress_.notify_all(): who is still asleep after it.
NotifyAll == {}

-----------------------------------------------------------------------------
(* Slot lifecycle: index_find, claim_victim, start_fill_locked *)

\* A mutant: a lookup that does not see rows that are still filling.
IndexedReady(s, r) ==
    slots[s].indexed /\ slots[s].state = "ready" /\ slots[s].row = r /\ slots[s].gen = generation

\* index_find(row, current_generation_): the slot whose index entry has this key.
Indexed(s, r) == slots[s].indexed /\ slots[s].row = r /\ slots[s].gen = generation
Missing(r) == \A s \in Slots : ~Indexed(s, r)

\* The CLOCK sweep: the slot under the hand at a step, and whether the sweep stops there.  A
\* referenced ready slot is passed over once, in the first round, and loses its bit.
At(k) == (clockHand + k) % BudgetRows
\* Mutants: a sweep that forgets the pins, and one that forgets that a slot is filling.
TakesPinned(k) == slots[At(k)].state # "filling"
TakesFilling(k) ==
    LET s == slots[At(k)] IN s.pins = 0 /\ (s.state # "ready" \/ ~s.referenced \/ k >= BudgetRows)
Takes(k) ==
    LET s == slots[At(k)] IN
    \/ s.state = "free"
    \/ s.pins = 0 /\ s.state = "failed"
    \/ s.pins = 0 /\ s.state = "ready" /\ (~s.referenced \/ k >= BudgetRows)
\* A mutant: the hand does not wrap around.
NextHandUnwrapped(k) == clockHand + k + 1
NextHand(k) == (clockHand + k + 1) % BudgetRows
Steps == 0 .. 2 * BudgetRows - 1
ClaimsAt(k) == Takes(k) /\ \A j \in 0 .. k - 1 : ~Takes(j)
Exhausted == \A k \in Steps : ~Takes(k)
Swept(k) ==
    [s \in Slots |->
        IF slots[s].state = "ready" /\ slots[s].pins = 0 /\ \E j \in 0 .. k - 1 : At(j) = s
        THEN [slots[s] EXCEPT !.referenced = FALSE]
        ELSE slots[s]]

\* A mutant: every fill has a TransferSet of its own, so that none refuses another's destination.
AcceptsAny(s, e, n) == TRUE

\* Sub0MemPage's TransferSet::submit refuses a destination that overlaps one of its own live
\* transfers; each binding has one TransferSet per shard, and they do not know of each other.
Accepts(s, e, n) ==
    \A d \in dropped : ~ /\ d.binding = generation
                         /\ d.shard = e.shard
                         /\ d.slot = s
                         /\ d.chunk <= n

Reads(e) == IF Converting THEN 1 ELSE e.chunks

\* A mutant: a scratch slot handed out without looking whether it is in use.
ScratchAny == IF Converting THEN {k \in Scratches : k = 0} ELSE {NONE}

\* acquire_scratch: the lowest free scratch slot, if the table converts.
ScratchFor ==
    IF Converting
    THEN {k \in Scratches \ scratchUsed : \A j \in Scratches \ scratchUsed : k <= j}
    ELSE {NONE}

\* What start_fill_locked(s, r) can end with: the resolver's error, no scratch slot, submit refusing
\* the read after `accepted` ones ("busy" stands for every refusal), or every read submitted.
FillOutcomes(s, r) ==
    LET e == Extent[generation][r]
        Fail(status, n) == [status |-> status, accepted |-> n, scratch |-> NONE]
    IN  IF e.status # "ok" THEN {Fail(e.status, 0)}
        ELSE IF ScratchFor = {} THEN {Fail("pool_exhausted", 0)}
        ELSE {Fail("busy", n) : n \in {m \in 0 .. Reads(e) - 1 : Accepts(s, e, m)}}
             \cup {[status |-> "ok", accepted |-> Reads(e), scratch |-> k] :
                      k \in {j \in ScratchFor : Accepts(s, e, Reads(e))}}

\* Mutants: a pin that is not undone when the fill does not start, and an epoch that is not bumped.
AdmittedPinned(s, r, o, pin) ==
    [slots[s] EXCEPT !.row = r, !.gen = generation, !.epoch = (@ + 1) % WordModulus, !.pins = @ + pin,
                     !.state = IF o.status = "ok" THEN "filling" ELSE "failed", !.failure = o.status,
                     !.indexed = o.status = "ok", !.binding = generation]
AdmittedSameEpoch(s, r, o, pin) ==
    [slots[s] EXCEPT !.row = r, !.gen = generation, !.pins = @ + (IF o.status = "ok" THEN pin ELSE 0),
                     !.state = IF o.status = "ok" THEN "filling" ELSE "failed", !.failure = o.status,
                     !.indexed = o.status = "ok", !.binding = generation]

AdmittedSlot(s, r, o, pin) ==
    LET ok == o.status = "ok" IN
    [row |-> r, gen |-> generation, epoch |-> (slots[s].epoch + 1) % WordModulus,
     pins |-> slots[s].pins + (IF ok THEN pin ELSE 0),
     state |-> IF ok THEN "filling" ELSE "failed", failure |-> o.status,
     referenced |-> ok /\ pin = 1, finishing |-> FALSE, indexed |-> ok,
     binding |-> IF ok THEN generation ELSE NoBinding, scratch |-> o.scratch]

\* claim_victim and then start_fill_locked: the sweep stopped at step k on slot s = At(k).
StartFill(k, s, r, o, pin) ==
    LET ok == o.status = "ok"
        e == Extent[generation][r]
    IN  /\ clockHand' = NextHand(k)
        /\ slots' = [Swept(k) EXCEPT ![s] = AdmittedSlot(s, r, o, pin)]
        /\ claims' = [claims EXCEPT ![s] =
                        [c \in ChunkIds |-> IF ok /\ c <= o.accepted THEN "pending" ELSE "none"]]
        /\ dropped' = IF ok THEN dropped
                      ELSE dropped \cup {[binding |-> generation, shard |-> e.shard, slot |-> s,
                                          chunk |-> c, row |-> r] : c \in 1 .. o.accepted}
        /\ output' = [output EXCEPT ![s] =
                        [c \in ChunkIds |-> IF ~Converting /\ c <= o.accepted THEN Garbage ELSE @[c]]]
        /\ scratchUsed' = scratchUsed \cup ({o.scratch} \ {NONE})
        /\ scratchData' = [j \in Scratches |-> IF j = o.scratch THEN Garbage ELSE scratchData[j]]
        /\ inFlight' = IF ok THEN inFlight + 1 ELSE inFlight
        /\ bindFill' = IF ok THEN [bindFill EXCEPT ![generation] = @ + 1] ELSE bindFill
        /\ sleeping' = IF ok THEN NotifyAll ELSE sleeping

-----------------------------------------------------------------------------
(* Leases, tickets and the calls that use them *)

Begin(op, pc) == [Idle EXCEPT !.op = op, !.pc = pc, !.since = generation]
Ended(c, status) == [call[c] EXCEPT !.pc = "returned", !.status = status, !.i = 1, !.timed = FALSE]
MayCall(c) == life = "live" /\ call[c].pc = "idle"

\* The checks of the arguments that resolve_into and prefetch share.
ArgumentError(rows) ==
    IF rows = <<>> THEN "empty_range"
    ELSE IF Len(rows) > MaxBatch THEN "batch_too_large"
    ELSE "ok"
InRange(rows) == \A j \in DOMAIN rows : rows[j] < RowCount

LeaseOn(s, r, epoch, gen, ready) ==
    [slot |-> s, epoch |-> epoch, row |-> r, gen |-> gen, ready |-> ready]

\* RowLease::reset of a held lease: release_lease, which terminates the process on a mismatch.
ReleaseLease(c, i) ==
    LET l == out[c][i]
        s == slots[l.slot]
    IN  /\ lock = NoThread
        /\ l.slot # NONE
        /\ out' = [out EXCEPT ![c][i] = NoLease]
        /\ IF s.epoch # l.epoch \/ s.pins = 0
           THEN life' = "terminated" /\ UNCHANGED <<slots, pinsTotal>>
           ELSE /\ slots' = [slots EXCEPT ![l.slot].pins = @ - 1]
                /\ pinsTotal' = pinsTotal - 1
                /\ UNCHANGED life
        /\ UNCHANGED <<lock, fillVars, bindVars, clockHand, ticketVars, fin, sleeping, worker>>

\* The caller drops one of its leases.
Release(c) ==
    /\ MayCall(c)
    /\ \E i \in Positions : ReleaseLease(c, i)
    /\ UNCHANGED call

\* try_get: a lease on a ready row of the current generation, stored where no lease is held; a miss
\* changes nothing but a counter.
TryGet(c) ==
    /\ MayCall(c)
    /\ lock = NoThread
    /\ \E i \in Positions, s \in Slots :
        /\ out[c][i].slot = NONE
        /\ Indexed(s, slots[s].row)
        /\ slots[s].state = "ready"
        /\ slots' = [slots EXCEPT ![s].pins = @ + 1, ![s].referenced = TRUE]
        /\ out' = [out EXCEPT ![c][i] =
                     LeaseOn(s, slots[s].row, slots[s].epoch, slots[s].gen, TRUE)]
    /\ pinsTotal' = pinsTotal + 1
    /\ UNCHANGED <<lock, fillVars, bindVars, clockHand, ticketVars, call, fin, sleeping, sysVars>>

\* resolve_into, entry: the checks that precede any effect.
CallResolve(c) ==
    /\ MayCall(c)
    /\ \E rows \in Requests :
        LET b == [Begin("resolve", "reset") EXCEPT !.rows = rows] IN
        call' = [call EXCEPT ![c] =
                   IF ArgumentError(rows) = "ok" THEN b
                   ELSE [b EXCEPT !.pc = "returned", !.status = ArgumentError(rows)]]
    /\ UNCHANGED <<lock, tableVars, out, fin, sleeping, sysVars>>

\* A mutant: the loop that resets `out` stops one short.
HeldOutShort(c) == {i \in 1 .. Len(call[c].rows) - 1 : out[c][i].slot # NONE}

\* The leases a resolve_into call has to reset, before it starts or when it fails, one by one in order.
HeldOut(c) == {i \in 1 .. Len(call[c].rows) : out[c][i].slot # NONE}

ResetOut(c) ==
    /\ call[c].pc \in {"reset", "unwind"}
    /\ \E i \in HeldOut(c) :
        /\ \A j \in HeldOut(c) : i <= j
        /\ ReleaseLease(c, i)
    /\ UNCHANGED call

\* The range check, with nothing pinned.
ResolveOutOfRange(c) ==
    /\ call[c].pc = "reset"
    /\ HeldOut(c) = {}
    /\ ~InRange(call[c].rows)
    /\ call' = [call EXCEPT ![c] = Ended(c, "out_of_range")]
    /\ UNCHANGED <<lock, tableVars, out, fin, sleeping, sysVars>>

\* Phase A takes lock_.
LockResolve(c) ==
    /\ call[c].pc = "reset"
    /\ HeldOut(c) = {}
    /\ InRange(call[c].rows)
    /\ lock = NoThread
    /\ lock' = c
    /\ call' = [call EXCEPT ![c].pc = "admit"]
    /\ UNCHANGED <<tableVars, out, fin, sleeping, sysVars>>

\* A mutant: lock_ is released between the rows of a batch.
AdmittedUnlocked(c) ==
    LET last == call[c].i = Len(call[c].rows) IN
    /\ lock' = NoThread
    /\ call' = [call EXCEPT ![c].pc = IF last THEN "drive" ELSE "admit",
                            ![c].i = IF last THEN 1 ELSE @ + 1]

\* After a row of phase A: the next row, or phase B with lock_ released.
Admitted(c) ==
    LET last == call[c].i = Len(call[c].rows) IN
    /\ lock' = IF last THEN NoThread ELSE c
    /\ call' = [call EXCEPT ![c].pc = IF last THEN "drive" ELSE "admit",
                            ![c].i = IF last THEN 1 ELSE @ + 1]
AdmitFails(c, status) ==
    /\ lock' = NoThread
    /\ call' = [call EXCEPT ![c].pc = "unwind", ![c].status = status]

AdmitHit(c) ==
    /\ call[c].pc = "admit"
    /\ \E s \in Slots :
        /\ Indexed(s, call[c].rows[call[c].i])
        /\ slots' = [slots EXCEPT ![s].pins = @ + 1, ![s].referenced = TRUE]
        /\ out' = [out EXCEPT ![c][call[c].i] =
                     LeaseOn(s, slots[s].row, slots[s].epoch, slots[s].gen, FALSE)]
    /\ pinsTotal' = pinsTotal + 1
    /\ Admitted(c)
    /\ UNCHANGED <<fillVars, bindVars, clockHand, ticketVars, fin, sleeping, sysVars>>

AdmitMiss(c) ==
    /\ call[c].pc = "admit"
    /\ LET r == call[c].rows[call[c].i] IN
        /\ Missing(r)
        /\ \E k \in Steps :
            /\ ClaimsAt(k)
            /\ \E o \in FillOutcomes(At(k), r) :
                /\ StartFill(k, At(k), r, o, 1)
                /\ IF o.status = "ok"
                   THEN /\ out' = [out EXCEPT ![c][call[c].i] =
                                     LeaseOn(At(k), r, (slots[At(k)].epoch + 1) % WordModulus,
                                             generation, FALSE)]
                        /\ pinsTotal' = pinsTotal + 1
                        /\ Admitted(c)
                   ELSE /\ AdmitFails(c, o.status)
                        /\ UNCHANGED <<out, pinsTotal>>
    /\ UNCHANGED <<bindVars, ticketVars, fin, sysVars>>

AdmitExhausted(c) ==
    /\ call[c].pc = "admit"
    /\ Missing(call[c].rows[call[c].i])
    /\ Exhausted
    /\ AdmitFails(c, "pool_exhausted")
    /\ UNCHANGED <<tableVars, out, fin, sleeping, sysVars>>

\* A failed resolve_into has reset every lease of its batch and returns the failure.
Unwound(c) ==
    /\ call[c].pc = "unwind"
    /\ HeldOut(c) = {}
    /\ call' = [call EXCEPT ![c] = Ended(c, call[c].status)]
    /\ UNCHANGED <<lock, tableVars, out, fin, sleeping, sysVars>>

-----------------------------------------------------------------------------
(* Driving a fill to its end: phase B of resolve_into, and wait *)

\* The slot and epoch the current row (resolve_into) or entry (wait) is about.
Target(c) == IF call[c].op = "resolve" THEN out[c][call[c].i] ELSE waiters[call[c].rec][call[c].i]
StillFilling(c) ==
    /\ slots[Target(c).slot].epoch = Target(c).epoch
    /\ slots[Target(c).slot].state = "filling"

\* Nobody finishes this fill yet: the caller becomes its finisher.
ClaimFill(c) ==
    /\ call[c].pc = "drive"
    /\ lock = NoThread
    /\ Target(c).slot # NONE
    /\ StillFilling(c)
    /\ ~slots[Target(c).slot].finishing
    /\ slots' = [slots EXCEPT ![Target(c).slot].finishing = TRUE]
    /\ fin' = [fin EXCEPT ![c] = [NoFinish EXCEPT !.pc = "begin", !.slot = Target(c).slot,
                                                  !.timed = call[c].timed]]
    /\ call' = [call EXCEPT ![c].pc = "finish"]
    /\ UNCHANGED <<lock, fillVars, bindVars, clockHand, ticketVars, pinsTotal, out, sleeping, sysVars>>

\* Another thread finishes it: sleep on progress_ until it is published.
AwaitFill(c) ==
    /\ \/ call[c].pc = "drive" /\ Target(c).slot # NONE /\ slots[Target(c).slot].finishing
       \/ call[c].pc = "blocked" /\ c \notin sleeping
    /\ lock = NoThread
    /\ StillFilling(c)
    /\ call' = [call EXCEPT ![c].pc = "blocked"]
    /\ sleeping' = sleeping \cup {c}
    /\ UNCHANGED <<lock, tableVars, out, fin, sysVars>>

\* The caller holds lock_ and reads the outcome: at once, after its own finish_fill, or woken.
Settles(c) ==
    /\ lock = NoThread
    /\ \/ call[c].pc = "drive" /\ Target(c).slot # NONE /\ ~StillFilling(c)
       \/ call[c].pc = "finish" /\ fin[c].pc = "idle"
       \/ call[c].pc = "blocked" /\ c \notin sleeping /\ ~StillFilling(c)

\* resolve_into: publish the lease of a ready row, or give up on the batch.
SettleRow(c) ==
    LET i == call[c].i
        s == slots[out[c][i].slot]
        last == i = Len(call[c].rows)
    IN  /\ call[c].op = "resolve"
        /\ Settles(c)
        /\ IF s.epoch = out[c][i].epoch /\ s.state = "ready"
           THEN /\ out' = [out EXCEPT ![c][i].ready = TRUE]
                /\ call' = [call EXCEPT ![c] =
                              IF last THEN Ended(c, "ok")
                              ELSE [@ EXCEPT !.pc = "drive", !.i = i + 1]]
           ELSE /\ call' = [call EXCEPT ![c].pc = "unwind",
                              ![c].status = IF s.epoch # out[c][i].epoch THEN "pool_exhausted"
                                            ELSE s.failure]
                /\ UNCHANGED out
        /\ UNCHANGED <<lock, tableVars, fin, sleeping, sysVars>>

\* A mutant: an evicted entry is passed over without being counted.
CountUnlessEvicted(c, kind, status) ==
    LET counted == [call[c] EXCEPT !.tally = IF kind = "evicted" THEN @ ELSE [@ EXCEPT ![kind] = @ + 1],
                                   !.status = status]
        last == call[c].i = tickets[call[c].rec].count
    IN  call' = [call EXCEPT ![c] =
                   IF last THEN [counted EXCEPT !.pc = "returned", !.i = 1, !.timed = FALSE]
                   ELSE [counted EXCEPT !.pc = "drive", !.i = @ + 1]]

\* wait: count the entry under `kind` and go to the next one.
Count(c, kind, status) ==
    LET tally == [call[c].tally EXCEPT ![kind] = @ + 1]
        counted == [call[c] EXCEPT !.tally = tally, !.status = status]
        last == call[c].i = tickets[call[c].rec].count
    IN  call' = [call EXCEPT ![c] =
                   IF last THEN [counted EXCEPT !.pc = "returned", !.i = 1, !.timed = FALSE]
                   ELSE [counted EXCEPT !.pc = "drive", !.i = @ + 1]]

\* An entry prefetch could not admit at all; no lock is taken.
SkipEntry(c) ==
    /\ call[c].op = "wait"
    /\ call[c].pc = "drive"
    /\ Target(c).slot = NONE
    /\ Count(c, "evicted", call[c].status)
    /\ UNCHANGED <<lock, tableVars, out, fin, sleeping, sysVars>>

SettleEntry(c) ==
    LET s == slots[Target(c).slot]
        status == call[c].status
    IN  /\ call[c].op = "wait"
        /\ Settles(c)
        /\ IF s.epoch # Target(c).epoch THEN Count(c, "evicted", status)
           ELSE IF s.state = "ready" THEN Count(c, "filled", status)
           ELSE IF s.state = "filling" THEN Count(c, "pending", "timeout")
           ELSE Count(c, "failed", IF status = "ok" THEN s.failure ELSE status)
        /\ UNCHANGED <<lock, tableVars, out, fin, sleeping, sysVars>>

\* The deadline passes while another thread finishes the row.
TimeoutEntry(c) ==
    /\ call[c].op = "wait"
    /\ call[c].pc = "blocked"
    /\ call[c].timed
    /\ lock = NoThread
    /\ StillFilling(c)
    /\ Count(c, "pending", "timeout")
    /\ sleeping' = sleeping \ {c}
    /\ UNCHANGED <<lock, tableVars, out, fin, sysVars>>

-----------------------------------------------------------------------------
(* finish_fill, by a client or by the worker *)

\* First critical section: the fill may be gone (it never is: the finisher owns it).
BeginFinish(t) ==
    /\ fin[t].pc = "begin"
    /\ lock = NoThread
    /\ fin' = [fin EXCEPT ![t] = IF slots[@.slot].state # "filling" THEN NoFinish
                                 ELSE [@ EXCEPT !.pc = "wait"]]
    /\ UNCHANGED <<lock, tableVars, out, call, sleeping, sysVars>>

\* A mutant: a read that has not failed counts as landed.
NoneFailed(s) == \A c \in ChunkIds : claims[s][c] # "failed"

\* The reads are waited for in order and the first that is not ok decides.
AllOk(s) == \A c \in ChunkIds : claims[s][c] \in {"ok", "none"}
FailedFirst(s) ==
    \E c \in ChunkIds : claims[s][c] = "failed" /\ \A b \in 1 .. c - 1 : claims[s][b] = "ok"
PendingFirst(s) ==
    \E c \in ChunkIds : claims[s][c] = "pending" /\ \A b \in 1 .. c - 1 : claims[s][b] = "ok"

\* The deadline passes in Claim::wait: the fill stays live, for the worker or a later caller.
Relinquish(t) ==
    /\ fin[t].pc = "wait"
    /\ fin[t].timed
    /\ PendingFirst(fin[t].slot)
    /\ lock = NoThread
    /\ slots' = [slots EXCEPT ![fin[t].slot].finishing = FALSE]
    /\ fin' = [fin EXCEPT ![t] = NoFinish]
    /\ sleeping' = NotifyAll
    /\ UNCHANGED <<lock, fillVars, bindVars, clockHand, ticketVars, pinsTotal, out, call, sysVars>>

\* The codec runs outside lock_, from the scratch slot into the output slot.
Convert(t) ==
    /\ Converting
    /\ fin[t].pc = "wait"
    /\ AllOk(fin[t].slot)
    /\ \E status \in {"ok", "codec_failed"} :
        /\ output' = [output EXCEPT ![fin[t].slot][1] =
                        IF status = "ok" THEN scratchData[slots[fin[t].slot].scratch] ELSE Garbage]
        /\ fin' = [fin EXCEPT ![t].pc = "publish", ![t].status = status]
    /\ UNCHANGED <<lock, slots, claims, dropped, scratchUsed, scratchData, bindFill, inFlight,
                   bindVars, clockHand, ticketVars, pinsTotal, out, call, sleeping, sysVars>>

\* Second critical section: release the claims (one still pending stays in flight, dropped), the
\* scratch slot and the counts, and publish ready or failed.
Publishes(t) ==
    /\ lock = NoThread
    /\ \/ fin[t].pc = "publish"
       \/ fin[t].pc = "wait" /\ FailedFirst(fin[t].slot)
       \/ fin[t].pc = "wait" /\ ~Converting /\ AllOk(fin[t].slot)

Published(s, status) ==
    [slots[s] EXCEPT !.state = IF status = "ok" THEN "ready" ELSE "failed",
                     !.failure = IF status = "ok" THEN @ ELSE status,
                     !.indexed = @ /\ status = "ok",
                     !.finishing = FALSE, !.binding = NoBinding, !.scratch = NONE]

Publish(t) ==
    LET s == fin[t].slot
        g == slots[s].binding
        status == IF fin[t].pc = "wait" /\ FailedFirst(s) THEN "io_error" ELSE fin[t].status
    IN  /\ Publishes(t)
        /\ slots' = [slots EXCEPT ![s] = Published(s, status)]
        /\ claims' = [claims EXCEPT ![s] = [c \in ChunkIds |-> "none"]]
        /\ dropped' = dropped \cup
             {[binding |-> g, shard |-> Extent[slots[s].gen][slots[s].row].shard, slot |-> s,
               chunk |-> c, row |-> slots[s].row] : c \in {d \in ChunkIds : claims[s][d] = "pending"}}
        /\ scratchUsed' = scratchUsed \ {slots[s].scratch}
        /\ inFlight' = inFlight - 1
        /\ bindFill' = IF g = NoBinding THEN bindFill ELSE [bindFill EXCEPT ![g] = @ - 1]
        /\ fin' = [fin EXCEPT ![t] = NoFinish]
        /\ sleeping' = NotifyAll
        /\ UNCHANGED <<lock, output, scratchData, bindVars, clockHand, ticketVars, pinsTotal, out,
                       call, sysVars>>

-----------------------------------------------------------------------------
(* prefetch, wait, the ticket's destructor *)

\* prefetch, up to its loop: argument checks, then under lock_ the first free ticket record.
CallPrefetch(c) ==
    /\ MayCall(c)
    /\ tick[c].record = 0
    /\ \E rows \in Requests :
        LET b == [Begin("prefetch", "returned") EXCEPT !.rows = rows]
            Reject(status) ==
                /\ call' = [call EXCEPT ![c] = [b EXCEPT !.status = status]]
                /\ UNCHANGED <<lock, tickets, tick>>
        IN  IF ArgumentError(rows) # "ok" THEN Reject(ArgumentError(rows))
            ELSE IF ~InRange(rows) THEN Reject("out_of_range")
            ELSE /\ lock = NoThread
                 /\ IF \A k \in Records : tickets[k].held THEN Reject("ticket_exhausted")
                    ELSE \E k \in Records :
                        LET n == (tickets[k].generation + 1) % WordModulus IN
                        /\ ~tickets[k].held
                        /\ \A j \in 1 .. k - 1 : tickets[j].held
                        /\ tickets' = [tickets EXCEPT ![k] = [generation |-> n, count |-> Len(rows),
                                                              held |-> TRUE]]
                        /\ tick' = [tick EXCEPT ![c] = [record |-> k, generation |-> n]]
                        /\ lock' = c
                        /\ call' = [call EXCEPT ![c] = [b EXCEPT !.pc = "prefetch", !.rec = k]]
    /\ UNCHANGED <<poolVars, bindVars, waiters, out, fin, sleeping, sysVars>>

\* One row of the loop has its waiter entry; after the last one lock_ is released.
Recorded(c, s, epoch) ==
    LET last == call[c].i = Len(call[c].rows) IN
    /\ waiters' = [waiters EXCEPT ![call[c].rec][call[c].i] =
                     [slot |-> s, epoch |-> epoch, row |-> call[c].rows[call[c].i]]]
    /\ lock' = IF last THEN NoThread ELSE c
    /\ call' = [call EXCEPT ![c] = IF last THEN Ended(c, "ok") ELSE [call[c] EXCEPT !.i = @ + 1]]

PrefetchHit(c) ==
    /\ call[c].pc = "prefetch"
    /\ \E s \in Slots : /\ Indexed(s, call[c].rows[call[c].i])
                        /\ Recorded(c, s, slots[s].epoch)
    /\ UNCHANGED <<poolVars, bindVars, tickets, tick, out, fin, sleeping, sysVars>>

PrefetchMiss(c) ==
    /\ call[c].pc = "prefetch"
    /\ LET r == call[c].rows[call[c].i] IN
        /\ Missing(r)
        /\ \E k \in Steps :
            /\ ClaimsAt(k)
            /\ \E o \in FillOutcomes(At(k), r) : StartFill(k, At(k), r, o, 0)
            /\ Recorded(c, At(k), (slots[At(k)].epoch + 1) % WordModulus)
    /\ UNCHANGED <<bindVars, tickets, tick, pinsTotal, out, fin, sysVars>>

PrefetchExhausted(c) ==
    /\ call[c].pc = "prefetch"
    /\ Missing(call[c].rows[call[c].i])
    /\ Exhausted
    /\ Recorded(c, NONE, 0)
    /\ UNCHANGED <<poolVars, bindVars, tickets, tick, out, fin, sleeping, sysVars>>

\* wait(ticket, deadline): any thread may wait on a ticket its holder keeps.
CallWait(c) ==
    /\ MayCall(c)
    /\ \E d \in Clients, timed \in BOOLEAN :
        /\ call[d].pc # "prefetch"
        /\ call' = [call EXCEPT ![c] =
                      IF tick[d].record = 0
                      THEN [Begin("wait", "returned") EXCEPT !.status = "invalid_argument"]
                      ELSE [Begin("wait", "drive") EXCEPT !.rec = tick[d].record, !.timed = timed]]
    /\ UNCHANGED <<lock, tableVars, out, fin, sleeping, sysVars>>

Waiting(k) == \E c \in Clients : call[c].op = "wait" /\ call[c].rec = k /\ call[c].pc # "idle"

\* PrefetchTicket::reset: discard_ticket, which terminates the process on a mismatch.  The holder
\* drops a ticket nobody is waiting on.
DropTicket(c) ==
    LET k == tick[c].record IN
    /\ MayCall(c)
    /\ tick[c].record # 0
    /\ ~Waiting(k)
    /\ lock = NoThread
    /\ tick' = [tick EXCEPT ![c] = NoTicket]
    /\ IF tickets[k].generation # tick[c].generation \/ ~tickets[k].held
       THEN life' = "terminated" /\ UNCHANGED tickets
       ELSE tickets' = [tickets EXCEPT ![k].held = FALSE] /\ UNCHANGED life
    /\ UNCHANGED <<lock, poolVars, bindVars, waiters, out, call, fin, sleeping, worker>>

-----------------------------------------------------------------------------
(* invalidate and drain *)

RetiringInUse == retiring # NoBinding /\ bindFill[retiring] # 0

\* invalidate with unusable sources, or while the binding before last still has fills in flight.
InvalidateRefused(c) ==
    /\ MayCall(c)
    /\ \E status \in {"invalid_argument", "busy"} :
        /\ status = "busy" => lock = NoThread /\ RetiringInUse
        /\ call' = [call EXCEPT ![c] = [Begin("invalidate", "returned") EXCEPT !.status = status]]
    /\ UNCHANGED <<lock, tableVars, out, fin, sleeping, sysVars>>

\* invalidate: the drained retiring binding is destroyed; the new binding is built (or that fails) and
\* becomes current under a new generation.
Invalidate(c) ==
    /\ MayCall(c)
    /\ lock = NoThread
    /\ generation < MaxGeneration
    /\ ~RetiringInUse
    /\ \E status \in {"ok", "invalid_argument"} :
        /\ retiring' = IF status = "ok" THEN generation ELSE NoBinding
        /\ generation' = IF status = "ok" THEN generation + 1 ELSE generation
        /\ call' = [call EXCEPT ![c] = [Begin("invalidate", "returned") EXCEPT !.status = status]]
    /\ UNCHANGED <<lock, poolVars, ticketVars, out, fin, sleeping, sysVars>>

CallDrain(c) ==
    /\ MayCall(c)
    /\ \E timed \in BOOLEAN :
        call' = [call EXCEPT ![c] = [Begin("drain", "drain") EXCEPT !.timed = timed]]
    /\ UNCHANGED <<lock, tableVars, out, fin, sleeping, sysVars>>

\* A mutant: drain looks at the current binding only.
DrainedCurrent == bindFill[generation] = 0

\* drain tests in_flight_ under lock_, sleeps on progress_ and tests again when it is woken.
Drained == inFlight = 0
DrainTests(c) ==
    /\ call[c].pc = "drain"
    /\ c \notin sleeping
    /\ lock = NoThread
    /\ IF Drained
       THEN call' = [call EXCEPT ![c] = Ended(c, "ok")] /\ UNCHANGED sleeping
       ELSE sleeping' = sleeping \cup {c} /\ UNCHANGED call
    /\ UNCHANGED <<lock, tableVars, out, fin, sysVars>>

DrainTimesOut(c) ==
    /\ call[c].pc = "drain"
    /\ call[c].timed
    /\ lock = NoThread
    /\ ~Drained
    /\ call' = [call EXCEPT ![c] = Ended(c, "timeout")]
    /\ sleeping' = sleeping \ {c}
    /\ UNCHANGED <<lock, tableVars, out, fin, sysVars>>

\* The caller has the result.
Return(c) ==
    /\ call[c].pc = "returned"
    /\ call' = [call EXCEPT ![c] = Idle]
    /\ UNCHANGED <<lock, tableVars, out, fin, sleeping, sysVars>>

-----------------------------------------------------------------------------
(* worker_loop *)

\* Mutants: a worker that takes over a fill that has a finisher, and one that leaves fills nobody has
\* pinned to their prefetcher.
UnclaimedAny(s) == slots[s].state = "filling"
UnclaimedPinned(s) == slots[s].state = "filling" /\ ~slots[s].finishing /\ slots[s].pins > 0

Unclaimed(s) == slots[s].state = "filling" /\ ~slots[s].finishing

WorkerClaims ==
    /\ worker = "running"
    /\ fin[Worker].pc = "idle"
    /\ Worker \notin sleeping
    /\ lock = NoThread
    /\ \E s \in Slots :
        /\ Unclaimed(s)
        /\ \A z \in 0 .. s - 1 : ~Unclaimed(z)
        /\ slots' = [slots EXCEPT ![s].finishing = TRUE]
        /\ fin' = [fin EXCEPT ![Worker] = [NoFinish EXCEPT !.pc = "begin", !.slot = s]]
    /\ UNCHANGED <<lock, fillVars, bindVars, clockHand, ticketVars, pinsTotal, out, call, sleeping,
                   sysVars>>

WorkerIdles ==
    /\ worker = "running"
    /\ fin[Worker].pc = "idle"
    /\ Worker \notin sleeping
    /\ lock = NoThread
    /\ \A s \in Slots : ~Unclaimed(s)
    /\ IF life = "stopping"
       THEN worker' = "exited" /\ UNCHANGED sleeping
       ELSE sleeping' = sleeping \cup {Worker} /\ UNCHANGED worker
    /\ UNCHANGED <<lock, tableVars, out, call, fin, life>>

-----------------------------------------------------------------------------
(* The environment: transfers completing, spurious wake-ups, destruction *)

Complete(s, c) ==
    /\ claims[s][c] = "pending"
    /\ \E result \in {"ok", "failed"} :
        LET bytes == IF result = "ok" THEN <<slots[s].gen, slots[s].row>> ELSE Garbage IN
        /\ claims' = [claims EXCEPT ![s][c] = result]
        /\ IF Converting
           THEN scratchData' = [scratchData EXCEPT ![slots[s].scratch] = bytes] /\ UNCHANGED output
           ELSE output' = [output EXCEPT ![s][c] = bytes] /\ UNCHANGED scratchData
    /\ UNCHANGED <<lock, slots, dropped, scratchUsed, bindFill, inFlight, bindVars, clockHand,
                   ticketVars, pinsTotal, out, call, fin, sleeping, sysVars>>

\* A dropped transfer completes: its bytes land although no claim waits for them.
CompleteDropped(d) ==
    /\ d \in dropped
    /\ dropped' = dropped \ {d}
    /\ \E bytes \in {<<d.binding, d.row>>, Garbage} :
         output' = [output EXCEPT ![d.slot][d.chunk] = bytes]
    /\ UNCHANGED <<lock, slots, claims, scratchUsed, scratchData, bindFill, inFlight, bindVars,
                   clockHand, ticketVars, pinsTotal, out, call, fin, sleeping, sysVars>>

SpuriousWake(t) ==
    /\ t \in sleeping
    /\ sleeping' = sleeping \ {t}
    /\ UNCHANGED <<lock, tableVars, out, call, fin, sysVars>>

Leases == {p \in Clients \X Positions : out[p[1]][p[2]].slot # NONE}

\* ~Table, called once no client is inside a call and every lease and ticket has been dropped:
\* stop_worker, then, with the worker joined, the check that terminates the process.
Destroy ==
    /\ life = "live"
    /\ \A c \in Clients : call[c].pc = "idle" /\ tick[c].record = 0
    /\ Leases = {}
    /\ life' = "stopping"
    /\ sleeping' = NotifyAll
    /\ UNCHANGED <<lock, tableVars, out, call, fin, worker>>

Destroyed ==
    /\ life = "stopping"
    /\ worker = "exited"
    /\ life' = IF inFlight # 0 \/ pinsTotal # 0 \/ \E k \in Records : tickets[k].held
               THEN "terminated" ELSE "destroyed"
    /\ UNCHANGED <<lock, tableVars, out, call, fin, sleeping, worker>>

-----------------------------------------------------------------------------
\* A client starts a call that may block or take several steps.
Start(c) ==
    \/ CallResolve(c) \/ CallPrefetch(c) \/ CallWait(c) \/ CallDrain(c)
    \/ TryGet(c) \/ Invalidate(c) \/ InvalidateRefused(c)

\* A client goes on with the call it is in; the scheduler runs it.
Continue(c) ==
    \/ ResetOut(c) \/ ResolveOutOfRange(c) \/ LockResolve(c)
    \/ AdmitHit(c) \/ AdmitMiss(c) \/ AdmitExhausted(c) \/ Unwound(c)
    \/ ClaimFill(c) \/ AwaitFill(c) \/ SettleRow(c) \/ SettleEntry(c) \/ SkipEntry(c)
    \/ PrefetchHit(c) \/ PrefetchMiss(c) \/ PrefetchExhausted(c)
    \/ DrainTests(c) \/ Return(c)

Finish(t) == BeginFinish(t) \/ Convert(t) \/ Publish(t)
WorkerStep == WorkerClaims \/ WorkerIdles
Drop(c) == Release(c) \/ DropTicket(c)
Deadline(c) == TimeoutEntry(c) \/ DrainTimesOut(c) \/ Relinquish(c)

\* Everything but the start of a call.
Progress ==
    \/ \E c \in Clients : Continue(c) \/ Drop(c) \/ Deadline(c)
    \/ \E t \in Threads : Finish(t) \/ SpuriousWake(t)
    \/ WorkerStep
    \/ \E s \in Slots, c \in ChunkIds : Complete(s, c)
    \/ \E d \in dropped : CompleteDropped(d)
    \/ Destroy
    \/ Destroyed

Next == /\ life # "terminated"
        /\ Progress \/ \E c \in Clients : Start(c)

Spec == Init /\ [][Next]_vars

\* Every variable stays in its type; in particular no slot's pins go below zero.
TypeOK ==
    /\ lock \in Clients \cup {NoThread}
    /\ slots \in [Slots -> SlotRecord]
    /\ claims \in [Slots -> [ChunkIds -> {"none", "pending", "ok", "failed"}]]
    /\ dropped \subseteq Transfer
    /\ output \in [Slots -> [ChunkIds -> Bytes]]
    /\ scratchUsed \subseteq Scratches
    /\ scratchData \in [Scratches -> Bytes]
    /\ generation \in Generations
    /\ retiring \in Generations \cup {NoBinding}
    /\ bindFill \in [Generations -> Int]
    /\ inFlight \in Int
    /\ clockHand \in Slots
    /\ tickets \in [Records -> [generation : Words, count : Nat, held : BOOLEAN]]
    /\ waiters \in [Records -> [Positions -> WaiterRecord]]
    /\ pinsTotal \in Int
    /\ out \in [Clients -> [Positions -> LeaseRecord]]
    /\ tick \in [Clients -> [record : Records \cup {0}, generation : Words]]
    /\ call \in [Clients -> CallRecord]
    /\ fin \in [Threads -> FinishRecord]
    /\ sleeping \subseteq Threads
    /\ worker \in {"running", "exited"}
    /\ life \in {"live", "stopping", "destroyed", "terminated"}
=============================================================================
