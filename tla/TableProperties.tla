-------------------------- MODULE TableProperties --------------------------
(***************************************************************************)
(* What the class Table promises its callers, stated over module Table.    *)
(***************************************************************************)
EXTENDS Table

LeasesOn(s) == {p \in Clients \X Positions : out[p[1]][p[2]].slot = s}
Filling == {s \in Slots : slots[s].state = "filling"}
FillingUnder(g) == {s \in Filling : slots[s].binding = g}
Finishers(s) == {t \in Threads : fin[t].pc # "idle" /\ fin[t].slot = s}
Alive(g) == g = generation \/ g = retiring

\* A held RowLease names the row its slot holds, in the generation it was admitted under, and the slot
\* is pinned for it: claim_victim and start_fill_locked never reuse a leased slot, so release_lease
\* finds the epoch it expects.  A lease that resolve_into or try_get has published is of a ready slot.
LeasesNameTheirSlot ==
    \A c \in Clients, i \in Positions :
        LET l == out[c][i] IN
        l.slot # NONE =>
            /\ slots[l.slot].epoch = l.epoch
            /\ slots[l.slot].row = l.row
            /\ slots[l.slot].gen = l.gen
            /\ slots[l.slot].pins > 0
            /\ slots[l.slot].state # "free"
            /\ l.ready => slots[l.slot].state = "ready"

\* pins counts exactly the leases on the slot, and pins_total_ all leases: unwinding a failed batch,
\* resetting `out` and dropping leases neither leak a pin nor release one twice.
PinsCountLeases ==
    /\ \A s \in Slots : slots[s].pins = Cardinality(LeasesOn(s))
    /\ pinsTotal = Cardinality(Leases)

\* R5: one key is fetched and resident at most once.  A filling slot is findable, so a concurrent
\* request for its row joins it, and no two slots answer for one (row, generation).
OneSlotPerKey ==
    /\ \A s \in Filling : slots[s].indexed
    /\ \A s, z \in Slots :
        /\ slots[s].indexed /\ slots[z].indexed
        /\ slots[s].row = slots[z].row /\ slots[s].gen = slots[z].gen
        => s = z

\* A ready slot holds the bytes of its own row and generation, in every chunk: no late, dropped,
\* superseded or failed transfer has written there.  Where rows have several reads (fill_chunk_bytes), a
\* read dropped by finish_fill or by a partial submission still lands, and the slot is safe only because
\* the TransferSet of its shard refuses the next fill meanwhile: over several shards, or after an
\* invalidate, the property fails (the run table_chunk_shards).
ReadyHoldsItsRow ==
    \A s \in Slots : slots[s].state = "ready" =>
        \A c \in 1 .. Reads(Extent[slots[s].gen][slots[s].row]) :
            output[s][c] = <<slots[s].gen, slots[s].row>>

\* in_flight_ and Binding::in_flight count the filling slots, and a fill's binding has not been
\* destroyed: invalidate gives up a retiring binding only when no fill still points at it.
FillsAreCounted ==
    /\ inFlight = Cardinality(Filling)
    /\ \A g \in Generations : bindFill[g] = Cardinality(FillingUnder(g))
    /\ \A s \in Filling : Alive(slots[s].binding)

\* Slot::finishing is held by exactly one thread inside finish_fill, and only while the slot fills:
\* a fill is never finished twice, nor its claims read by two threads.
OneFinisher ==
    /\ \A s \in Slots : Cardinality(Finishers(s)) = IF slots[s].finishing THEN 1 ELSE 0
    /\ \A t \in Threads : fin[t].pc # "idle" => slots[fin[t].slot].state = "filling"

\* A scratch slot is in use by exactly one filling slot, and given back whichever way the fill ends.
ScratchIsOwned ==
    \A k \in Scratches :
        Cardinality({s \in Slots : slots[s].scratch = k}) = IF k \in scratchUsed THEN 1 ELSE 0

\* resolve_into is all or nothing: it returns a ready lease for every row, or holds none.
ResolveIsAllOrNothing ==
    \A c \in Clients :
        /\ call[c].pc = "returned" /\ call[c].op = "resolve"
        /\ ArgumentError(call[c].rows) = "ok"
        => \A j \in 1 .. Len(call[c].rows) :
              IF call[c].status = "ok"
              THEN out[c][j].slot # NONE /\ out[c][j].ready /\ out[c][j].row = call[c].rows[j]
              ELSE out[c][j].slot = NONE

\* R4: the leases of one successful batch are all of one generation, current at some moment of the
\* call, however invalidate interleaves with its waiting.
BatchIsOneGeneration ==
    \A c \in Clients :
        /\ call[c].pc = "returned" /\ call[c].op = "resolve" /\ call[c].status = "ok"
        => \E g \in call[c].since .. generation :
              \A j \in 1 .. Len(call[c].rows) : out[c][j].gen = g

\* A waiter entry whose epoch still matches its slot is about the row that was prefetched: wait never
\* counts another row's fill as this one's.  (Slot::epoch must not wrap around under a held ticket.)
EntriesNameTheirRow ==
    \A k \in Records : tickets[k].held =>
        \A i \in Positions :
            LET w == waiters[k][i] IN
            /\ i <= tickets[k].count
            /\ \A c \in Clients : ~(call[c].pc = "prefetch" /\ call[c].rec = k)
            /\ w.slot # NONE
            /\ slots[w.slot].epoch = w.epoch
            => slots[w.slot].row = w.row

\* wait accounts for every entry once; it reports timeout exactly if an entry is pending, which takes
\* a deadline, and ok only if no entry failed or is pending.  (The comment of WaitOutcome promises more,
\* ok "only if every named row filled"; the code returns ok over evicted entries too.)
WaitReportAddsUp ==
    \A c \in Clients :
        LET t == call[c].tally IN
        call[c].pc = "returned" /\ call[c].op = "wait" /\ call[c].rec # 0 =>
            /\ t.filled + t.failed + t.pending + t.evicted = tickets[call[c].rec].count
            /\ call[c].status = "timeout" <=> t.pending > 0
            /\ call[c].status = "ok" => t.failed + t.pending = 0

\* No lost wake-up on progress_: nobody sleeps past the event it waits for.  An unclaimed fill finds
\* the worker awake, a caller asleep on a fill has one to wait for, and drain sleeps only over fills.
NobodySleepsTooLong ==
    /\ (\E s \in Slots : Unclaimed(s)) => Worker \notin sleeping
    /\ \A c \in Clients \cap sleeping :
        IF call[c].pc = "drain" THEN inFlight # 0 ELSE StillFilling(c)

\* The std::terminate calls of release_lease, discard_ticket and ~Table are never reached by callers
\* that drop their leases and tickets before destroying the table.  That holds of the code even if they
\* did not drain it, for the worker finishes every fill before it is joined; the comments on the class
\* and on stop_worker say that such a destruction terminates and that teardown never drains.
NeverTerminates == life # "terminated"

\* A pinned or filling slot keeps its key: no step of claim_victim or start_fill_locked takes it.
KeptWhileInUse ==
    [][\A s \in Slots :
        slots[s].pins > 0 \/ slots[s].state = "filling" =>
            /\ slots'[s].epoch = slots[s].epoch
            /\ slots'[s].row = slots[s].row
            /\ slots'[s].gen = slots[s].gen
            /\ slots'[s].state # "free"]_vars

\* drain, where every row has one read: when it returns ok, no transfer of the table is in flight, under
\* whatever binding it was started.  With several reads per row a read dropped by a failed fill may still
\* be in flight, for drain counts fills; with one, no read is ever dropped.
DrainMeansQuiet ==
    [][\A c \in Clients :
        call[c].pc = "drain" /\ call'[c].pc = "returned" /\ call'[c].status = "ok" =>
            dropped = {} /\ \A s \in Slots, k \in ChunkIds : claims[s][k] # "pending"]_vars

\* Every call of a client returns.
CallsReturn ==
    \A c \in Clients : call[c].pc # "idle" ~> call[c].pc \in {"idle", "returned"}

\* Every fill ends, also one whose caller has dropped its ticket or timed out.
FillsEnd == \A s \in Slots : slots[s].state = "filling" ~> slots[s].state # "filling"
=============================================================================
