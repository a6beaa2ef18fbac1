-------------------------- MODULE SizeClassedTable --------------------------
(***************************************************************************)
(* SizeClassedTable: registration, which sorts rows into classes by length *)
(* and splits the storage between one Table per class, and the calls that  *)
(* route to those tables.  The bytes of the storage are modelled, each by  *)
(* the shard and the offset it came from, so that what a lease shows can   *)
(* be compared with the row it was asked for.                              *)
(*                                                                         *)
(* A class table is modelled by its protocol (module Table has its         *)
(* details): a slot is free, filling, ready or failed and has pins; any    *)
(* slot that is neither pinned nor filling may be taken; whoever finishes  *)
(* a fill does so in one step; a read whose fill has failed before it goes *)
(* on writing.  The aligned, chunked window of a fill is exact.            *)
(***************************************************************************)
EXTENDS FillWindow, Sequences, FiniteSets, FiniteSetsExt, Functions

CONSTANTS
    Callers,      \* threads
    Prefetcher,   \* the one that may call prefetch: it takes one caller at a time
    NoCaller,     \* a table's lock_ is free
    Configs,      \* registrations
    Served,       \* the registrations whose tables are then called: the others are only created
    Requests,     \* the row lists callers pass
    OutSize,      \* leases a caller keeps
    CallLimit,    \* bound on the calls of each thread
    Precision     \* a share is computed to one part in Precision: 2^51 with the two roundings of a double

ASSUME ClassedAssumption ==
    /\ Prefetcher \in Callers
    /\ NoCaller \notin Callers
    /\ Served \subseteq Configs
    /\ OutSize \in Nat \ {0}
    /\ CallLimit \in [Callers -> Nat]

ASSUME PrecisionAssumption == Precision \in Nat \ {0}

\* The rows of a registration are numbered from 0, its shards from 1; sources[n] is the size of shard n.
ASSUME ConfigsAssumption ==
    \A cfg \in Configs :
        /\ IsFiniteSet(DOMAIN cfg.extent)
        /\ DOMAIN cfg.extent = 0 .. Cardinality(DOMAIN cfg.extent) - 1
        /\ \A r \in DOMAIN cfg.extent : cfg.extent[r] \in [status : STRING, shard : Nat, offset : Nat, length : Nat]
        /\ cfg.sources \in Seq(Nat)
        /\ {cfg.storage, cfg.base, cfg.batch} \subseteq Nat
        /\ {cfg.tickets, cfg.alignment, cfg.chunk, cfg.maxClasses} \subseteq Nat

\* resolve_into refuses a list that is empty or longer than its leases before it does anything else.
ASSUME RequestsAssumption ==
    \A request \in Requests : request \in Seq(Nat) /\ Len(request) \in 1 .. OutSize

Garbage == <<>>  \* a byte of the storage that no read has filled, or one that failed
NONE == -1       \* no row, no slot

VARIABLES
    config,    \* SizeClassedTableConfig
    created,   \* what create returned; "none" before
    layout,    \* classes_, class_of_, local_of_, global_of_ and the slices of the storage
    slots,     \* slots[c][k]: slot k of the table of class c
    dropped,   \* reads in flight that no slot waits for any more
    storage,   \* output_storage
    lock,      \* lock[c]: who holds lock_ of class c's table across steps
    out,       \* out[t][i]: the RowLease objects of caller t
    call,      \* the call a thread is in
    calls      \* how many calls each thread may still make

vars == <<config, created, layout, slots, dropped, storage, lock, out, call, calls>>

-----------------------------------------------------------------------------
(* create: the classes *)

Rows(cfg) == DOMAIN cfg.extent
RowCount(cfg) == Cardinality(Rows(cfg))
WidthsTo(cfg, r) == {cfg.extent[q].length : q \in 0 .. r}

\* What the scan makes of row r.
RowStatus(cfg, r) ==
    IF cfg.extent[r].status # "ok" THEN cfg.extent[r].status
    ELSE IF cfg.extent[r].length = 0 \/ Cardinality(WidthsTo(cfg, r)) > cfg.maxClasses
    THEN "invalid_argument" ELSE "ok"
\* The first row that is refused decides.
ScanStatus(cfg) ==
    LET bad == {r \in Rows(cfg) : RowStatus(cfg, r) # "ok"}
    IN  IF bad = {} THEN "ok" ELSE RowStatus(cfg, CHOOSE r \in bad : \A q \in bad : r <= q)

\* The elements of a set of numbers in increasing order.
Sorted(S) == [n \in 1 .. Cardinality(S) |-> CHOOSE x \in S : Cardinality({y \in S : y < x}) = n - 1]

\* The classes are numbered by increasing width, the rows of a class in their own order.
Widths(cfg) == {cfg.extent[r].length : r \in Rows(cfg)}
ClassOf(cfg, r) == Cardinality({w \in Widths(cfg) : w <= cfg.extent[r].length})
GlobalOf(cfg, w) == Sorted({r \in Rows(cfg) : cfg.extent[r].length = w})
LocalOf(cfg, r) == Cardinality({q \in 0 .. r - 1 : cfg.extent[q].length = cfg.extent[r].length})

-----------------------------------------------------------------------------
(* create: the split of the storage.  A class is named by its width w. *)

ClassRows(cfg, w) == Cardinality({r \in Rows(cfg) : cfg.extent[r].length = w})
SlotBytes(cfg, w) == SlotFor(w, cfg.alignment)
TotalBytes(cfg) == SumFunction([w \in Widths(cfg) |-> ClassRows(cfg, w) * SlotBytes(cfg, w)])

\* A mutant: every class gets the same share.
SharesEven(cfg, w) == {cfg.storage \div Cardinality(Widths(cfg))}
\* The bytes of a class's share.  They are computed in floating point and cut off: rounding may move the
\* result across a whole number, down or up.
Shares(cfg, w) ==
    LET exact == ClassRows(cfg, w) * SlotBytes(cfg, w) * cfg.storage
        total == TotalBytes(cfg)
    IN  (exact * (Precision - 1)) \div (total * Precision) .. (exact * (Precision + 1)) \div (total * Precision)

Budget(cfg, w, share) == Lesser(share \div SlotBytes(cfg, w), ClassRows(cfg, w))
\* Two batches of rows or the whole class.
Enough(cfg, w, share) == Budget(cfg, w, share) >= Lesser(2 * cfg.batch, ClassRows(cfg, w))

\* The storage that the classes in `ws` use, and where the slice of a class starts.
Used(cfg, share, ws) ==
    SumFunctionOnSet([w \in Widths(cfg) |-> Budget(cfg, w, share[w]) * SlotBytes(cfg, w)], ws)
Slice(cfg, share, w) == Used(cfg, share, {v \in Widths(cfg) : v < w})

LayoutOf(cfg, share) ==
    LET widths == Sorted(Widths(cfg))
    IN  [classOf |-> [r \in Rows(cfg) |-> ClassOf(cfg, r)],
         localOf |-> [r \in Rows(cfg) |-> LocalOf(cfg, r)],
         globalOf |-> [c \in DOMAIN widths |-> GlobalOf(cfg, widths[c])],
         classes |-> [c \in DOMAIN widths |->
                        [width |-> widths[c], slotBytes |-> SlotBytes(cfg, widths[c]),
                         budget |-> Budget(cfg, widths[c], share[widths[c]]),
                         at |-> Slice(cfg, share, widths[c])]]]

PowersOfTwo == {2 ^ n : n \in 0 .. 30}   \* to 2^63 in the code

\* Table::create accepts the class, an identity table over its slice: the sources, the ticket pool, the
\* alignment of the slice and of the chunks.
TableAccepts(cfg, cls) ==
    /\ cfg.sources # <<>> /\ \A bytes \in Range(cfg.sources) : bytes > 0
    /\ cfg.tickets > 0
    /\ cls.budget > 0
    /\ cfg.alignment # 0 =>
        /\ cfg.alignment \in PowersOfTwo
        /\ (cfg.base + cls.at) % cfg.alignment = 0
        /\ cfg.chunk % cfg.alignment = 0

-----------------------------------------------------------------------------
NoLease == [cls |-> 0, slot |-> NONE, row |-> NONE, from |-> 0, bytes |-> 0, asked |-> NONE]
FreeSlot == [row |-> NONE, state |-> "free", pins |-> 0, reads |-> <<>>, head |-> 0]
NoLayout == [classOf |-> <<>>, localOf |-> <<>>, globalOf |-> <<>>, classes |-> <<>>]
Idle == [op |-> "none", pc |-> "idle", rows |-> <<>>, i |-> 1, cls |-> 1, status |-> "ok",
         before |-> <<>>, await |-> {}]

Init ==
    /\ config \in Configs
    /\ created = "none"
    /\ layout = NoLayout
    /\ slots = <<>>
    /\ dropped = {}
    /\ storage = [b \in 0 .. config.storage - 1 |-> Garbage]
    /\ lock = <<>>
    /\ out = [t \in Callers |-> [i \in 1 .. OutSize |-> NoLease]]
    /\ call = [t \in Callers |-> Idle]
    /\ calls = CallLimit

CreateRefused(status) ==
    /\ created' = status
    /\ UNCHANGED <<config, layout, slots, dropped, storage, lock, out, call, calls>>

\* The shares that rounding may give; the split is refused as a whole.
Splits(cfg) ==
    {share \in [Widths(cfg) -> UNION {Shares(cfg, w) : w \in Widths(cfg)}] :
        \A w \in Widths(cfg) : share[w] \in Shares(cfg, w)}
Fits(cfg, share) ==
    /\ \A w \in Widths(cfg) : Enough(cfg, w, share[w])
    /\ Used(cfg, share, Widths(cfg)) <= cfg.storage
    /\ \A cls \in Range(LayoutOf(cfg, share).classes) : TableAccepts(cfg, cls)

Create ==
    /\ created = "none"
    /\ IF RowCount(config) = 0 \/ config.batch = 0 \/ config.maxClasses = 0
       THEN CreateRefused("invalid_argument")
       ELSE IF ScanStatus(config) # "ok"
       THEN CreateRefused(ScanStatus(config))
       ELSE \E share \in Splits(config) :
            IF ~Fits(config, share)
            THEN CreateRefused("invalid_argument")
            ELSE /\ created' = "ok"
                 /\ layout' = LayoutOf(config, share)
                 /\ slots' = [c \in DOMAIN layout'.classes |->
                                [k \in 0 .. layout'.classes[c].budget - 1 |-> FreeSlot]]
                 /\ lock' = [c \in DOMAIN layout'.classes |-> NoCaller]
                 /\ UNCHANGED <<config, dropped, storage, out, call, calls>>

-----------------------------------------------------------------------------
(* The fill of a slot *)

Extent(c, row) == config.extent[layout.globalOf[c][row + 1]]   \* ClassResolver
Base(c, k) == layout.classes[c].at + k * layout.classes[c].slotBytes

\* The reads of slot k of class c for an extent.
SlotReads(c, k, e) ==
    LET reads == ReadsOf(e, Base(c, k), config.alignment, config.chunk, config.sources[e.shard])
    IN  [n \in DOMAIN reads |-> [shard |-> e.shard, from |-> reads[n].from, to |-> reads[n].to,
                                 length |-> reads[n].length, state |-> "pending"]]

InSource(e) ==
    /\ e.shard \in DOMAIN config.sources
    /\ e.offset <= config.sources[e.shard] /\ e.length <= config.sources[e.shard] - e.offset

Apart(a, b) == a.to + a.length <= b.to \/ b.to + b.length <= a.to

\* A TransferSet accepts a read only if its destination overlaps none of its own that is in flight; a slot
\* that may be taken waits for no read, so those are dropped ones.  Each shard has a TransferSet.
Submittable(read) == \A d \in dropped : d.shard = read.shard => Apart(read, d)

\* How many reads start_fill_locked may get accepted before submit refuses one, for whatever reason.
Accepted(reads) == {n \in 0 .. Len(reads) : \A m \in 1 .. n : Submittable(reads[m])}

\* start_fill_locked: `row` of class c into slot k.  A fill that does not start leaves the slot failed,
\* and reads that were already accepted in flight.
StartFill(c, k, row, pin) ==
    LET e == Extent(c, row)
        reads == SlotReads(c, k, e)
        failed == [FreeSlot EXCEPT !.row = row, !.state = "failed"]
    IN  IF ~InSource(e)
        THEN slots' = [slots EXCEPT ![c][k] = failed] /\ dropped' = dropped
        ELSE \E n \in Accepted(reads) :
            IF n < Len(reads)
            THEN /\ slots' = [slots EXCEPT ![c][k] = failed]
                 /\ dropped' = dropped \cup {reads[m] : m \in 1 .. n}
            ELSE /\ slots' = [slots EXCEPT ![c][k] =
                                [row |-> row, state |-> "filling", pins |-> pin, reads |-> reads,
                                 head |-> HeadOf(e.offset, config.alignment)]]
                 /\ dropped' = dropped

\* index_find, and which slots claim_victim may take
Indexed(c, k, row) == slots[c][k].row = row /\ slots[c][k].state \in {"filling", "ready"}
Missing(c, row) == \A k \in DOMAIN slots[c] : ~Indexed(c, k, row)
Takeable(c, k) == slots[c][k].pins = 0 /\ slots[c][k].state # "filling"

\* A read ends, well or not: its slot waits for it, or nobody does.
Copied(r, failed) ==
    [b \in DOMAIN storage |->
        IF b < r.to \/ b >= r.to + r.length THEN storage[b]
        ELSE IF failed THEN Garbage ELSE <<r.shard, r.from + (b - r.to)>>]
ReadEnds ==
    \E c \in DOMAIN slots, failed \in BOOLEAN : \E k \in DOMAIN slots[c] : \E n \in DOMAIN slots[c][k].reads :
        LET r == slots[c][k].reads[n] IN
        /\ r.state = "pending"
        /\ storage' = Copied(r, failed)
        /\ slots' = [slots EXCEPT ![c][k].reads[n].state = IF failed THEN "failed" ELSE "ok"]
        /\ UNCHANGED <<config, created, layout, dropped, lock, out, call, calls>>
DroppedEnds ==
    \E r \in dropped, failed \in BOOLEAN :
        /\ storage' = Copied(r, failed)
        /\ dropped' = dropped \ {r}
        /\ UNCHANGED <<config, created, layout, slots, lock, out, call, calls>>

\* finish_fill, by a caller or by the worker of the class table: it waits for the reads in their order,
\* and the first that failed decides.
Undecided(reads) ==
    {n \in DOMAIN reads : reads[n].state # "ok" /\ \A m \in 1 .. n - 1 : reads[m].state = "ok"}
FinishFill ==
    \E c \in DOMAIN slots : \E k \in DOMAIN slots[c] :
        LET reads == slots[c][k].reads IN
        /\ slots[c][k].state = "filling"
        /\ lock[c] = NoCaller
        /\ \A n \in Undecided(reads) : reads[n].state = "failed"
        /\ slots' = [slots EXCEPT ![c][k].state = IF Undecided(reads) = {} THEN "ready" ELSE "failed",
                                  ![c][k].reads = <<>>]
        /\ dropped' = dropped \cup {r \in Range(reads) : r.state = "pending"}
        /\ call' = [t \in Callers |-> [call[t] EXCEPT !.await = @ \ {<<c, k>>}]]
        /\ UNCHANGED <<config, created, layout, storage, lock, out, calls>>

-----------------------------------------------------------------------------
(* Calls *)

Free(c, t) == lock[c] \in {NoCaller, t}

MayCall(t) == created = "ok" /\ config \in Served /\ call[t].pc = "idle" /\ calls[t] > 0
Begin(t, start) ==
    /\ MayCall(t)
    /\ call' = [call EXCEPT ![t] = start]
    /\ calls' = [calls EXCEPT ![t] = @ - 1]
    /\ UNCHANGED <<config, created, layout, dropped, storage, lock>>
Continue == UNCHANGED <<config, created, layout, storage, calls>>
Returned(t, status) == [call[t] EXCEPT !.pc = "returned", !.status = status]
Return(t) ==
    /\ call[t].pc = "returned"
    /\ call' = [call EXCEPT ![t] = Idle]
    /\ Continue /\ UNCHANGED <<slots, dropped, lock, out>>

\* RowLease::reset
Release(t, i) ==
    /\ out[t][i] # NoLease
    /\ Free(out[t][i].cls, t)
    /\ slots' = [slots EXCEPT ![out[t][i].cls][out[t][i].slot].pins = @ - 1]
    /\ out' = [out EXCEPT ![t][i] = NoLease]
DropLease(t) ==
    /\ call[t].pc = "idle"
    /\ \E i \in 1 .. OutSize : Release(t, i)
    /\ Continue /\ UNCHANGED <<dropped, lock, call>>

\* A lease on slot k of class c, with no bytes yet.  row_index_ is the index the class table knows; `asked`,
\* the row the caller named, is history: no code reads it.
PinnedLease(c, k, row) ==
    [NoLease EXCEPT !.cls = c, !.slot = k, !.row = layout.localOf[row], !.asked = row]
\* Its bytes when the slot is ready: the row's own, head bytes into the slot.
ReadyLease(lease) ==
    [lease EXCEPT !.from = Base(lease.cls, lease.slot) + slots[lease.cls][lease.slot].head,
                  !.bytes = layout.classes[lease.cls].width]

\* try_get of a row that is resident; otherwise it changes nothing.
TryGet(t) ==
    /\ MayCall(t)
    /\ out[t][1] = NoLease
    /\ \E request \in Requests : \E row \in {Head(request)} \cap Rows(config) :
        LET c == layout.classOf[row] IN
        \E k \in DOMAIN slots[c] :
            /\ lock[c] = NoCaller
            /\ Indexed(c, k, layout.localOf[row])
            /\ slots[c][k].state = "ready"
            /\ slots' = [slots EXCEPT ![c][k].pins = @ + 1]
            /\ out' = [out EXCEPT ![t][1] = ReadyLease(PinnedLease(c, k, row))]
    /\ Begin(t, [Idle EXCEPT !.op = "try", !.pc = "returned"])

-----------------------------------------------------------------------------
(* resolve_into: row after row, each by the table of its class *)

CallResolve(t) ==
    /\ \E request \in Requests :
        Begin(t, [Idle EXCEPT !.op = "resolve", !.pc = "row", !.rows = request, !.before = out[t]])
    /\ UNCHANGED <<slots, out>>

Row(t) == call[t].rows[call[t].i]

ResolveOutOfRange(t) ==
    /\ call[t].pc = "row"
    /\ Row(t) \notin Rows(config)
    /\ call' = [call EXCEPT ![t].pc = "unwind", ![t].status = "out_of_range", ![t].i = @ - 1]
    /\ Continue /\ UNCHANGED <<slots, dropped, lock, out>>

\* Table::resolve_into first releases what out[i] held.
ResetOut(t) ==
    /\ call[t].pc = "row"
    /\ Row(t) \in Rows(config)
    /\ IF out[t][call[t].i] = NoLease THEN UNCHANGED <<slots, out>> ELSE Release(t, call[t].i)
    /\ call' = [call EXCEPT ![t].pc = "admit"]
    /\ Continue /\ UNCHANGED <<dropped, lock>>

\* Phase A for one row: it is resident or filling, it is fetched, or nothing can be taken for it.
AdmitAt(t, c, k) ==
    /\ out' = [out EXCEPT ![t][call[t].i] = PinnedLease(c, k, Row(t))]
    /\ call' = [call EXCEPT ![t].pc = "await"]
AdmitHit(t, c) ==
    \E k \in DOMAIN slots[c] :
        /\ Indexed(c, k, layout.localOf[Row(t)])
        /\ slots' = [slots EXCEPT ![c][k].pins = @ + 1]
        /\ dropped' = dropped
        /\ AdmitAt(t, c, k)
AdmitMiss(t, c) ==
    /\ Missing(c, layout.localOf[Row(t)])
    /\ \E k \in DOMAIN slots[c] :
        /\ Takeable(c, k)
        /\ StartFill(c, k, layout.localOf[Row(t)], 1)
        /\ IF slots'[c][k].state = "filling" THEN AdmitAt(t, c, k)
           ELSE call' = [call EXCEPT ![t].pc = "unwind", ![t].status = "fill_failed"] /\ out' = out
AdmitExhausted(t, c) ==
    /\ Missing(c, layout.localOf[Row(t)])
    /\ \A k \in DOMAIN slots[c] : ~Takeable(c, k)
    /\ call' = [call EXCEPT ![t].pc = "unwind", ![t].status = "pool_exhausted"]
    /\ UNCHANGED <<slots, dropped, out>>
Admit(t) ==
    /\ call[t].pc = "admit"
    /\ LET c == layout.classOf[Row(t)] IN
        /\ lock[c] = NoCaller
        /\ AdmitHit(t, c) \/ AdmitMiss(t, c) \/ AdmitExhausted(t, c)
    /\ Continue /\ lock' = lock

\* Phase B: the fill has ended; on to the next row, if it ended well.
Settle(t) ==
    LET lease == out[t][call[t].i]
        slot == slots[lease.cls][lease.slot]
    IN  /\ call[t].pc = "await"
        /\ lock[lease.cls] = NoCaller
        /\ slot.state # "filling"
        /\ IF slot.state # "ready"
           THEN call' = [call EXCEPT ![t].pc = "unwind", ![t].status = "fill_failed"] /\ out' = out
           ELSE /\ out' = [out EXCEPT ![t][call[t].i] = ReadyLease(lease)]
                /\ IF call[t].i < Len(call[t].rows)
                   THEN call' = [call EXCEPT ![t].pc = "row", ![t].i = @ + 1]
                   ELSE call' = [call EXCEPT ![t] = Returned(t, "ok")]
        /\ Continue /\ UNCHANGED <<slots, dropped, lock>>

\* The leases of this row and of those before it are released, one at a time.
\* A mutant: the unwinding stops one lease early.
ToUnwindShort(t) == {j \in 1 .. call[t].i - 1 : out[t][j] # NoLease}
ToUnwind(t) == {j \in 1 .. call[t].i : out[t][j] # NoLease}
Unwind(t) ==
    /\ call[t].pc = "unwind"
    /\ IF ToUnwind(t) = {}
       THEN call' = [call EXCEPT ![t] = Returned(t, @.status)] /\ UNCHANGED <<slots, out>>
       ELSE (\E j \in ToUnwind(t) : Release(t, j)) /\ call' = call
    /\ Continue /\ UNCHANGED <<dropped, lock>>

-----------------------------------------------------------------------------
(* prefetch: class after class, each by its table *)

\* A batch that is too long, or that names a row out of range, is refused before any fill starts.
PrefetchStatus(request) ==
    IF Len(request) > config.batch THEN "batch_too_large"
    ELSE IF Range(request) \subseteq Rows(config) THEN "ok" ELSE "out_of_range"
CallPrefetch(t) ==
    /\ t = Prefetcher
    /\ \E request \in Requests :
        LET status == PrefetchStatus(request) IN
        Begin(t, [Idle EXCEPT !.op = "prefetch", !.pc = IF status = "ok" THEN "split" ELSE "returned",
                              !.rows = request, !.status = status])
    /\ UNCHANGED <<slots, out>>

\* The scratch of the class a call is at: where in the batch its rows are.
Scratch(t) == {n \in DOMAIN call[t].rows : layout.classOf[call[t].rows[n]] = call[t].cls}

\* The next class: the table takes its lock, unless no row of the batch is of this class.
PrefetchClass(t) ==
    /\ call[t].pc = "split"
    /\ IF call[t].cls > Len(layout.classes)
       THEN call' = [call EXCEPT ![t] = Returned(t, "ok")] /\ lock' = lock
       ELSE IF Scratch(t) = {}
       THEN call' = [call EXCEPT ![t].cls = @ + 1] /\ lock' = lock
       ELSE /\ lock[call[t].cls] = NoCaller
            /\ lock' = [lock EXCEPT ![call[t].cls] = t]
            /\ call' = [call EXCEPT ![t].pc = "prefetch", ![t].i = Min(Scratch(t))]
    /\ Continue /\ UNCHANGED <<slots, dropped, out>>

\* One row of Table::prefetch.  It pins nothing, and passes over a row it finds no slot for.  The ticket is
\* dropped when the table returns.
PrefetchRow(t) ==
    LET c == call[t].cls
        row == layout.localOf[Row(t)]
        later == {n \in Scratch(t) : n > call[t].i}
        takeable == {k \in DOMAIN slots[c] : Takeable(c, k)}
    IN  /\ call[t].pc = "prefetch"
        /\ IF Missing(c, row) /\ takeable # {}
           THEN \E k \in takeable : StartFill(c, k, row, 0)
           ELSE UNCHANGED <<slots, dropped>>
        /\ IF later # {}
           THEN call' = [call EXCEPT ![t].i = Min(later)] /\ lock' = lock
           ELSE /\ call' = [call EXCEPT ![t].pc = "split", ![t].cls = @ + 1]
                /\ lock' = [lock EXCEPT ![c] = NoCaller]
        /\ Continue /\ out' = out

-----------------------------------------------------------------------------
(* drain: class after class *)

FillingIn(c) == {k \in DOMAIN slots[c] : slots[c][k].state = "filling"}

\* `await`, the fills in flight at the call, is history: only the properties read it.
CallDrain(t) ==
    /\ Begin(t, [Idle EXCEPT !.op = "drain", !.pc = "drain",
                             !.await = UNION {{c} \X FillingIn(c) : c \in DOMAIN slots}])
    /\ UNCHANGED <<slots, out>>

\* A mutant: one slot that is not filling is enough.
IdleAny(c) == \E k \in DOMAIN slots[c] : k \notin FillingIn(c)
\* The predicate a class table's drain waits for.
IdleTable(c) == FillingIn(c) = {}
DrainClass(t) ==
    /\ call[t].pc = "drain"
    /\ lock[call[t].cls] = NoCaller
    /\ IdleTable(call[t].cls)
    /\ IF call[t].cls < Len(layout.classes)
       THEN call' = [call EXCEPT ![t].cls = @ + 1]
       ELSE call' = [call EXCEPT ![t] = Returned(t, "ok")]
    /\ Continue /\ UNCHANGED <<slots, dropped, lock, out>>

\* The deadline passes while a class table has fills in flight.
DrainTimesOut(t) ==
    /\ call[t].pc = "drain"
    /\ ~IdleTable(call[t].cls)
    /\ call' = [call EXCEPT ![t] = Returned(t, "timeout")]
    /\ Continue /\ UNCHANGED <<slots, dropped, lock, out>>

-----------------------------------------------------------------------------
Start(t) == TryGet(t) \/ CallResolve(t) \/ CallPrefetch(t) \/ CallDrain(t)
Resolve(t) == ResolveOutOfRange(t) \/ ResetOut(t) \/ Admit(t) \/ Settle(t) \/ Unwind(t)
Prefetch(t) == PrefetchClass(t) \/ PrefetchRow(t)
Drain(t) == DrainClass(t) \/ DrainTimesOut(t)

Next ==
    \/ Create \/ ReadEnds \/ DroppedEnds \/ FinishFill
    \/ \E t \in Callers :
        Start(t) \/ Resolve(t) \/ Prefetch(t) \/ Drain(t) \/ Return(t) \/ DropLease(t)

Spec == Init /\ [][Next]_vars
=============================================================================
