# Verification of Sub0TieredCache

TLA+ models of the row cache, the size-classed table, the remote mirror and the
HTTP client of Sub0TieredCache, the TLC runs that check them on small instances,
and TLAPS proofs about them. Paths are relative to
`src/include/sub0tieredcache/` unless they name another directory.

## 1. The system

Sub0TieredCache serves fixed-size rows of a large immutable source from a
bounded memory pool. A caller names rows; the cache finds them resident, or
starts asynchronous transfers (through the external library Sub0MemPage), may
convert them, and hands out leases that pin them.

| Component | State | Operations | Module |
|---|---|---|---|
| `Table` (`row_cache.hpp`) | slots, row index, CLOCK hand, tickets and waiter entries, two source bindings, counters, one mutex `lock_`, one condition variable `progress_` | `resolve_into`, `try_get`, `prefetch`, `wait`, `invalidate`, `drain`, completion worker, destructor | `Table` |
| `RowLease`, `PrefetchTicket` | slot and epoch; record and generation | release, discard | `Table` |
| Row index (in `Table`) | `index_`, an open-addressing array of slot numbers | `index_find`, `index_insert`, `index_erase` with backward shift | `RowIndex` |
| Fill window (in `Table`) | none | the aligned, clipped, chunked window of a fill | `FillWindow` |
| `RowCache` | a vector of tables | register, look up by handle | not modelled: no mutex, tables are only added; registration is for one thread at a time |
| `SizeClassedTable` (`size_classed_table.hpp`) | three row numberings, one `Table` for each row length over a slice of one storage | `create`, `resolve_into`, `try_get`, `prefetch`, `drain` | `SizeClassedTable` |
| `FlatFileResolver`, codecs | none | pure functions | constants and one step of `Table` |
| `MirrorBackend` (`remote/mirror_backend.hpp`) | ring of requests, source table, worker threads, statistics, `mutex_`, `cv_` | `register_mirror`, `submit`, worker loop, `shutdown`, destructor | `MirrorBackend` |
| `Mirror` (`remote/mirror.hpp`) | map of chunks in flight | `read` | `Mirror` |
| `ChunkStore` (`remote/chunk_store.hpp`) | a directory of chunk files, shared between processes | `read_chunk`, `publish_chunk`, clean-up on open | `Mirror` |
| `Http1RangeTransport` (`remote/http_client.hpp`) | none kept between calls | `fetch_range` with retries, `fetch_once` | `HttpClient` |
| Transport seam (`remote/transport.hpp`) | none | the contract of `fetch_range` | `RangeTransport`; a step of `Mirror` |
| `cache_dir`, `checksum`, `status` | none | helpers | not modelled (`is_transient` is in `HttpClient`) |
| `bench/trace_replay.cpp` | | | not modelled: a measuring program |

How they interact: client threads call `Table`; `Table` submits reads to
Sub0MemPage transfer sets, one for each shard of a binding, which submit to a
backend; a `MirrorBackend` worker performs the read with `Mirror::read`, which
reads chunk files or fetches them through a transport and publishes them; the completion goes back to the
transfer set, where a client or `Table`'s completion worker waits for it and
publishes the slot.

What is hard in it: a fill is started under `lock_`, finished outside it by
whoever comes first, and published under it again; callers time out and give
fills back; tickets are dropped with fills in flight; `invalidate` replaces the
source while fills of the old one are in flight; a slot is identified by an
epoch, not owned, by a ticket; an eviction closes gaps in the index under probe
sequences that run over the end of the array; rows are known by three numbers and
live in slices cut by floating-point arithmetic; several processes publish into
one directory and crash; a server stalls, lies and publishes a new version
between two attempts. The hazards are listed in `PROJECT.json`, each at its line, with the
properties that would notice it going wrong.

## 2. Modules

| Module | What it is |
|---|---|
| `Table` | the class `Table` with its leases, tickets and worker |
| `TableProperties` | what `Table` promises |
| `MCTable`, `MCTable*.cfg` | instances for TLC |
| `TableProofs` | type correctness, proved |
| `TableSafetyProofs` | the safety of leases, proved |
| `TableFillProofs` | fills, batches, waits, wake-ups, bytes and the end of a table, proved |
| `RowIndex`, `RowIndexProperties` | the open-addressing index of `Table`; what it promises and its inductive invariant |
| `MCRowIndex`, `MCRowIndex.cfg` | an instance for TLC |
| `RowIndexProofs` | the index is a map from keys to slots, proved |
| `FillWindow` | which bytes are read for a row, where to, in how many reads |
| `SizeClassedTable`, `SizeClassedTableProperties` | registration and calls of `SizeClassedTable`, over `FillWindow` |
| `MCSizeClassedTable`, `MCSizeClassedTable.cfg` | registrations for TLC |
| `SizeClassedTableProofs` | windows, layouts, leases, reads, batches and drains, proved |
| `RangeTransport` | the contract of a range transport, abstractly |
| `HttpClient`, `HttpClientProperties` | the HTTP client; its properties and the refinement |
| `MCHttpClient`, `MCHttpClient.cfg` | an instance for TLC |
| `HttpClientProofs` | types, reports and the refinement, proved |
| `FillBackend` | the contract of a fill backend, abstractly |
| `MirrorBackend`, `MirrorBackendProperties` | the worker-pool backend; its properties and the refinement |
| `MCMirrorBackend`, `MCMirrorBackend.cfg` | an instance for TLC |
| `MirrorBackendProofs` | the statistics, the wake-ups and the refinement, proved |
| `Mirror`, `MirrorProperties` | the mirror and its chunk store; their properties |
| `MCMirror`, `MCMirror*.cfg` | instances for TLC |
| `MirrorProofs` | coalescing, publishing and byte-exact reads, proved |

Operators that a comment calls mutants (`TakesPinned`, `NotifyIfEmpty`, ...) are
plausible bugs that replace the definition after them to show that a property
notices. No specification uses them.

### Table

Granularity: a critical section of `lock_` is one step, except phase A of
`resolve_into` and the loop of `prefetch`, which take one step for each row while
`lock` stays held, so that the steps of the environment (transfers ending, the
codec) interleave. Work outside `lock_` is a step of its own.

State: `slots` is `slots_`, with the index as the flag `indexed`; `claims` are
the transfers a slot waits for and `dropped` those whose claim was released in
flight, which still write their destination; `output` and `scratchData` say whose
bytes each destination holds; `tickets`, `waiters`, `generation`, `retiring`,
`bindFill`, `inFlight`, `clockHand`, `pinsTotal` are the members of those names;
`out` and `tick` are the handles callers hold; `call` and `fin` are the
activations of client calls and of `finish_fill`; `sleeping` are the threads
waiting on `progress_`.

| Code | Actions |
|---|---|
| `resolve_into` | `CallResolve`, `ResetOut`, `ResolveOutOfRange`, `LockResolve`, `AdmitHit`, `AdmitMiss`, `AdmitExhausted`, `Unwound`, `ClaimFill`, `AwaitFill`, `SettleRow` |
| `claim_victim`, `start_fill_locked` | `Takes`, `ClaimsAt`, `Swept`, `FillOutcomes`, `StartFill` within `AdmitMiss` and `PrefetchMiss` |
| `finish_fill` | `BeginFinish`, `Relinquish`, `Convert`, `Publish` |
| `try_get`; `RowLease::reset` | `TryGet`; `Release` |
| `prefetch` | `CallPrefetch`, `PrefetchHit`, `PrefetchMiss`, `PrefetchExhausted` |
| `wait`; `PrefetchTicket::reset` | `CallWait`, `SkipEntry`, `ClaimFill`, `AwaitFill`, `SettleEntry`, `TimeoutEntry`; `DropTicket` |
| `invalidate`, `drain` | `Invalidate`, `InvalidateRefused`; `CallDrain`, `DrainTests`, `DrainTimesOut` |
| `worker_loop` | `WorkerClaims`, `WorkerIdles` |
| `~Table` | `Destroy`, `Destroyed` |
| Sub0MemPage (external) | `Accepts`, `Complete`, `CompleteDropped` |

Assumed of the environment: every `invalidate` names a fresh generation number;
`Slot::epoch` does not wrap around while a ticket for the slot is held (a lease
needs no such assumption, see section 4); callers
drop leases and tickets before they destroy the table; nobody drops a ticket
another thread is waiting on. Left out: the counters of `stats()` and
`non_free_`, which no branch reads; the check that `out` is as long as `rows`;
`resolve_one`, which nothing calls. The look-up by key rests on `RowIndex`; the
byte window of an aligned fill is in `FillWindow`.

### RowIndex

State: `index` is `index_`, `key` and `indexed` are the fields of the slots that
the index reads, `home` is `index_home`, any function from keys to positions.
`miss` is a key that was looked up, not found, and is being admitted under the
same hold of `lock_`; `op` are the locals of the operation under way.

| Code | Actions |
|---|---|
| `index_find` | `Find`, `FindStep`, `Answered` |
| `index_insert`, called by `start_fill_locked` | `Insert`, `InsertStep`; `NoVictim` when no slot is found for the miss |
| `index_erase`, called by `unindex_locked` | `Erase`, `SeekStep`, `ShiftStep` |

A step is one round of a loop. Nothing interleaves with it, since `lock_` is held;
the rounds are there because what an operation must preserve is about positions
it has passed and those it has not.

### FillWindow

Operators only: `aligned_slot_bytes`, the window of `start_fill_locked`, its head
(`published_offset`), `chunks_per_row_` and the reads. They are exact for sources
that end more than one alignment below 2^64, where no sum wraps around: the code
checks an extent against the size of its source before it computes with it.

### SizeClassedTable

State: `layout` are `classes_`, `class_of_`, `local_of_` and `global_of_` with the
slices of the storage; `slots` are the slots of each class's table and `dropped`
the reads that nobody waits for; `storage` is `output_storage`, each byte named by
its shard and its offset in that source; `lock` is a table's `lock_` where it is held over several
steps; `out` and `call` are the leases and activations of the callers.

| Code | Actions |
|---|---|
| `create` | `Create`, with `RowStatus`, `Shares`, `Budget`, `LayoutOf`, `TableAccepts` |
| `resolve_into` | `CallResolve`, `ResolveOutOfRange`, `ResetOut`, `Admit`, `Settle`, `Unwind` |
| `try_get`; `RowLease::reset` | `TryGet`; `DropLease` |
| `prefetch` | `CallPrefetch`, `PrefetchClass`, `PrefetchRow` |
| `drain` | `CallDrain`, `DrainClass`, `DrainTimesOut` |
| the class tables | `StartFill` within `Admit` and `PrefetchRow`, `FinishFill` |
| Sub0MemPage (external) | `ReadEnds`, `DroppedEnds` |

A class table follows the protocol of `Table` with less detail: any slot that is
neither pinned nor filling may be the victim, whoever finishes a fill does so in
one step, `submit` may refuse at any time. The windows, slices and bytes are
exact, so that what a lease shows can be compared with the row that was asked
for. A registration names any number of sources; a row whose shard is not one of
them, or that lies beyond the end of its source, fails its fill (`InSource`), and a
read is refused only for the reads of its own shard that it overlaps
(`Submittable`), since each shard has a `TransferSet` of its own. A share is computed in `double`: the sizes are exact below 2^53, the quotient
and the product are rounded once each, so the result is within one part in 2^51 of
the exact share before it is cut off. `Precision` is that 2^51, and `Shares` has
every number of bytes that such an error allows, below the exact one and above it;
the run takes 16, so that shares really move across whole numbers. Classes and rows
are numbered by `Sorted`, what `std::sort` and `push_back` make of the widths and the
rows. Left out: `stats()`, calls refused before they change anything (no rows, an `out` that is
too short), powers of two above 2^30. `prefetch` has one caller, as its comment
demands.

### HttpClient

`fetch_range` is `const` and keeps nothing, so a behaviour is one call. State:
`call` are the locals of `fetch_range` and `fetch_once`, `dest` the caller's
buffer, each byte abstracted to the version it is of, `result` the
`FetchRangeResult`, `serving` the version the server has; `seen` is history.

| Code | Actions |
|---|---|
| `fetch_range`: arguments, retry loop, back-off | `CallRefused`, `CallFetch`, `Ends`, `Backoff` |
| `fetch_once`: look-up, connection, request | `Resolve`, `Connect`, `Send` |
| `fetch_once`: head | `RecvHead`, `HeadLost`, `HeadDone` (with `HeadStatus`, `ValidatorStatus`) |
| `fetch_once`: body | `RecvBody`, `BodyLost` |
| the server (external) | `Publish`, and the choices in the other actions |

A response head is abstracted to what `fetch_once` reads in it, and may be
anything; a timeout is a choice that is always open. A response is of the version
that the server had when its head was complete. `SIGPIPE` is assumed to be ignored
(a hazard in `PROJECT.json`). `RangeTransport` states what a caller of
`fetch_range` relies on; `HttpClientProperties` maps every state between call and
return to its phase `fetching`. `Mirror` uses a transport through `FetchEnds`,
with the same contract in one step.

### MirrorBackend

One step for each critical section of `mutex_`, one for each delivery. A request
is submitted once and names a source that may not be registered. `FillBackend`
states the contract of the file comment: bounded, first in first out, refusing
only when full or closed, exactly one completion for each accepted request.
`MirrorBackendProperties` maps the unrolled ring to its queue, and what workers
and `shutdown` hold undelivered to its active requests.

### Mirror

Processes share one directory; each has one `Mirror` and any number of threads.
`read_chunk` is one step (it holds the store's mutex and one open file);
`publish_chunk` is three (open, write, rename), since another process can clean
up in between. Bytes are pairs of version and position, so that a read can be
compared with the source; the chunk arithmetic of `read` is translated exactly.
A call on an invalid
mirror (`Valid`), with a destination that is too short, or of no bytes is refused
before the range is looked at.
The shared `InFlight` object is modelled where `inflight_` names it: when the
fetcher sets `done`, all who joined get its status. A file is trusted if its header has
the hash of the url and the total size that the process expects, then for the
length of its payload, its validator and its checksum, compared in this order
(`ReadStatus`). File names and hashes of urls may collide, checksums may not: a
damaged file fails its checksum. `fetch_range` answers with the whole chunk of the registered version or
fails.

## 3. Runs

Every passing run explores its instance exhaustively. Deadlock is checked, but
for `http`, where the one call of a behaviour ends, and `size_classed`, where the
callers' budgets of calls do.

| Run | Shows | Instance |
|---|---|---|
| `table_resolve` | leases name their slot and row; pins are exact; one slot for a key; one finisher; all or nothing; a slot in use keeps its key | 2 clients, 2 slots, 3 rows of which one cannot be resolved, batches of 2 in both orders, epoch modulus 2 |
| `table_prefetch` | waiter entries never stand for another row; `wait` accounts for every entry; no lost wake-up; dropped reads spoil no ready row of their shard | 1 slot, 1 ticket record for 2 prefetching clients, rows of one read, two reads and none, deadlines, `drain`, repeated rows, argument errors |
| `table_invalidate` | one generation for each batch; bindings outlive fills; exact counters; `drain` waits for the fills of both bindings; no `std::terminate` | 3 generations, 2 slots, one read for each row |
| `table_live` | scratch slots owned; ready rows hold their bytes; calls return, fills end | a converting table of 2 slots, 1 scratch slot, epoch modulus 2, fairness |
| `row_index` | look-ups are exact, deletions find their own entry, operations end | 3 slots, 4 keys, an index of 8, homes at position 0 and the last three, fairness of the lock holder |
| `size_classed` | a lease shows its row; reads fit their slot, claims and alignment; a failed batch keeps nothing; `drain` ends the fills it found; storage for more than the table is accepted and holds it | over 2000 registrations, of which two are called by 2 threads with 2 and 1 calls: two widths without alignment, with rows in two shards and one in a shard that is not registered; three widths in aligned blocks read one by one, with a row beyond the source |
| `backend` | `MirrorBackend` implements `FillBackend`; no idle worker, exact statistics; accepted requests are delivered, `shutdown` returns | 3 requests, ring of 2, 2 workers, 2 callers, fairness |
| `mirror_shared` | byte-exact reads, whole files | 3 processes with a thread each, 3 versions of one file name and url hash, two of them told apart by the validator only and two by the total size only, 1 crash, 1 damaged file |
| `mirror_one` | no second fetch; one fetcher; reads return | 1 process, 2 threads with 2 reads each, 5 ranges and a destination too short, 1 crash, 1 damaged file, fairness |
| `http` | `HttpClient` implements `RangeTransport`; reports agree with attempts; the call returns | 2 bytes, 0 or 2 retries, 2 addresses, heads of up to 2 pieces, 3 versions of which one is published during the call, 8 validators, fairness |

Why the bounds are enough: two clients and the worker give every pairing of
roles (admit, finish, wait, sweep, invalidate); two slots are the fewest for
which a sweep passes one slot over and takes another, one slot the fewest for
eviction races; three generations let a retiring binding be replaced; a ring of
two with three requests fills, refuses and wraps around; three bytes in chunks of
two give a boundary and a short tail; three entries around the end of the index
give clusters that cross it with a hole before, at and after the crossing, and a
hash function may give them any homes there (keys are interchangeable, so growing
functions suffice); two retries give a first, a middle and a last attempt, and
one publish can fall before, between and during them. An epoch modulus of 2 lets the
second reuse of a slot bring the old epoch back: leases and fills do not depend
on it; the run about tickets has a modulus that is not reached, as the code has.
`size_classed` has a row that crosses a block boundary and one whose window is cut
off; the registrations that are only created have every storage from one byte
below to one above what the whole table needs. The bounds on calls (`Calls`,
`Reads`, `CallLimit`), crashes (`MaxCrashes`), damage (`MaxDamages`), generations
(`MaxGeneration`) and publishes (`MaxPublishes`) only make the state space finite.
`Shards`, `MaxChunks`, `WordModulus`, `HeadLimit` and `Precision` are small values of
what the code has large.

Fairness: weak fairness of every thread that can go on (the operating system
schedules it), the holder of `lock_` included, and of the end of a transfer or
fetch (backends deliver each accepted request once; connecting and receiving
have timeouts, a request fits the send buffer). Nothing is assumed to call, to
drop, to crash, to publish or to time out.

Two runs end in a violation; each states what a comment says and the code does
not do.

| Run | Statement | What the code does |
|---|---|---|
| `table_chunk_shards` | a dropped read cannot race a later fill (`row_cache.hpp:1006`) | a fill from another shard reuses the slot while the read is in flight, and the row that is ready is overwritten |
| `mirror_sizes` | reads are byte-exact (`remote/mirror.hpp:72`) | a file published with smaller chunks is served at the wrong offset |

The first of them limits other properties too. `ReadyHoldsItsRow` holds where every
row has one read (`table_live`, and a theorem) and where all rows are in one shard
that is never replaced (`table_prefetch`). In `SizeClassedTable`, whose class tables
take the same shards and chunks, `LeaseShowsItsRow` is claimed only of registrations
with one shard or one read for each row (`Guarded`), as the two that `size_classed`
calls are; with several of both a leased row is overwritten in the same way.
`DrainMeansQuiet` is claimed of rows of one read: `drain` looks at counts of fills,
and a read dropped with a failed fill is in none of them, nor does it keep
`invalidate` from destroying its binding.

Other comments that do not describe the code, found while modelling it and
visible in the definitions named:

- `row_cache.hpp:260`: `wait` is ok "only if every named row filled"; entries that
  were evicted leave it ok (`SkipEntry`). `WaitReportAddsUp` claims what the code
  does: ok only if no entry failed or is pending.
- `row_cache.hpp:355`: destroying a table with "in-flight fetches terminates", and
  lines 827 and 832: the worker can be joined only if the caller drained, and
  teardown "never drains implicitly". The worker finishes every unclaimed fill before
  it leaves, so the destructor does drain, and never terminates for a fill
  (`WorkerIdles`, `Destroyed`; `NeverTerminates` holds undrained).
- `row_cache.hpp:321`: `max_tickets` does not bound batches whose ticket was dropped
  in flight; `discard_ticket` frees the record at once (`DropTicket`).
- `row_cache.hpp:164`: the resolver is called with `lock_` held (`AdmitMiss` and
  `PrefetchMiss` evaluate `Extent` while `lock` is held).
- `remote/chunk_store.hpp:273`: what the clean-up removes is not always a leftover;
  another process may be publishing it. That publish then fails, and the reads
  that wait for it with it.
- `remote/transport.hpp:43`: a validator without identity "can never be satisfied by
  any real response"; the HTTP client then accepts every version of the right
  size (`ValidatorStatus`, and `Accepts` of `RangeTransport`).
- `size_classed_table.hpp:11`: "the interface mirrors Table's"; but the `row_index()`
  of a lease is the index within the class (`PinnedLease`).
- `size_classed_table.hpp:85`: "on failure no lease is left held"; leases that `out`
  held before the call, beyond the failing row, are left (`FailedResolveKeepsNothing`
  says exactly what is).
- `size_classed_table.hpp:94`: `drain` "blocks until no class has a fill in flight";
  a class it has passed may have new ones (`DrainEndsOldFills`).

Storage for exactly the whole table may be refused by the split, as rounding can
leave a share one byte short; `WholeTableFits` holds from one byte more on.

## 4. Proofs

All are for every value of the constants that the named assumptions allow.

`TableProofs` proves `TypeCorrect`, `Spec => []TypeOK`. `TypeOK` is not
inductive: the slot a finisher publishes, the position a call writes and the
record a wait reads come from the state of the call, so `ShapeInv` adds what each
control state vouches for (`CallOK`), that the index names filling and ready slots
(`SlotOK`), that a finisher owns its slot alone (`FinOK`), and that ticket objects
name held records of their own (`TicketOK`).

`TableSafetyProofs` proves four properties of the run `table_resolve`:
`PinsExact` (`PinsCountLeases`), `LeasesSafe` (`LeasesNameTheirSlot`), `KeysUnique`
(`OneSlotPerKey`) and `UsedSlotsKept` (`KeptWhileInUse`). None of them is inductive
alone. A lease stays valid because its slot is not taken; the slot is not taken
because it is pinned; it is pinned because pins count leases; and the counts are
right because a lease that is dropped matches its slot, so that `release_lease`
takes its regular branch. `SafeInv` joins `ShapeInv` with `KeyOK` (a free slot is
unpinned, which is why the sweep may take a free slot without looking at its pins,
and keys are unique), `CountOK` and `LeaseOK`. `StepKinds` shows that every action
is one of seven kinds as far as slots and leases are concerned, and one lemma for
each kind keeps the invariant. That the sets of leases are finite is part of the
induction; a lease needs nothing of the epoch's width.

`TableFillProofs` proves the other safety properties of `Table`. As far as fills
are concerned every action is one of six kinds (`FillKinds`: nothing, a victim is
given to a row, a finisher takes a fill or gives it back, a fill is published, the
bindings change), and the invariants are kept kind by kind.

| Theorem | Property | Inductive invariant, and why it is needed |
|---|---|---|
| `FillCountsExact`, `FinishersUnique`, `ScratchExact` | `FillsAreCounted`, `OneFinisher`, `ScratchIsOwned` | `FillInv`: a count is right because only the finisher of a filling slot ends its fill, so a set flag has a finisher (`FlagOK`); a binding outlives its fills because the retiring one is given up only at count zero, and counts are exact |
| `ProcessSurvives` | `NeverTerminates` | `LifeInv`: every held record has a ticket object, and once the destructor runs there are no calls, leases or tickets; when the worker has left there is no fill |
| `NoLostWakeUp` | `NobodySleepsTooLong` | `WakeInv`: whoever sleeps found its condition false under `lock_`, and each step that makes it true notifies all |
| `AllOrNothing`, `OneGeneration` | `ResolveIsAllOrNothing`, `BatchIsOneGeneration` | `BatchInv`: the leases a batch has so far name its rows, those it has settled are ready, those beyond are empty; all were admitted under one `lock_`, which `invalidate` needs too |
| `WaitsAddUp` | `WaitReportAddsUp` | `WaitInv`: the tally so far is of the entries passed, the ticket is kept while it is waited on, and a failed slot has a failure to report (`FailOK`) |
| `EntriesExact` | `EntriesNameTheirRow` | `EntryInv`: an entry's epoch is never ahead of its slot's |
| `RowsAreTheirOwn`, `DrainIsQuiet` | `ReadyHoldsItsRow`, `DrainMeansQuiet` | `BytesInv`: a slot has a claim exactly while it fills, no read is ever dropped, what has landed is the row's, and no two fills share a scratch slot |

Three of these need a hypothesis that the code alone does not give, stated in the
theorem. `TimeoutFree` (for `WaitsAddUp`): no resolver answers with the status
`timeout`; one that did would make `wait` report a deadline nobody missed.
`EpochsFresh` (for `EntriesExact`): no slot is about to be reused for the 2^32nd
time. `OneRead` (for the last two): a row is one read, as in every table that
converts and in every table whose rows fit one transfer; with several reads the
two properties fail, as `table_chunk_shards` and the remark after it say.

`RowIndexProofs` proves `IndexIsSound`, `Spec => []IndexInv`, and from it
`FindIsSound` (`FindIsExact`) and `EraseIsSafe` (`EraseFindsItsEntry`), for every
hash function. That a look-up is exact depends on the shape of the array:
`EntriesAreSlots` (each indexed slot has one entry, no entry names another slot),
`KeysDiffer`, and `NoGaps` (nothing is empty between an entry and its home). In the
middle of a backward shift the hole holds a stale copy that counts for nothing;
`HoleIsBehind` says that it separates an entry from its home only from `pos` on,
which is what `MovesBack` decides for the next entry. `Passed` says what each loop
has seen. A probe ends because the index is at least twice as large as the number
of slots, so that some entry is empty (`SomeEntryIsEmpty`).

`HttpClientProofs` proves `TypeCorrect`, `ReportsAreTrue` (`ReportMatchesAttempts`)
and the refinement `ClientIsATransport` (`ImplementsTransport`). `HttpInv` adds to
the types that nothing is reported before the return, that the bytes of the
current body are all of one version that the validator accepts (`BodyIsOneVersion`),
and that the attempts so far are counted and could be retried (`AttemptsCounted`).
For each action one lemma shows that it keeps `HttpInv` and is a step of
`RangeTransport` or a stutter.

`SizeClassedTableProofs` proves all five properties of the run `size_classed`, for
every set of registrations, any number of callers and rows, in three layers.

1. The window, from lemmas on integer division: it holds the row and fits the slot
   (`WindowFitsSlot`, `RowWithinSlot`), its reads fit the slot's claims
   (`ReadsFitClaims`) and cover it (`ReadsCoverWindow`).
2. The layout of `create` (`GoodLayout`): the classes are the widths in increasing
   order, a row and its index within its class determine each other, and the slices
   lie one after the other within the storage, aligned where `fill_alignment` asks.
   A slice starts at the sum of those before it, so this needs facts about sums over
   finite sets and about sorted sets. They are proved by induction in first-order
   form: a set of numbers or of finite sets without a least element is empty
   (`LeastNat`, `SetInductive`), applied to the counterexamples of each statement.
   `WholeTablesFit` (`WholeTableFits`) follows: with a byte more than the table needs
   every share exceeds what its class needs by more than rounding can take away,
   provided the table is smaller than `Precision`; so every class gets all its rows,
   the budgets add up to no more than the storage, and slices of whole slots are
   aligned.
3. The protocol, `ClassedInvariant`: `Spec => []Inv`. `Inv` is what the properties
   lack to be inductive. A lease shows its row because its slot is ready and stays so
   (`GoodLease`); the slot is not taken because it is pinned, and pins count leases
   (`GoodPins`); its bytes are right because each read that ended well left its part
   of the row and all of them cover it (`Shows`, `Tracks`), because the reads of other
   slots lie in other slots (`GoodLayout` again), and because a read dropped by a fill
   that failed to start lies apart from every fill that was accepted since (Sub0MemPage
   refuses destinations that overlap a read in flight). A call in `resolve_into`
   remembers the array it was given: what lies beyond its row is unchanged
   (`Resolving`). A call in `drain` knows that the old fills that have not ended are in
   classes it has not passed (`Draining`), since nobody can add to the fills that were
   in flight when it started.

What `Inv` says of bytes, and of dropped reads, it says of `Guarded` registrations,
since a read dropped in one shard does not hinder a fill from another.

From `Inv` follow `LeasesShowTheirRow` (`LeaseShowsItsRow`, for `Guarded`
registrations; the others hold of all), `ReadsStayInTheirSlot`
(`ReadsFitTheirSlot`), `FailedResolves` (`FailedResolveKeepsNothing`) and
`DrainsEndOldFills` (`DrainEndsOldFills`). Each action has one lemma that it keeps
the invariant of a created table (`ReturnStep`, `AdmitMissStep`, `ReadEndsStep`, ...);
they rest on lemmas about a step that changes one slot, one lease or one call.

`MirrorBackendProofs` proves `CountersAddUp` (`StatsAddUp`), `NotifyOneSuffices`
(`NoIdleWorker`) and the refinement `MirrorBackendImplementsFillBackend`
(`ImplementsFillBackend`). `PoolInv` adds to the types that one caller at most is
inside the loop of `shutdown`, that what waits in the ring, is performed or is to be
cancelled was accepted and has no completion yet, and that no request is in two
places; without that a request could be delivered twice. `StatsInv` adds two sums:
every accepted request is counted in one place, and `in_flight` counts the workers
between taking a request and accounting for it. `SleepInv` says that while somebody
sleeps the ring holds no more requests than there are workers on their way to it,
and that only a worker that waits is asleep: one `notify_one` for each submission
keeps that, because a worker looks at the ring again before it sleeps.

`MirrorProofs` proves `ReadsCoalesce` (`OneFetcher`), `PublishIsAtomic`
(`WholeOrAbsent`), `ReadsAreByteExact` (`ByteExact`) and `NothingIsFetchedTwice`
(`NoSecondFetch`), for any processes, threads, ranges, chunk sizes, crashes and
damage. `MirrorInv` ties each entry of `inflight_` to the one thread that fetches
it and to those that wait. `BadFilesCounted` says that a final name holds a bad file
only by damage: a temporary file is renamed only when it is whole. `CopiesExact`
says what the caller's buffer holds after each chunk, through the exact chunk
arithmetic of `read`. Two theorems carry hypotheses. `SizesAgree` (for
`ReadsAreByteExact`): processes that mirror one version use one chunk size, without
which the run `mirror_sizes` shows a wrong read. `VersionsTold` (for the same):
versions with the same hash of the url, total size and validator are one version, for
that is all `read_chunk` compares. `NamesApart` (for
`NothingIsFetchedTwice`): no two processes use one file name, since a process that
shares it may replace the file by its own.

The proofs rest on the assumptions `ThreadAssumption`, `SizeAssumption` and
`InputAssumption` of `Table`, `SizeAssumption` and `KeyAssumption` of `RowIndex`,
`ClassedAssumption`, `PrecisionAssumption`, `ConfigsAssumption` and
`RequestsAssumption` of `SizeClassedTable`, `HttpAssumption` of `HttpClient`,
`ConfigAssumption` of `MirrorBackend` and `MirrorAssumption` of `Mirror`, which the
runs evaluate. Each inductive invariant was checked with TLC on the instances of the
runs as well.

Only model-checked: liveness (`CallsReturn`, `FillsEnd`, `AcceptedIsDelivered`,
`ShutdownReturns`, `ReadsReturn`, `OperationsEnd`, `FetchReturns`), which needs
reasoning about fairness and enabledness that is out of the prover's reach. Every
invariant, safety property and refinement that a passing run checks has a theorem as
well; only that of `ReadyHoldsItsRow` covers less than the runs, rows of one read:
rows of several reads in one shard (`table_prefetch`) are only model-checked.

## 5. Not modelled, and plan

Not modelled: the `RowCache` registry (a vector of tables without a mutex, only added
to), `cache_dir`, `checksum` and the status texts (functions without state),
the counters of `stats()` but those of `MirrorBackend` (no branch reads them), the
conversions of the codecs and the offsets of the flat-file resolver (pure
arithmetic; `Table` has their outcomes), the wording of HTTP requests and heads,
and `bench/trace_replay.cpp` (a measuring program).

Next:

1. An abstract specification of a lease cache (rows, generations, leases) and
   `Table` shown to implement it.
2. `RowsAreTheirOwn` for rows of several reads in a table of one shard whose source is
   never replaced: there the `TransferSet` stands between a dropped read and the next
   fill, as `SizeClassedTableProofs` shows of its class tables.
