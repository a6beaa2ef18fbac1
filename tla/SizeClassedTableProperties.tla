--------------------- MODULE SizeClassedTableProperties ---------------------
(* What SizeClassedTable promises, stated over module SizeClassedTable. *)
EXTENDS SizeClassedTable

\* A registration in which no late read can meet a fill that it does not stop: all rows are in one shard, whose
\* TransferSet then knows every read, or every fill is one read, which is never dropped.
OneShard(cfg) == \A q, r \in Rows(cfg) : cfg.extent[q].shard = cfg.extent[r].shard
OneReadPerRow(cfg) == \A r \in Rows(cfg) : ChunksPerRow(cfg.extent[r].length, cfg.alignment, cfg.chunk) = 1
Guarded(cfg) == OneShard(cfg) \/ OneReadPerRow(cfg)

\* A lease shows the row that was asked for, byte for byte and at its own width, for as long as it is
\* held: whatever class the row is in, wherever its slice starts and however its window was aligned,
\* clipped and split, and whatever other reads have failed or come late.  (Where fills have several reads
\* and rows several shards, a late read may land in another row: the run table_chunk_shards.)
LeaseShowsItsRow ==
    \A t \in Callers : \A i \in 1 .. OutSize :
        LET l == out[t][i] IN
        l.bytes > 0 =>
            /\ l.bytes = config.extent[l.asked].length
            /\ \A b \in 0 .. l.bytes - 1 :
                storage[l.from + b] = <<config.extent[l.asked].shard, config.extent[l.asked].offset + b>>

InFlight(c, k) == {n \in DOMAIN slots[c][k].reads : slots[c][k].reads[n].state = "pending"}

\* Every read of a fill stays within its own slot, which lies within the storage, and within the source; a
\* row has no more reads than the slot has claims for; and with fill_alignment each one is what an
\* uncached backend accepts, aligned at both ends, up to the end of the source.
ReadsFitTheirSlot ==
    \A c \in DOMAIN slots : \A k \in DOMAIN slots[c] :
        /\ Base(c, k) + layout.classes[c].slotBytes <= config.storage
        /\ Len(slots[c][k].reads) <= ChunksPerRow(layout.classes[c].width, config.alignment, config.chunk)
        /\ \A n \in InFlight(c, k) :
            LET r == slots[c][k].reads[n] IN
            /\ Base(c, k) <= r.to /\ r.to + r.length <= Base(c, k) + layout.classes[c].slotBytes
            /\ r.from + r.length <= config.sources[r.shard]
            /\ config.alignment # 0 =>
                /\ r.from % config.alignment = 0
                /\ (config.base + r.to) % config.alignment = 0
                /\ r.length % config.alignment = 0 \/ r.from + r.length = config.sources[r.shard]

\* All or nothing over several tables: a failed resolve_into has kept no lease it took.  What it had not
\* come to yet is still there, the caller's from before.
FailedResolveKeepsNothing ==
    \A t \in Callers :
        call[t].op = "resolve" /\ call[t].pc = "returned" /\ call[t].status # "ok" =>
            \A i \in 1 .. OutSize : out[t][i] \in {NoLease, call[t].before[i]}

\* drain goes from class to class, and others may start fills behind it; but when it returns ok, every fill
\* that was in flight when it was called has ended.
DrainEndsOldFills ==
    \A t \in Callers :
        call[t].op = "drain" /\ call[t].pc = "returned" /\ call[t].status = "ok" => call[t].await = {}

\* Nothing but its size can be wrong with a registration.
WellFormed(cfg) ==
    /\ RowCount(cfg) * cfg.batch * cfg.maxClasses * cfg.tickets > 0
    /\ cfg.sources # <<>> /\ \A bytes \in Range(cfg.sources) : bytes > 0
    /\ ScanStatus(cfg) = "ok"
    /\ cfg.alignment # 0 =>
        /\ cfg.alignment \in PowersOfTwo
        /\ cfg.base % cfg.alignment = 0 /\ cfg.chunk % cfg.alignment = 0

\* Storage for more than the whole table is never refused, and then every row has a slot: the split in
\* floating point loses no row as long as it can tell the table's size from the next one, and the slices of
\* all classes are aligned if the storage is.  (Storage for exactly the whole table may be refused.)
WholeTableFits ==
    [][created = "none" /\ WellFormed(config) /\ TotalBytes(config) < Precision
            /\ config.storage > TotalBytes(config) =>
        /\ created' = "ok"
        /\ \A r \in Rows(config) :
            \E c \in DOMAIN slots' : layout'.classes[c].width = config.extent[r].length
                                     /\ Cardinality(DOMAIN slots'[c]) = Len(layout'.globalOf[c])]_vars

=============================================================================
