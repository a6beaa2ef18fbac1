------------------------------- MODULE Mirror -------------------------------
(***************************************************************************)
(* remote::Mirror over its ChunkStore (remote/mirror.hpp, chunk_store.hpp):*)
(* processes that share one cache directory, each with one Mirror and any  *)
(* number of reading threads, fetch chunks of a remote source, publish     *)
(* them as files and serve reads from the files.  Processes may crash.     *)
(*                                                                         *)
(* read_chunk is one step: it holds mutex_ and reads from one open file.   *)
(* publish_chunk holds mutex_ over three steps, for another process may    *)
(* clean the directory up between them.  The counters of Stats are left    *)
(* out; no branch of the code reads them.                                  *)
(***************************************************************************)
EXTENDS Integers, Sequences, FiniteSetsExt

CONSTANTS
    Processes,
    Threads,
    ProcessOf,     \* ProcessOf[t]: the process thread t runs in
    Versions,      \* source identities: url, validator and total size
    VersionOf,     \* VersionOf[p]: source_ of process p's Mirror
    Names,
    NameOf,        \* NameOf[v]: what chunk_file_name makes of v, hashes that may collide
    UrlHashOf,     \* UrlHashOf[v]: fnv1a64 of the url, which may collide as well
    TotalOf,       \* TotalOf[v]: source_.validator.total_size
    ValidatorOf,   \* ValidatorOf[v]: canonical_validator
    MaxTotal,      \* bound on the total sizes
    SizeOf,        \* SizeOf[p]: chunk_size of process p's store
    ChunkLimit,    \* UINT32_MAX: a valid Mirror has fewer whole chunks
    Writable,      \* the processes whose cache directory is there or can be made
    Ranges,        \* the <<offset, length, size of dest>> triples threads read with
    MaxCrashes,    \* bound on the crashes
    MaxDamages     \* bound on the files the disk damages

VARIABLES
    files,         \* files[n][k]: the chunk file of name n and index k
    temp,          \* temp[p]: the temporary file of the publish under way in process p
    stale,         \* the directory holds temporary files of processes that are gone
    mutex,         \* mutex[p]: ChunkStore::mutex_, while a publish holds it
    inflight,      \* inflight[p][k]: inflight_, and the InFlight object it names
    running,       \* the processes that have a Mirror
    th,            \* th[t]: the read thread t is in
    crashes, damages

vars == <<files, temp, stale, mutex, inflight, running, th, crashes, damages>>

Chunks == 0 .. MaxTotal - 1
NoThread == "none"
Zero == <<>>              \* a byte of a fresh buffer
Junk == <<"junk">>        \* a damaged byte

ASSUME MirrorAssumption ==
    /\ ProcessOf \in [Threads -> Processes]
    /\ VersionOf \in [Processes -> Versions]
    /\ NameOf \in [Versions -> Names]
    /\ MaxTotal \in Nat
    /\ TotalOf \in [Versions -> 0 .. MaxTotal]
    /\ SizeOf \in [Processes -> Nat \ {0}]
    /\ ChunkLimit \in Nat
    /\ Ranges \subseteq Nat \X Nat \X Nat
    /\ NoThread \notin Threads

Absent == [state |-> "absent", version |-> NoThread, payload |-> <<>>]
NoFetch == [state |-> "none", status |-> "ok"]
IdleThread == [pc |-> "idle", off |-> 0, len |-> 0, chunk |-> 0, status |-> "ok", written |-> 0,
               buffer |-> <<>>, dest |-> <<>>]

Init ==
    /\ files = [n \in Names |-> [k \in Chunks |-> Absent]]
    /\ temp = [p \in Processes |-> "none"]
    /\ stale = FALSE
    /\ mutex = [p \in Processes |-> NoThread]
    /\ inflight = [p \in Processes |-> [k \in Chunks |-> NoFetch]]
    /\ running = {}
    /\ th = [t \in Threads |-> IdleThread]
    /\ crashes = 0
    /\ damages = 0

-----------------------------------------------------------------------------
(* Chunks, chunk files and read_chunk *)

Size(t) == SizeOf[ProcessOf[t]]
Total(p) == TotalOf[VersionOf[p]]
File(p, k) == files[NameOf[VersionOf[p]]][k]

\* The bytes of chunk k, as process p cuts the source: the tail chunk is shorter.
ChunkEnd(p, k) == Min({(k + 1) * SizeOf[p], Total(p)})
Payload(p, k) == [i \in 1 .. ChunkEnd(p, k) - k * SizeOf[p] |-> <<VersionOf[p], k * SizeOf[p] + i - 1>>]

\* What the header of file f says against process p's source: its hash of the url and its total size ...
OtherSource(p, f) == UrlHashOf[f.version] # UrlHashOf[VersionOf[p]] \/ TotalOf[f.version] # Total(p)
\* ... and the validator that is stored after the header.
OtherValidator(p, f) == ValidatorOf[f.version] # ValidatorOf[VersionOf[p]]

\* A mutant: the file is trusted without comparing the stored validator.
ReadStatusByHeader(p, k) ==
    LET f == File(p, k) IN
    IF f.state = "absent" \/ OtherSource(p, f) THEN "not_found"
    ELSE IF Len(f.payload) > SizeOf[p] \/ f.state = "bad" THEN "corrupt" ELSE "ok"

\* The status of read_chunk: it compares the header, the length, the validator and the checksum, in this order.
ReadStatus(p, k) ==
    LET f == File(p, k) IN
    IF f.state = "absent" \/ OtherSource(p, f) THEN "not_found"
    ELSE IF Len(f.payload) > SizeOf[p] THEN "corrupt"
    ELSE IF OtherValidator(p, f) THEN "not_found"
    ELSE IF f.state = "bad" THEN "corrupt"
    ELSE "ok"

\* chunk_buffer after read_chunk: a payload that is read, for its checksum, overwrites as many bytes as it has.
Loaded(t, k) ==
    LET p == ProcessOf[t]
        f == File(p, k)
    IN  IF f.state = "absent" \/ OtherSource(p, f) \/ Len(f.payload) > Size(t) \/ OtherValidator(p, f)
        THEN th[t].buffer
        ELSE [i \in 1 .. Size(t) |->
                IF i > Len(f.payload) THEN th[t].buffer[i]
                ELSE IF f.state = "bad" THEN Junk ELSE f.payload[i]]

-----------------------------------------------------------------------------
(* Mirror::read *)

\* Mirror::valid: the directory is there, and the source has fewer than 2^32 chunks.
Valid(p) == p \in Writable /\ Total(p) \div SizeOf[p] < ChunkLimit

CallRead(t) ==
    /\ ProcessOf[t] \in running
    /\ th[t].pc = "idle"
    /\ \E r \in Ranges :
        LET p == ProcessOf[t]
            Reject(status) == [IdleThread EXCEPT !.pc = "returned", !.off = r[1], !.len = r[2],
                                                 !.status = status]
        IN  th' = [th EXCEPT ![t] =
                     IF ~Valid(p) \/ r[3] < r[2] \/ r[2] = 0 THEN Reject("invalid_argument")
                     ELSE IF r[1] > Total(p) \/ r[2] > Total(p) - r[1] THEN Reject("out_of_range")
                     ELSE [IdleThread EXCEPT !.pc = "lookup", !.off = r[1], !.len = r[2],
                             !.chunk = r[1] \div Size(t),
                             !.buffer = [i \in 1 .. Size(t) |-> Zero],
                             !.dest = [i \in 1 .. r[2] |-> Zero]]]
    /\ UNCHANGED <<files, temp, stale, mutex, inflight, running, crashes, damages>>

\* range_start and range_end: the part of the source that is both in the range and in the chunk.
CopyStart(t) == Max({th[t].off, th[t].chunk * Size(t)})
CopyEnd(t) == Min({th[t].off + th[t].len, ChunkEnd(ProcessOf[t], th[t].chunk)})

\* The chunk is in the buffer: copy the part of it the range covers, and go to the next chunk or return.
\* Byte i of the destination is position off + i - 1 of the source.
Copied(t, buffer) ==
    LET h == th[t]
        start == h.chunk * Size(t)
        from == CopyStart(t)
        to == CopyEnd(t)
        last == h.chunk = (h.off + h.len - 1) \div Size(t)
    IN  [h EXCEPT !.pc = IF last THEN "returned" ELSE "lookup",
                  !.chunk = IF last THEN @ ELSE @ + 1,
                  !.buffer = buffer,
                  !.status = "ok",
                  !.written = @ + (to - from),
                  !.dest = [i \in DOMAIN @ |->
                              IF from <= h.off + i - 1 /\ h.off + i - 1 < to
                              THEN buffer[h.off + i - 1 - start + 1] ELSE @[i]]]

Failed(h, status) == [h EXCEPT !.pc = "returned", !.status = status]

\* What follows the end of a fetch, for the fetcher and for who waited for it.
AfterFetch(h, status) ==
    IF status = "ok" THEN [h EXCEPT !.pc = "readback", !.status = status] ELSE Failed(h, status)

\* ensure_chunk_local, first: is the chunk in the store?
Lookup(t) ==
    LET k == th[t].chunk IN
    /\ th[t].pc = "lookup"
    /\ mutex[ProcessOf[t]] = NoThread
    /\ th' = [th EXCEPT ![t] = IF ReadStatus(ProcessOf[t], k) = "ok" THEN Copied(t, Loaded(t, k))
                               ELSE [@ EXCEPT !.pc = "join", !.buffer = Loaded(t, k)]]
    /\ UNCHANGED <<files, temp, stale, mutex, inflight, running, crashes, damages>>

\* inflight_: become the fetcher of the chunk, or join the fetch that is registered.
Join(t) ==
    LET p == ProcessOf[t]
        k == th[t].chunk
        f == inflight[p][k]
    IN  /\ th[t].pc = "join"
        /\ inflight' = IF f.state = "none"
                       THEN [inflight EXCEPT ![p][k] = [state |-> "running", status |-> "ok"]]
                       ELSE inflight
        /\ th' = [th EXCEPT ![t] = IF f.state = "none" THEN [@ EXCEPT !.pc = "recheck"]
                                   ELSE IF f.state = "running" THEN [@ EXCEPT !.pc = "joined"]
                                   ELSE AfterFetch(@, f.status)]
        /\ UNCHANGED <<files, temp, stale, mutex, running, crashes, damages>>

\* A mutant: the fetcher does not look again.
RecheckSkipped(t) == FALSE

\* The fetcher looks again: an earlier fetcher may have published and left in between.
FoundAgain(t) == ReadStatus(ProcessOf[t], th[t].chunk) = "ok"
Recheck(t) ==
    /\ th[t].pc = "recheck"
    /\ mutex[ProcessOf[t]] = NoThread
    /\ th' = [th EXCEPT ![t].pc = IF FoundAgain(t) THEN "settle" ELSE "fetch",
                        ![t].status = "ok",
                        ![t].buffer = Loaded(t, th[t].chunk)]
    /\ UNCHANGED <<files, temp, stale, mutex, inflight, running, crashes, damages>>

-----------------------------------------------------------------------------
(* fetch_and_publish and publish_chunk *)

\* The transport's answer: the whole chunk of the registered version, or a failure.
FetchEnds(t) ==
    /\ th[t].pc = "fetch"
    /\ \E status \in {"ok", "truncated", "failed"} :
        th' = [th EXCEPT ![t].pc = IF status = "ok" THEN "publish" ELSE "settle", ![t].status = status]
    /\ UNCHANGED <<files, temp, stale, mutex, inflight, running, crashes, damages>>

\* publish_chunk takes mutex_ and opens a temporary file, if it can.
PublishOpens(t) ==
    LET p == ProcessOf[t] IN
    /\ th[t].pc = "publish"
    /\ mutex[p] = NoThread
    /\ \/ /\ mutex' = [mutex EXCEPT ![p] = t]
          /\ temp' = [temp EXCEPT ![p] = "partial"]
          /\ th' = [th EXCEPT ![t].pc = "write"]
       \/ /\ th' = [th EXCEPT ![t].pc = "settle", ![t].status = "publish_failed"]
          /\ UNCHANGED <<mutex, temp>>
    /\ UNCHANGED <<files, stale, inflight, running, crashes, damages>>

\* publish_chunk ends: mutex_ is released and no temporary file of its own is left.
PublishEnds(t, status) ==
    /\ mutex' = [mutex EXCEPT ![ProcessOf[t]] = NoThread]
    /\ temp' = [temp EXCEPT ![ProcessOf[t]] = "none"]
    /\ th' = [th EXCEPT ![t].pc = "settle", ![t].status = status]

\* A mutant: a failed write or fsync is not noticed.
WriteUnnoticed(t) ==
    /\ th' = [th EXCEPT ![t].pc = "rename"]
    /\ UNCHANGED <<mutex, temp>>

\* A write or the fsync fails: the file is removed.
WriteFails(t) == PublishEnds(t, "publish_failed")

\* Writing goes to the open file; one that has been removed meanwhile stays without a name.
PublishWrites(t) ==
    LET p == ProcessOf[t] IN
    /\ th[t].pc = "write"
    /\ \/ /\ temp' = [temp EXCEPT ![p] = IF @ = "none" THEN "none" ELSE "complete"]
          /\ th' = [th EXCEPT ![t].pc = "rename"]
          /\ UNCHANGED mutex
       \/ WriteFails(t)
    /\ UNCHANGED <<files, stale, inflight, running, crashes, damages>>

\* The rename replaces what the final name held; it fails if the temporary file is gone.
PublishRenames(t) ==
    LET p == ProcessOf[t]
        k == th[t].chunk
    IN  /\ th[t].pc = "rename"
        /\ \/ /\ temp[p] # "none"
              /\ files' = [files EXCEPT ![NameOf[VersionOf[p]]][k] =
                             [state |-> IF temp[p] = "complete" THEN "good" ELSE "bad",
                              version |-> VersionOf[p], payload |-> Payload(p, k)]]
              /\ PublishEnds(t, "ok")
           \/ PublishEnds(t, "publish_failed") /\ UNCHANGED files
        /\ UNCHANGED <<stale, inflight, running, crashes, damages>>

-----------------------------------------------------------------------------
(* The end of ensure_chunk_local *)

Joiners(t) == {u \in Threads : /\ ProcessOf[u] = ProcessOf[t]
                               /\ th[u].pc = "joined"
                               /\ th[u].chunk = th[t].chunk}

\* A mutant: a fetch that failed wakes nobody.
WokenIfOk(t) == IF th[t].status = "ok" THEN Joiners(t) ELSE {}

\* state->cv.notify_all.
Woken(t) == Joiners(t)

\* The fetcher sets status and done and wakes who has joined; then it takes the entry out of inflight_.
Settle(t) ==
    LET p == ProcessOf[t] IN
    /\ th[t].pc = "settle"
    /\ inflight' = [inflight EXCEPT ![p][th[t].chunk] = [state |-> "done", status |-> th[t].status]]
    /\ th' = [u \in Threads |-> IF u = t THEN [th[u] EXCEPT !.pc = "erase"]
                                ELSE IF u \in Woken(t) THEN AfterFetch(th[u], th[t].status)
                                ELSE th[u]]
    /\ UNCHANGED <<files, temp, stale, mutex, running, crashes, damages>>

Erase(t) ==
    /\ th[t].pc = "erase"
    /\ inflight' = [inflight EXCEPT ![ProcessOf[t]][th[t].chunk] = NoFetch]
    /\ th' = [th EXCEPT ![t] = AfterFetch(@, @.status)]
    /\ UNCHANGED <<files, temp, stale, mutex, running, crashes, damages>>

\* The published chunk is read back into this thread's own buffer.
ReadBack(t) ==
    LET k == th[t].chunk
        status == ReadStatus(ProcessOf[t], k)
    IN  /\ th[t].pc = "readback"
        /\ mutex[ProcessOf[t]] = NoThread
        /\ th' = [th EXCEPT ![t] = IF status = "ok" THEN Copied(t, Loaded(t, k)) ELSE Failed(@, status)]
        /\ UNCHANGED <<files, temp, stale, mutex, inflight, running, crashes, damages>>

\* The caller has the outcome.
Return(t) ==
    /\ th[t].pc = "returned"
    /\ th' = [th EXCEPT ![t] = IdleThread]
    /\ UNCHANGED <<files, temp, stale, mutex, inflight, running, crashes, damages>>

-----------------------------------------------------------------------------
(* Processes and the disk *)

\* cleanup_stale_temp_files removes every temporary file in the directory.
CleanedUp == [q \in Processes |-> "none"]

\* A Mirror is constructed, and with it its ChunkStore, which cleans up a directory it could make.
Open(p) ==
    /\ p \notin running
    /\ running' = running \cup {p}
    /\ IF p \in Writable THEN temp' = CleanedUp /\ stale' = FALSE ELSE UNCHANGED <<temp, stale>>
    /\ UNCHANGED <<files, mutex, inflight, th, crashes, damages>>

\* The process dies between any two steps; its temporary file stays.
Crash(p) ==
    /\ p \in running
    /\ crashes < MaxCrashes
    /\ crashes' = crashes + 1
    /\ running' = running \ {p}
    /\ stale' = (stale \/ temp[p] # "none")
    /\ temp' = [temp EXCEPT ![p] = "none"]
    /\ mutex' = [mutex EXCEPT ![p] = NoThread]
    /\ inflight' = [inflight EXCEPT ![p] = [k \in Chunks |-> NoFetch]]
    /\ th' = [t \in Threads |-> IF ProcessOf[t] = p THEN IdleThread ELSE th[t]]
    /\ UNCHANGED <<files, damages>>

\* The disk damages the payload of a chunk file.
Damage(n, k) ==
    /\ damages < MaxDamages
    /\ files[n][k].state = "good"
    /\ files' = [files EXCEPT ![n][k].state = "bad"]
    /\ damages' = damages + 1
    /\ UNCHANGED <<temp, stale, mutex, inflight, running, th, crashes>>

-----------------------------------------------------------------------------
ReadStep(t) ==
    \/ Lookup(t) \/ Join(t) \/ Recheck(t) \/ FetchEnds(t)
    \/ PublishOpens(t) \/ PublishWrites(t) \/ PublishRenames(t)
    \/ Settle(t) \/ Erase(t) \/ ReadBack(t) \/ Return(t)

Next ==
    \/ \E t \in Threads : CallRead(t) \/ ReadStep(t)
    \/ \E p \in Processes : Open(p) \/ Crash(p)
    \/ \E n \in Names, k \in Chunks : Damage(n, k)

Spec == Init /\ [][Next]_vars

=============================================================================
