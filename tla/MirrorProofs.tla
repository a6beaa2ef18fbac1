---------------------------- MODULE MirrorProofs ----------------------------
(***************************************************************************)
(* What Mirror promises holds for any processes, threads, versions, names, *)
(* chunk sizes and ranges, and for any number of crashes and damages.      *)
(*                                                                         *)
(* The argument: a chunk file holds the payload of some process's chunk    *)
(* under that process's version, so what read_chunk accepts for a version  *)
(* is the chunk itself where the processes of a version cut it the same    *)
(* way; a read has copied exactly the part of its range that lies before   *)
(* its current chunk; a publish holds mutex_ until its temporary file is   *)
(* gone, so what is renamed is complete; and a chunk has an entry in       *)
(* inflight_ exactly while it has its one fetcher.                         *)
(***************************************************************************)
EXTENDS MirrorProperties, TLAPS, FiniteSetTheorems

Bytes == {Zero, Junk} \cup (Versions \X Nat)
Pcs == {"idle", "lookup", "join", "joined", "recheck", "fetch", "publish", "write", "rename", "settle",
        "erase", "readback", "returned"}
FetchPcs == {"recheck", "fetch", "publish", "write", "rename", "settle", "erase"}
Statuses == {"ok", "invalid_argument", "out_of_range", "truncated", "failed", "publish_failed", "not_found",
             "corrupt"}
ReadRecords == [pc : Pcs, off : Nat, len : Nat, chunk : Nat, status : Statuses, written : Int,
                buffer : Seq(Bytes), dest : Seq(Bytes)]
FileRecords == [state : {"absent", "good", "bad"}, version : Versions \cup {NoThread}, payload : Seq(Bytes)]
Fetches == [state : {"none", "running", "done"}, status : Statuses]

TypeOK ==
    /\ files \in [Names -> [Chunks -> FileRecords]]
    /\ temp \in [Processes -> {"none", "partial", "complete"}]
    /\ mutex \in [Processes -> Threads \cup {NoThread}]
    /\ inflight \in [Processes -> [Chunks -> Fetches]]
    /\ th \in [Threads -> ReadRecords]
    /\ damages \in Nat

Going(h) == h.pc \notin {"idle", "returned"}

\* The end of the source a thread reads.
End(t) == Total(ProcessOf[t])

\* A read under way: its range lies in the source, its chunk meets the range, its buffers have their sizes.
InRange(h, s, e) ==
    /\ h.len > 0 /\ h.off + h.len <= e
    /\ h.chunk \in Chunks /\ h.chunk * s < h.off + h.len /\ h.off < h.chunk * s + s
    /\ h.buffer \in [1 .. s -> Bytes]
    /\ h.dest \in [1 .. h.len -> Bytes]

ReadsInRange == \A t \in Threads : Going(th[t]) => InRange(th[t], Size(t), End(t))

\* A chunk file holds the chunk of some process that publishes under this name.
FilesArePayloads ==
    \A n \in Names, k \in Chunks : files[n][k].state # "absent" =>
        \E p \in Processes : /\ n = NameOf[VersionOf[p]]
                             /\ files[n][k].version = VersionOf[p]
                             /\ files[n][k].payload = Payload(p, k)

\* A publish under way holds mutex_, and what it renames is complete.
PublishHoldsMutex ==
    \A t \in Threads :
        /\ th[t].pc \in {"write", "rename"} => mutex[ProcessOf[t]] = t
        /\ th[t].pc = "rename" => temp[ProcessOf[t]] # "partial"

\* An entry of inflight_ has exactly one fetcher, and who has joined waits for a fetch that is running.
FetcherHasEntry ==
    \A t \in Threads : th[t].pc \in FetchPcs =>
        inflight[ProcessOf[t]][th[t].chunk].state = IF th[t].pc = "erase" THEN "done" ELSE "running"
FetchersApart ==
    \A t, u \in Threads : /\ th[t].pc \in FetchPcs
                          /\ th[u].pc \in FetchPcs
                          /\ ProcessOf[t] = ProcessOf[u]
                          /\ th[t].chunk = th[u].chunk
                          => t = u
EntryIsServed ==
    \A p \in Processes, k \in Chunks : inflight[p][k].state # "none" =>
        \E t \in Threads : ProcessOf[t] = p /\ th[t].chunk = k /\ th[t].pc \in FetchPcs
JoinedWaits ==
    \A t \in Threads : th[t].pc = "joined" => inflight[ProcessOf[t]][th[t].chunk].state = "running"
EntryHasFetcher == FetcherHasEntry /\ FetchersApart /\ EntryIsServed /\ JoinedWaits

MirrorInv == TypeOK /\ ReadsInRange /\ FilesArePayloads /\ PublishHoldsMutex /\ EntryHasFetcher

\* The chunk files the disk has damaged.
BadFiles == {x \in Names \X Chunks : files[x[1]][x[2]].state = "bad"}
BadFilesCounted == IsFiniteSet(BadFiles) /\ Cardinality(BadFiles) <= damages

\* A read under way has copied what of its range lies before its chunk, and counted it.
Copies(h, s, v) ==
    /\ h.written = IF h.off < h.chunk * s THEN h.chunk * s - h.off ELSE 0
    /\ \A i \in 1 .. h.len : h.off + i - 1 < h.chunk * s => h.dest[i] = <<v, h.off + i - 1>>

\* The outcome of a read that has returned.
Outcome(h, v) ==
    IF h.status = "ok"
    THEN h.written = h.len /\ h.dest = [i \in 1 .. h.len |-> <<v, h.off + i - 1>>]
    ELSE h.len > 0 => h.written < h.len

CopiesExact ==
    \A t \in Threads : /\ Going(th[t]) => Copies(th[t], Size(t), VersionOf[ProcessOf[t]])
                       /\ th[t].pc = "returned" => Outcome(th[t], VersionOf[ProcessOf[t]])

\* The processes that mirror one version cut it into chunks of the same size.
SizesAgree == \A p, q \in Processes : VersionOf[p] = VersionOf[q] => SizeOf[p] = SizeOf[q]

\* The processes that mirror different versions can tell them apart in a chunk file: they differ in the hash
\* of the url, the total size or the validator.
VersionsTold ==
    \A p, q \in Processes :
        /\ UrlHashOf[VersionOf[p]] = UrlHashOf[VersionOf[q]]
        /\ Total(p) = Total(q)
        /\ ValidatorOf[VersionOf[p]] = ValidatorOf[VersionOf[q]]
        => VersionOf[p] = VersionOf[q]

\* No two processes use the same file names.
NamesApart == \A p, q \in Processes : NameOf[VersionOf[p]] = NameOf[VersionOf[q]] => p = q

-----------------------------------------------------------------------------
(* Arithmetic of chunks *)

\* The smaller of two integers.
LEMMA MinOfTwo == ASSUME NEW a \in Int, NEW b \in Int PROVE Min({a, b}) = IF a <= b THEN a ELSE b
BY DEF Min

\* The larger of two integers.
LEMMA MaxOfTwo == ASSUME NEW a \in Int, NEW b \in Int PROVE Max({a, b}) = IF a <= b THEN b ELSE a
BY DEF Max

\* The chunk that holds position x.
LEMMA ChunkOf ==
    ASSUME NEW s \in Nat \ {0}, NEW x \in Nat
    PROVE  x \div s \in Nat /\ (x \div s) * s <= x /\ x < (x \div s) * s + s
OBVIOUS

\* A position lies in chunk k exactly when k's bounds enclose it.
LEMMA ChunkIs ==
    ASSUME NEW s \in Nat \ {0}, NEW x \in Nat, NEW k \in Nat, k * s <= x
    PROVE  k = x \div s <=> x < k * s + s
OBVIOUS

\* The chunk after k starts one chunk size later.
LEMMA NextChunk == ASSUME NEW s \in Nat \ {0}, NEW k \in Nat PROVE (k + 1) * s = k * s + s /\ k * s \in Nat
OBVIOUS

\* A chunk's index is at most its first byte.
LEMMA ChunkBelow == ASSUME NEW s \in Nat \ {0}, NEW k \in Nat PROVE k <= k * s
OBVIOUS

\* A total size is a number up to its bound.
LEMMA TotalType == ASSUME NEW p \in Processes
                   PROVE  Total(p) \in Nat /\ Total(p) <= MaxTotal /\ MaxTotal \in Nat
<1>1. VersionOf[p] \in Versions
      BY MirrorAssumption
<1>2. TotalOf[VersionOf[p]] \in 0 .. MaxTotal /\ MaxTotal \in Nat
      BY <1>1, MirrorAssumption
<1> QED BY <1>2 DEF Total

\* A thread's chunk size is that of its process, and positive.
LEMMA SizeType == ASSUME NEW t \in Threads
                  PROVE  /\ ProcessOf[t] \in Processes /\ Size(t) \in Nat \ {0} /\ Size(t) = SizeOf[ProcessOf[t]]
                         /\ End(t) = Total(ProcessOf[t]) /\ End(t) \in Nat /\ End(t) <= MaxTotal /\ MaxTotal \in Nat
<1>1. ProcessOf[t] \in Processes
      BY MirrorAssumption
<1>2. PICK n \in Nat : n = Total(ProcessOf[t]) /\ n <= MaxTotal /\ MaxTotal \in Nat
      BY <1>1, TotalType
<1>3. Size(t) \in Nat \ {0} /\ Size(t) = SizeOf[ProcessOf[t]]
      BY <1>1, MirrorAssumption DEF Size
<1> QED BY <1>1, <1>2, <1>3 DEF End

\* A chunk ends at the next one or at the end of the object.
LEMMA ChunkEndIs ==
    ASSUME NEW p \in Processes, NEW k \in Nat
    PROVE  /\ ChunkEnd(p, k) = IF k * SizeOf[p] + SizeOf[p] <= Total(p) THEN k * SizeOf[p] + SizeOf[p] ELSE Total(p)
           /\ ChunkEnd(p, k) \in Nat /\ k * SizeOf[p] \in Nat /\ SizeOf[p] \in Nat \ {0} /\ Total(p) \in Nat
<1>1. SizeOf[p] \in Nat \ {0} /\ Total(p) \in Nat
      BY MirrorAssumption, TotalType
<1>2. (k + 1) * SizeOf[p] = k * SizeOf[p] + SizeOf[p] /\ k * SizeOf[p] \in Nat
      BY <1>1, NextChunk
<1>3. PICK a \in Nat : a = k * SizeOf[p] + SizeOf[p]
      BY <1>1, <1>2
<1>4. ChunkEnd(p, k) = IF a <= Total(p) THEN a ELSE Total(p)
      BY <1>1, <1>2, <1>3, MinOfTwo DEF ChunkEnd
<1> QED BY <1>1, <1>2, <1>3, <1>4

\* A chunk's payload holds the process's version of exactly its bytes.
LEMMA PayloadFacts ==
    ASSUME NEW p \in Processes, NEW k \in Chunks
    PROVE  /\ Payload(p, k) \in Seq(Bytes)
           /\ k * SizeOf[p] < Total(p) => Len(Payload(p, k)) = ChunkEnd(p, k) - k * SizeOf[p]
           /\ \A i \in 1 .. ChunkEnd(p, k) - k * SizeOf[p] :
                Payload(p, k)[i] = <<VersionOf[p], k * SizeOf[p] + i - 1>>
<1>1. k \in Nat
      BY MirrorAssumption DEF Chunks
<1>2. PICK a, b \in Nat : a = k * SizeOf[p] /\ b = ChunkEnd(p, k)
      BY <1>1, ChunkEndIs
<1>3. Payload(p, k) = [i \in 1 .. b - a |-> <<VersionOf[p], a + i - 1>>]
      BY <1>2 DEF Payload
<1>4. \A i \in 1 .. b - a : <<VersionOf[p], a + i - 1>> \in Bytes
   <2>1. VersionOf[p] \in Versions
         BY MirrorAssumption
   <2>2. \A i \in 1 .. b - a : a + i - 1 \in Nat
         OBVIOUS
   <2> QED BY <2>1, <2>2 DEF Bytes
<1>5. PICK n \in Nat : n = (IF a <= b THEN b - a ELSE 0) /\ 1 .. b - a = 1 .. n
   <2>1. CASE a <= b
         BY <2>1, b - a \in Nat
   <2>2. CASE ~(a <= b)
         BY <2>2, 1 .. b - a = 1 .. 0, 0 \in Nat
   <2> QED BY <2>1, <2>2
<1>s. Payload(p, k) \in Seq(Bytes) /\ Len(Payload(p, k)) = n
   <2>1. Payload(p, k) = [i \in 1 .. n |-> <<VersionOf[p], a + i - 1>>]
         BY <1>3, <1>5
   <2>2. \A i \in 1 .. n : <<VersionOf[p], a + i - 1>> \in Bytes
         BY <1>4, <1>5
   <2>3. Payload(p, k) \in [1 .. n -> Bytes]
         BY <2>1, <2>2
   <2> QED BY <2>3
<1>6. a < Total(p) => a <= b
   <2>1. PICK s \in Nat : s = SizeOf[p]
         BY MirrorAssumption
   <2>2. b = (IF a + s <= Total(p) THEN a + s ELSE Total(p)) /\ Total(p) \in Nat
         BY <2>1, <1>1, <1>2, ChunkEndIs
   <2> QED BY <2>2
<1> QED BY <1>2, <1>3, <1>5, <1>s, <1>6

-----------------------------------------------------------------------------
(* Copying a chunk into the destination *)

\* Where the part of the range that lies in the chunk begins and ends, and when the chunk is the last one.
LEMMA CopyBounds ==
    ASSUME NEW t \in Threads, th[t] \in ReadRecords, InRange(th[t], Size(t), End(t))
    PROVE  LET h == th[t]
               c == h.chunk * Size(t)
           IN  /\ c \in Nat
               /\ CopyStart(t) = IF h.off <= c THEN c ELSE h.off
               /\ CopyEnd(t) = IF h.off + h.len <= c + Size(t) THEN h.off + h.len ELSE c + Size(t)
               /\ h.chunk = (h.off + h.len - 1) \div Size(t) <=> h.off + h.len <= c + Size(t)
<1>1. PICK o, n, k, s \in Nat : o = th[t].off /\ n = th[t].len /\ k = th[t].chunk /\ s = Size(t)
      BY SizeType DEF ReadRecords
<1>2. s \in Nat \ {0} /\ End(t) \in Nat /\ n > 0 /\ o + n <= End(t) /\ k * s < o + n /\ o < k * s + s
      BY <1>1, SizeType, MirrorAssumption DEF InRange
<1>3. PICK c \in Nat : c = k * s
      BY <1>2, NextChunk
<1>4. CopyStart(t) = IF o <= c THEN c ELSE o
   <2>1. CopyStart(t) = Max({o, c})
         BY <1>1, <1>3 DEF CopyStart
   <2> QED BY <2>1, MaxOfTwo
<1>5. CopyEnd(t) = IF o + n <= c + s THEN o + n ELSE c + s
   <2>1. PICK e \in Nat : e = ChunkEnd(ProcessOf[t], k) /\ e = IF c + s <= End(t) THEN c + s ELSE End(t)
      <3>1. PICK p \in Processes : p = ProcessOf[t] /\ s = SizeOf[p]
            BY <1>1, <1>3, SizeType
      <3>2. PICK z \in Nat : z = End(t) /\ z = Total(p)
            BY <3>1, SizeType
      <3>3. ChunkEnd(p, k) \in Nat /\ ChunkEnd(p, k) = IF c + s <= z THEN c + s ELSE z
            BY <1>1, <1>3, <3>1, <3>2, ChunkEndIs
      <3> QED BY <3>1, <3>2, <3>3
   <2>2. CopyEnd(t) = Min({o + n, e})
         BY <1>1, <2>1 DEF CopyEnd
   <2>3. PICK b \in Nat : b = o + n
         BY <1>2
   <2>4. CopyEnd(t) = IF b <= e THEN b ELSE e
         BY <2>2, <2>3, MinOfTwo
   <2> QED BY <1>2, <2>1, <2>3, <2>4
<1>6. k = (o + n - 1) \div s <=> o + n <= c + s
   <2>1. PICK x \in Nat : x = o + n - 1
         BY <1>2
   <2>2. k = x \div s <=> x < c + s
         BY <1>2, <1>3, <2>1, ChunkIs
   <2> QED BY <2>1, <2>2
<1> QED BY <1>1, <1>3, <1>4, <1>5, <1>6

\* The read after a copy, field by field.
LEMMA CopiedFields ==
    ASSUME NEW t \in Threads, th[t] \in ReadRecords, InRange(th[t], Size(t), End(t)),
           NEW buffer \in [1 .. Size(t) -> Bytes]
    PROVE  LET h == th[t]
               g == Copied(t, buffer)
               c == h.chunk * Size(t)
               last == h.off + h.len <= c + Size(t)
           IN  /\ g \in ReadRecords /\ g.off = h.off /\ g.len = h.len /\ g.status = "ok"
               /\ g.pc = (IF last THEN "returned" ELSE "lookup")
               /\ g.chunk = (IF last THEN h.chunk ELSE h.chunk + 1)
               /\ g.buffer = buffer
               /\ g.written = h.written + (CopyEnd(t) - CopyStart(t))
               /\ g.dest \in [1 .. h.len -> Bytes]
               /\ \A i \in 1 .. h.len : g.dest[i] =
                    IF CopyStart(t) <= h.off + i - 1 /\ h.off + i - 1 < CopyEnd(t)
                    THEN buffer[h.off + i - 1 - c + 1] ELSE h.dest[i]
<1>1. PICK h \in ReadRecords : h = th[t]
      OBVIOUS
<1>2. PICK s \in Nat : s = Size(t) /\ s # 0
      BY SizeType
<1>3. /\ h.off \in Nat /\ h.len \in Nat /\ h.chunk \in Nat /\ h.written \in Int
      /\ h.dest \in [1 .. h.len -> Bytes] /\ h.len > 0
      BY <1>1 DEF ReadRecords, InRange
<1>4. PICK c \in Nat : c = h.chunk * s
      BY <1>2, <1>3, NextChunk
<1>b. /\ CopyStart(t) = (IF h.off <= c THEN c ELSE h.off)
      /\ CopyEnd(t) = (IF h.off + h.len <= c + s THEN h.off + h.len ELSE c + s)
      /\ h.chunk = (h.off + h.len - 1) \div s <=> h.off + h.len <= c + s
      BY <1>1, <1>2, <1>4, CopyBounds
<1>5. PICK from, to \in Nat : /\ from = CopyStart(t) /\ to = CopyEnd(t)
                              /\ from = (IF h.off <= c THEN c ELSE h.off)
                              /\ to = (IF h.off + h.len <= c + s THEN h.off + h.len ELSE c + s)
   <2>1. CopyStart(t) \in Nat /\ CopyEnd(t) \in Nat
         BY <1>b, <1>3
   <2> QED BY <2>1, <1>b
<1> DEFINE last == h.off + h.len <= c + s
           final == h.chunk = (h.off + h.len - 1) \div Size(t)
           copied == [i \in DOMAIN h.dest |->
                        IF CopyStart(t) <= h.off + i - 1 /\ h.off + i - 1 < CopyEnd(t)
                        THEN buffer[h.off + i - 1 - h.chunk * Size(t) + 1] ELSE h.dest[i]]
           g == Copied(t, buffer)
<1>6. g = [h EXCEPT !.pc = IF final THEN "returned" ELSE "lookup",
                    !.chunk = IF final THEN @ ELSE @ + 1,
                    !.buffer = buffer, !.status = "ok",
                    !.written = @ + (CopyEnd(t) - CopyStart(t)),
                    !.dest = copied]
      BY <1>1 DEF Copied
<1>7. final <=> last
      BY <1>2, <1>b
<1>8. /\ copied \in [1 .. h.len -> Bytes]
      /\ \A i \in 1 .. h.len : copied[i] = IF from <= h.off + i - 1 /\ h.off + i - 1 < to
                                            THEN buffer[h.off + i - 1 - c + 1] ELSE h.dest[i]
   <2>1. ASSUME NEW i \in 1 .. h.len, from <= h.off + i - 1, h.off + i - 1 < to
         PROVE  h.off + i - 1 - c + 1 \in 1 .. s
      <3>1. c <= from /\ to <= c + s
         <4>1. h.off \in Nat /\ h.len \in Nat
               BY <1>3
         <4> QED BY <4>1, <1>5
      <3>2. PICK x \in Int : x = h.off + i - 1 /\ from <= x /\ x < to
         <4>1. h.off \in Nat
               BY <1>3
         <4> QED BY <4>1, <2>1
      <3>3. x - c + 1 \in 1 .. s
            BY <3>1, <3>2
      <3>4. h.off + i - 1 - c + 1 = x - c + 1
         <4>1. h.off \in Nat
               BY <1>3
         <4> QED BY <4>1, <3>2
      <3> QED BY <3>3, <3>4
   <2>2. \A j \in 1 .. s : buffer[j] \in Bytes
         BY <1>2
   <2>3. DOMAIN h.dest = 1 .. h.len
         BY <1>3
   <2>4. PICK m \in Nat : m = h.chunk * Size(t) /\ m = c
         BY <1>2, <1>4
   <2>r. ASSUME NEW i \in 1 .. h.len
         PROVE  copied[i] = IF CopyStart(t) <= h.off + i - 1 /\ h.off + i - 1 < CopyEnd(t)
                            THEN buffer[h.off + i - 1 - h.chunk * Size(t) + 1] ELSE h.dest[i]
      <3>1. i \in DOMAIN h.dest
            BY <2>3
      <3> QED BY <3>1
   <2>5. ASSUME NEW i \in 1 .. h.len
         PROVE  copied[i] = IF from <= h.off + i - 1 /\ h.off + i - 1 < to
                            THEN buffer[h.off + i - 1 - c + 1] ELSE h.dest[i]
      <3> HIDE DEF copied
      <3> QED BY <2>r, <2>4, <1>5, Zenon
   <2>6. \A i \in 1 .. h.len : copied[i] \in Bytes
         BY <2>1, <2>2, <2>5, <1>3
   <2>7. copied = [i \in DOMAIN copied |-> copied[i]] /\ DOMAIN copied = 1 .. h.len
         BY <2>3, Zenon
   <2> HIDE DEF copied
   <2>8. copied \in [1 .. h.len -> Bytes]
         BY <2>6, <2>7
   <2> QED BY <2>5, <2>8
<1> HIDE DEF copied
<1>9. copied \in Seq(Bytes)
   <2>1. PICK n \in Nat : n = h.len
         BY <1>3
   <2>2. copied \in [1 .. n -> Bytes]
         BY <1>8, <2>1, Zenon
   <2> QED BY <2>2
<1>10. buffer \in Seq(Bytes)
   <2>1. buffer \in [1 .. s -> Bytes]
         BY <1>2
   <2> QED BY <2>1
<1> HIDE DEF copied, last, final, g
<1>11. PICK pc \in {"returned", "lookup"}, k \in Nat, w \in Int :
          /\ pc = (IF last THEN "returned" ELSE "lookup")
          /\ k = (IF last THEN h.chunk ELSE h.chunk + 1)
          /\ w = h.written + (to - from)
   <2>1. h.chunk + 1 \in Nat /\ h.written + (to - from) \in Int
         BY <1>3
   <2> QED BY <2>1, <1>3
<1>12. g = [h EXCEPT !.pc = pc, !.chunk = k, !.buffer = buffer, !.status = "ok", !.written = w, !.dest = copied]
      BY <1>5, <1>6, <1>7, <1>11
<1>13. /\ g \in ReadRecords /\ g.off = h.off /\ g.len = h.len /\ g.status = "ok"
       /\ g.pc = pc /\ g.chunk = k /\ g.buffer = buffer /\ g.written = w /\ g.dest = copied
      BY <1>9, <1>10, <1>12 DEF ReadRecords, Pcs, Statuses
<1> QED BY <1>1, <1>2, <1>4, <1>5, <1>8, <1>11, <1>13 DEF last, g

\* A read goes on to a chunk that still meets its range.
LEMMA CopiedInRange ==
    ASSUME NEW t \in Threads, th[t] \in ReadRecords, InRange(th[t], Size(t), End(t)),
           NEW buffer \in [1 .. Size(t) -> Bytes], Going(Copied(t, buffer))
    PROVE  InRange(Copied(t, buffer), Size(t), End(t))
<1>1. PICK h, g \in ReadRecords : h = th[t] /\ g = Copied(t, buffer)
      BY CopiedFields
<1>2. PICK s \in Nat : s = Size(t) /\ s # 0
      BY SizeType
<1>3. /\ h.off \in Nat /\ h.len \in Nat /\ h.chunk \in Nat /\ h.len > 0 /\ h.off + h.len <= End(t)
      /\ h.off < h.chunk * s + s /\ h.chunk * s < h.off + h.len
      BY <1>1, <1>2 DEF ReadRecords, InRange
<1>4. PICK c \in Nat : c = h.chunk * s
      BY <1>2, <1>3, NextChunk
<1>5. /\ g.off = h.off /\ g.len = h.len /\ ~(h.off + h.len <= c + s) /\ g.chunk = h.chunk + 1
      /\ g.buffer = buffer /\ g.dest \in [1 .. h.len -> Bytes]
   <2>1. /\ g.pc = (IF h.off + h.len <= c + s THEN "returned" ELSE "lookup")
         /\ g.chunk = (IF h.off + h.len <= c + s THEN h.chunk ELSE h.chunk + 1)
         /\ g.off = h.off /\ g.len = h.len /\ g.buffer = buffer /\ g.dest \in [1 .. h.len -> Bytes]
         BY <1>1, <1>2, <1>4, CopiedFields
   <2> QED BY <2>1, <1>1 DEF Going
<1>6. g.chunk * s = c + s
      BY <1>2, <1>3, <1>4, <1>5, NextChunk
<1>7. g.chunk <= g.chunk * s /\ g.chunk \in Nat
   <2>1. PICK k \in Nat : k = g.chunk
         BY <1>3, <1>5
   <2> QED BY <2>1, <1>2, ChunkBelow
<1>8. g.chunk \in Chunks
   <2>1. /\ h.off \in Nat /\ h.len \in Nat /\ h.off + h.len <= End(t) /\ End(t) \in Nat
         /\ End(t) <= MaxTotal /\ MaxTotal \in Nat
         BY <1>3, SizeType, Zenon
   <2>2. g.chunk \in Nat /\ g.chunk <= c + s
         BY <1>6, <1>7, Zenon
   <2>3. ~(h.off + h.len <= c + s)
         BY <1>5, Zenon
   <2>4. g.chunk < MaxTotal /\ MaxTotal \in Nat
         BY <2>1, <2>2, <2>3
   <2> QED BY <2>1, <2>2, <2>4 DEF Chunks
<1>9. InRange(g, s, End(t))
   <2>1. h.off \in Nat /\ h.len \in Nat /\ h.len > 0 /\ h.off + h.len <= End(t) /\ h.off < c + s
         BY <1>3, <1>4, Zenon
   <2>2. g.off = h.off /\ g.len = h.len /\ g.chunk * s = c + s /\ ~(h.off + h.len <= c + s)
         BY <1>5, <1>6, Zenon
   <2>3. c + s < h.off + h.len /\ h.off < c + s + s
         BY <2>1, <2>2
   <2>4. g.buffer \in [1 .. s -> Bytes] /\ g.dest \in [1 .. g.len -> Bytes]
         BY <1>2, <1>5, Zenon
   <2> QED BY <2>1, <2>2, <2>3, <2>4, <1>8, Zenon DEF InRange
<1> QED BY <1>1, <1>2, <1>9

-----------------------------------------------------------------------------
(* What a step can do to a read *)

\* The read stays at its chunk; if it returns, it has failed.
Stays(u) ==
    /\ Going(th[u])
    /\ th'[u] \in ReadRecords
    /\ th'[u].off = th[u].off /\ th'[u].len = th[u].len /\ th'[u].chunk = th[u].chunk
    /\ th'[u].written = th[u].written /\ th'[u].dest = th[u].dest
    /\ th'[u].buffer \in [1 .. Size(u) -> Bytes]
    /\ th'[u].pc # "idle" /\ (th'[u].pc = "returned" => th'[u].status # "ok")

\* The read copies the chunk that read_chunk has accepted.
Copying(u) ==
    /\ th[u].pc \in {"lookup", "readback"}
    /\ ReadStatus(ProcessOf[u], th[u].chunk) = "ok"
    /\ th'[u] = Copied(u, Loaded(u, th[u].chunk))

\* The read is over, or was refused, or has just begun.
Refused(h) == h.pc = "returned" /\ h.status # "ok" /\ h.written = 0
Begun(h, s, e) ==
    /\ h.pc = "lookup"
    /\ InRange(h, s, e)
    /\ h.chunk * s <= h.off
    /\ h.written = 0
Fresh(u) ==
    /\ th[u].pc \in {"idle", "returned"} \/ th'[u] = IdleThread
    /\ th'[u] \in ReadRecords
    /\ th'[u] = IdleThread \/ Refused(th'[u]) \/ Begun(th'[u], Size(u), End(u))

ThreadKind(u) == th'[u] = th[u] \/ Stays(u) \/ Copying(u) \/ Fresh(u)

\* The file a process looks up is a file record under its version's name.
LEMMA FileType ==
    ASSUME TypeOK, NEW p \in Processes, NEW k \in Chunks
    PROVE  File(p, k) \in FileRecords /\ NameOf[VersionOf[p]] \in Names /\ VersionOf[p] \in Versions
BY MirrorAssumption DEF TypeOK, File

\* A read under way has a chunk inside its range and a buffer of one chunk.
LEMMA GoingFacts ==
    ASSUME MirrorInv, NEW u \in Threads
    PROVE  /\ th[u] \in ReadRecords
           /\ Going(th[u]) => /\ InRange(th[u], Size(u), End(u)) /\ th[u].chunk \in Chunks
                              /\ th[u].buffer \in [1 .. Size(u) -> Bytes]
BY DEF MirrorInv, TypeOK, ReadsInRange, InRange

\* Reading a file into the buffer leaves a buffer.
LEMMA LoadedType ==
    ASSUME MirrorInv, NEW u \in Threads, Going(th[u])
    PROVE  Loaded(u, th[u].chunk) \in [1 .. Size(u) -> Bytes]
<1>1. PICK f \in FileRecords : f = File(ProcessOf[u], th[u].chunk)
      BY GoingFacts, SizeType, FileType DEF MirrorInv
<1>s. PICK s \in Nat : s = Size(u)
      BY SizeType
<1>2. PICK b \in [1 .. s -> Bytes] : b = th[u].buffer
      BY <1>s, GoingFacts
<1>3. f.payload \in Seq(Bytes) /\ Len(f.payload) \in Nat /\ Junk \in Bytes
      BY DEF FileRecords, Bytes
<1>4. \A i \in 1 .. s : ~(i > Len(f.payload)) => f.payload[i] \in Bytes
      BY <1>3
<1>5. [i \in 1 .. s |-> IF i > Len(f.payload) THEN b[i] ELSE IF f.state = "bad" THEN Junk ELSE f.payload[i]]
         \in [1 .. s -> Bytes]
      BY <1>3, <1>4
<1> QED BY <1>1, <1>s, <1>2, <1>5 DEF Loaded

\* An idle thread is a read record.
LEMMA IdleType == IdleThread \in ReadRecords
BY DEF IdleThread, ReadRecords, Pcs, Statuses

\* The read h with new values of pc and status, and of buffer.
At(h, pc, status) == [h EXCEPT !.pc = pc, !.status = status]
AtWith(h, pc, status, buffer) == [h EXCEPT !.pc = pc, !.status = status, !.buffer = buffer]

\* A thread that moves inside its chunk with a new buffer only stays in its read.
LEMMA StaysAs ==
    ASSUME MirrorInv, NEW t \in Threads, Going(th[t]),
           NEW pc \in Pcs \ {"idle"}, NEW status \in Statuses, NEW buffer \in [1 .. Size(t) -> Bytes],
           pc = "returned" => status # "ok",
           th'[t] = AtWith(th[t], pc, status, buffer)
    PROVE  Stays(t) /\ th'[t].pc = pc /\ th'[t].status = status
<1>1. PICK h \in ReadRecords : h = th[t]
      BY GoingFacts
<1>2. buffer \in Seq(Bytes)
   <2>1. PICK s \in Nat : s = Size(t)
         BY SizeType
   <2>2. buffer \in [1 .. s -> Bytes]
         BY <2>1
   <2> QED BY <2>2
<1>3. PICK g : g = [h EXCEPT !.pc = pc, !.status = status, !.buffer = buffer]
      OBVIOUS
<1>4. /\ g \in ReadRecords /\ g.off = h.off /\ g.len = h.len /\ g.chunk = h.chunk /\ g.written = h.written
      /\ g.dest = h.dest /\ g.buffer = buffer /\ g.pc = pc /\ g.status = status
      BY <1>2, <1>3 DEF ReadRecords
<1> QED BY <1>1, <1>3, <1>4 DEF Stays, AtWith

\* A thread that moves inside its chunk keeping its buffer only stays in its read.
LEMMA StaysAsIs ==
    ASSUME MirrorInv, NEW t \in Threads, Going(th[t]),
           NEW pc \in Pcs \ {"idle"}, NEW status \in Statuses, pc = "returned" => status # "ok",
           th'[t] = At(th[t], pc, status)
    PROVE  Stays(t) /\ th'[t].pc = pc /\ th'[t].status = status
<1>1. PICK h \in ReadRecords : h = th[t]
      BY GoingFacts
<1>2. h.buffer \in [1 .. Size(t) -> Bytes]
      BY <1>1, GoingFacts
<1>3. PICK g : g = [h EXCEPT !.pc = pc, !.status = status]
      OBVIOUS
<1>4. /\ g \in ReadRecords /\ g.off = h.off /\ g.len = h.len /\ g.chunk = h.chunk /\ g.written = h.written
      /\ g.dest = h.dest /\ g.buffer = h.buffer /\ g.pc = pc /\ g.status = status
      BY <1>3 DEF ReadRecords
<1> QED BY <1>1, <1>2, <1>3, <1>4 DEF Stays, At

\* Only t moves, and it stays at its chunk.
Moves(t, P) == (\A u \in Threads \ {t} : th'[u] = th[u]) /\ Stays(t) /\ th'[t].pc \in P

\* After a fetch the thread reads the file back, or returns the error.
LEMMA AfterFetchEffect ==
    ASSUME MirrorInv, NEW t \in Threads, Going(th[t]), NEW status \in Statuses,
           th'[t] = AfterFetch(th[t], status)
    PROVE  Stays(t) /\ th'[t].pc \in {"readback", "returned"}
<1>1. CASE status = "ok"
   <2>1. th'[t] = At(th[t], "readback", status)
         BY <1>1 DEF AfterFetch, At
   <2> QED BY <2>1, StaysAsIs DEF Pcs
<1>2. CASE status # "ok"
   <2>1. th'[t] = At(th[t], "returned", status)
         BY <1>2 DEF AfterFetch, Failed, At
   <2> QED BY <2>1, <1>2, StaysAsIs DEF Pcs
<1> QED BY <1>1, <1>2

\* The first look at the store copies the chunk, or goes to the in-flight map.
LEMMA LookupEffect ==
    ASSUME MirrorInv, NEW t \in Threads, Lookup(t)
    PROVE  /\ \A u \in Threads \ {t} : th'[u] = th[u]
           /\ Copying(t) \/ (Stays(t) /\ th'[t].pc = "join")
           /\ th[t].pc = "lookup" /\ UNCHANGED <<files, temp, mutex, inflight, damages>>
<1>1. th[t].pc = "lookup" /\ Going(th[t]) /\ UNCHANGED <<files, temp, mutex, inflight, damages>>
      BY DEF Lookup, Going
<1>2. th \in [Threads -> ReadRecords]
      BY DEF MirrorInv, TypeOK
<1>3. /\ \A u \in Threads \ {t} : th'[u] = th[u]
      /\ th'[t] = IF ReadStatus(ProcessOf[t], th[t].chunk) = "ok" THEN Copied(t, Loaded(t, th[t].chunk))
                  ELSE [th[t] EXCEPT !.pc = "join", !.buffer = Loaded(t, th[t].chunk)]
      BY <1>2 DEF Lookup
<1>4. CASE ReadStatus(ProcessOf[t], th[t].chunk) = "ok"
      BY <1>1, <1>3, <1>4 DEF Copying
<1>5. CASE ReadStatus(ProcessOf[t], th[t].chunk) # "ok"
   <2>1. PICK b \in [1 .. Size(t) -> Bytes] : b = Loaded(t, th[t].chunk)
         BY <1>1, LoadedType
   <2>2. PICK h \in ReadRecords : h = th[t]
         BY GoingFacts
   <2>3. [h EXCEPT !.pc = "join", !.buffer = b] = AtWith(h, "join", h.status, b)
         BY DEF ReadRecords, AtWith
   <2>4. h.status \in Statuses
         BY DEF ReadRecords
   <2>5. th'[t] = AtWith(th[t], "join", h.status, b)
         BY <1>3, <1>5, <2>1, <2>2, <2>3
   <2>6. Stays(t) /\ th'[t].pc = "join"
         BY <2>4, <2>5, <1>1, StaysAs DEF Pcs
   <2> QED BY <2>6, <1>1, <1>3
<1> QED BY <1>4, <1>5

\* At the map a thread becomes the fetcher, waits for one, or takes its answer.
LEMMA JoinEffect ==
    ASSUME MirrorInv, NEW t \in Threads, Join(t)
    PROVE  LET f == inflight[ProcessOf[t]][th[t].chunk] IN
           /\ th[t].pc = "join" /\ UNCHANGED <<files, temp, mutex, damages>>
           /\ \/ /\ f.state = "none" /\ Moves(t, {"recheck"})
                 /\ inflight' = [inflight EXCEPT ![ProcessOf[t]][th[t].chunk] =
                                    [state |-> "running", status |-> "ok"]]
              \/ f.state = "running" /\ Moves(t, {"joined"}) /\ UNCHANGED inflight
              \/ Moves(t, {"readback", "returned"}) /\ UNCHANGED inflight
<1>1. th[t].pc = "join" /\ Going(th[t]) /\ UNCHANGED <<files, temp, mutex, damages>>
      BY DEF Join, Going
<1>2. th \in [Threads -> ReadRecords] /\ th[t] \in ReadRecords /\ th[t].status \in Statuses
      BY DEF MirrorInv, TypeOK, ReadRecords
<1>3. PICK f \in Fetches : f = inflight[ProcessOf[t]][th[t].chunk]
      BY <1>1, SizeType, GoingFacts DEF MirrorInv, TypeOK
<1>4. /\ \A u \in Threads \ {t} : th'[u] = th[u]
      /\ th'[t] = IF f.state = "none" THEN [th[t] EXCEPT !.pc = "recheck"]
                  ELSE IF f.state = "running" THEN [th[t] EXCEPT !.pc = "joined"]
                  ELSE AfterFetch(th[t], f.status)
      BY <1>2, <1>3 DEF Join
<1>5. \A h \in ReadRecords, a \in Pcs : [h EXCEPT !.pc = a] = At(h, a, h.status)
      BY DEF ReadRecords, At
<1>6. CASE f.state = "none"
   <2>1. th'[t] = At(th[t], "recheck", th[t].status)
         BY <1>2, <1>4, <1>5, <1>6 DEF Pcs
   <2>2. Stays(t) /\ th'[t].pc = "recheck"
         BY <2>1, <1>1, <1>2, StaysAsIs DEF Pcs
   <2>3. inflight' = [inflight EXCEPT ![ProcessOf[t]][th[t].chunk] = [state |-> "running", status |-> "ok"]]
         BY <1>3, <1>6 DEF Join
   <2> QED BY <2>2, <2>3, <1>1, <1>3, <1>4, <1>6 DEF Moves
<1>7. CASE f.state = "running"
   <2>1. th'[t] = At(th[t], "joined", th[t].status)
         BY <1>2, <1>4, <1>5, <1>7 DEF Pcs
   <2>2. Stays(t) /\ th'[t].pc = "joined"
         BY <2>1, <1>1, <1>2, StaysAsIs DEF Pcs
   <2>3. UNCHANGED inflight
         BY <1>3, <1>7 DEF Join
   <2> QED BY <2>2, <2>3, <1>1, <1>3, <1>4, <1>7 DEF Moves
<1>8. CASE f.state \notin {"none", "running"}
   <2>1. th'[t] = AfterFetch(th[t], f.status) /\ f.status \in Statuses
         BY <1>4, <1>8 DEF Fetches
   <2>2. Stays(t) /\ th'[t].pc \in {"readback", "returned"}
         BY <2>1, <1>1, AfterFetchEffect
   <2>3. UNCHANGED inflight
         BY <1>3, <1>8 DEF Join
   <2> QED BY <2>2, <2>3, <1>1, <1>4 DEF Moves
<1> QED BY <1>6, <1>7, <1>8

\* The new fetcher looks again, and fetches only when the file is not readable.
LEMMA RecheckEffect ==
    ASSUME MirrorInv, NEW t \in Threads, Recheck(t)
    PROVE  /\ th[t].pc = "recheck" /\ UNCHANGED <<files, temp, mutex, inflight, damages>>
           /\ Moves(t, {"settle", "fetch"})
           /\ th'[t].pc = "fetch" => ReadStatus(ProcessOf[t], th[t].chunk) # "ok"
<1>1. th[t].pc = "recheck" /\ Going(th[t]) /\ UNCHANGED <<files, temp, mutex, inflight, damages>>
      BY DEF Recheck, Going
<1>2. th \in [Threads -> ReadRecords] /\ "ok" \in Statuses
      BY DEF MirrorInv, TypeOK, Statuses
<1>3. PICK b \in [1 .. Size(t) -> Bytes] : b = Loaded(t, th[t].chunk)
      BY <1>1, LoadedType
<1>4. PICK a \in {"settle", "fetch"} : a = IF FoundAgain(t) THEN "settle" ELSE "fetch"
      OBVIOUS
<1>5. /\ \A u \in Threads \ {t} : th'[u] = th[u]
      /\ th'[t] = AtWith(th[t], a, "ok", b)
      BY <1>2, <1>3, <1>4 DEF Recheck, AtWith
<1>6. Stays(t) /\ th'[t].pc = a
      BY <1>1, <1>2, <1>5, StaysAs DEF Pcs
<1> QED BY <1>1, <1>4, <1>5, <1>6 DEF Moves, FoundAgain

\* A fetch ends with bytes to publish or with an error to settle.
LEMMA FetchEndsEffect ==
    ASSUME MirrorInv, NEW t \in Threads, FetchEnds(t)
    PROVE  /\ th[t].pc = "fetch" /\ UNCHANGED <<files, temp, mutex, inflight, damages>>
           /\ Moves(t, {"publish", "settle"})
<1>1. th[t].pc = "fetch" /\ Going(th[t]) /\ UNCHANGED <<files, temp, mutex, inflight, damages>>
      BY DEF FetchEnds, Going
<1>2. th \in [Threads -> ReadRecords]
      BY DEF MirrorInv, TypeOK
<1>3. PICK x \in Statuses, a \in {"publish", "settle"} :
         th' = [th EXCEPT ![t].pc = a, ![t].status = x]
      BY DEF FetchEnds, Statuses
<1>4. (\A u \in Threads \ {t} : th'[u] = th[u]) /\ th'[t] = At(th[t], a, x)
      BY <1>2, <1>3 DEF At
<1>5. Stays(t) /\ th'[t].pc = a
      BY <1>1, <1>4, StaysAsIs DEF Pcs
<1> QED BY <1>1, <1>4, <1>5 DEF Moves

\* Publishing takes the process's mutex and opens the temporary file, or fails.
LEMMA OpensEffect ==
    ASSUME MirrorInv, NEW t \in Threads, PublishOpens(t)
    PROVE  /\ th[t].pc = "publish" /\ UNCHANGED <<files, inflight, damages>> /\ mutex[ProcessOf[t]] = NoThread
           /\ \/ /\ Moves(t, {"write"})
                 /\ mutex' = [mutex EXCEPT ![ProcessOf[t]] = t]
                 /\ temp' = [temp EXCEPT ![ProcessOf[t]] = "partial"]
              \/ Moves(t, {"settle"}) /\ UNCHANGED <<mutex, temp>>
<1>1. /\ th[t].pc = "publish" /\ Going(th[t]) /\ UNCHANGED <<files, inflight, damages>>
      /\ mutex[ProcessOf[t]] = NoThread
      BY DEF PublishOpens, Going
<1>2. /\ th \in [Threads -> ReadRecords] /\ th[t].status \in Statuses /\ "publish_failed" \in Statuses
      BY DEF MirrorInv, TypeOK, Statuses, ReadRecords
<1>3. \A h \in ReadRecords : [h EXCEPT !.pc = "write"] = At(h, "write", h.status)
      BY DEF ReadRecords, At
<1>4. CASE /\ mutex' = [mutex EXCEPT ![ProcessOf[t]] = t]
           /\ temp' = [temp EXCEPT ![ProcessOf[t]] = "partial"]
           /\ th' = [th EXCEPT ![t].pc = "write"]
   <2>1. (\A u \in Threads \ {t} : th'[u] = th[u]) /\ th'[t] = At(th[t], "write", th[t].status)
         BY <1>2, <1>3, <1>4
   <2>2. Stays(t) /\ th'[t].pc = "write"
         BY <2>1, <1>1, <1>2, StaysAsIs DEF Pcs
   <2> QED BY <2>1, <2>2, <1>1, <1>4 DEF Moves
<1>5. CASE /\ th' = [th EXCEPT ![t].pc = "settle", ![t].status = "publish_failed"]
           /\ UNCHANGED <<mutex, temp>>
   <2>1. (\A u \in Threads \ {t} : th'[u] = th[u]) /\ th'[t] = At(th[t], "settle", "publish_failed")
         BY <1>2, <1>5 DEF At
   <2>2. Stays(t) /\ th'[t].pc = "settle"
         BY <2>1, <1>1, <1>2, StaysAsIs DEF Pcs
   <2> QED BY <2>1, <2>2, <1>1, <1>5 DEF Moves
<1> QED BY <1>4, <1>5 DEF PublishOpens

\* The end of a publish frees the mutex and removes the temporary file.
LEMMA PublishEndsEffect ==
    ASSUME MirrorInv, NEW t \in Threads, Going(th[t]), NEW status \in Statuses, PublishEnds(t, status)
    PROVE  /\ Moves(t, {"settle"})
           /\ mutex' = [mutex EXCEPT ![ProcessOf[t]] = NoThread]
           /\ temp' = [temp EXCEPT ![ProcessOf[t]] = "none"]
<1>1. th \in [Threads -> ReadRecords]
      BY DEF MirrorInv, TypeOK
<1>2. (\A u \in Threads \ {t} : th'[u] = th[u]) /\ th'[t] = At(th[t], "settle", status)
      BY <1>1 DEF PublishEnds, At
<1>3. Stays(t) /\ th'[t].pc = "settle"
      BY <1>2, StaysAsIs DEF Pcs
<1> QED BY <1>2, <1>3 DEF Moves, PublishEnds

\* Writing completes the temporary file or ends the publish with an error.
LEMMA WritesEffect ==
    ASSUME MirrorInv, NEW t \in Threads, PublishWrites(t)
    PROVE  /\ th[t].pc = "write" /\ UNCHANGED <<files, inflight, damages>>
           /\ \/ /\ Moves(t, {"rename"}) /\ UNCHANGED mutex
                 /\ temp' = [temp EXCEPT ![ProcessOf[t]] = IF @ = "none" THEN "none" ELSE "complete"]
              \/ /\ Moves(t, {"settle"})
                 /\ mutex' = [mutex EXCEPT ![ProcessOf[t]] = NoThread]
                 /\ temp' = [temp EXCEPT ![ProcessOf[t]] = "none"]
<1>1. th[t].pc = "write" /\ Going(th[t]) /\ UNCHANGED <<files, inflight, damages>>
      BY DEF PublishWrites, Going
<1>2. /\ th \in [Threads -> ReadRecords] /\ th[t].status \in Statuses /\ "publish_failed" \in Statuses
      BY DEF MirrorInv, TypeOK, Statuses, ReadRecords
<1>3. \A h \in ReadRecords : [h EXCEPT !.pc = "rename"] = At(h, "rename", h.status)
      BY DEF ReadRecords, At
<1>4. CASE /\ temp' = [temp EXCEPT ![ProcessOf[t]] = IF @ = "none" THEN "none" ELSE "complete"]
           /\ th' = [th EXCEPT ![t].pc = "rename"]
           /\ UNCHANGED mutex
   <2>1. (\A u \in Threads \ {t} : th'[u] = th[u]) /\ th'[t] = At(th[t], "rename", th[t].status)
         BY <1>2, <1>3, <1>4
   <2>2. Stays(t) /\ th'[t].pc = "rename"
         BY <2>1, <1>1, <1>2, StaysAsIs DEF Pcs
   <2> QED BY <2>1, <2>2, <1>1, <1>4 DEF Moves
<1>5. CASE WriteFails(t)
      BY <1>1, <1>2, <1>5, PublishEndsEffect DEF WriteFails
<1> QED BY <1>4, <1>5 DEF PublishWrites

\* The rename puts the whole payload in place, or changes no file.
LEMMA RenamesEffect ==
    ASSUME MirrorInv, NEW t \in Threads, PublishRenames(t)
    PROVE  /\ th[t].pc = "rename" /\ UNCHANGED <<inflight, damages>>
           /\ Moves(t, {"settle"})
           /\ mutex' = [mutex EXCEPT ![ProcessOf[t]] = NoThread]
           /\ temp' = [temp EXCEPT ![ProcessOf[t]] = "none"]
           /\ \/ UNCHANGED files
              \/ LET p == ProcessOf[t]
                     k == th[t].chunk
                 IN  files' = [files EXCEPT ![NameOf[VersionOf[p]]][k] =
                                 [state |-> "good", version |-> VersionOf[p], payload |-> Payload(p, k)]]
<1>1. th[t].pc = "rename" /\ Going(th[t]) /\ UNCHANGED <<inflight, damages>>
      BY DEF PublishRenames, Going
<1>2. "publish_failed" \in Statuses /\ "ok" \in Statuses
      BY DEF Statuses
<1>3. temp[ProcessOf[t]] \in {"none", "complete"}
      BY <1>1, SizeType DEF MirrorInv, PublishHoldsMutex, TypeOK
<1>4. PublishEnds(t, "ok") \/ PublishEnds(t, "publish_failed")
      BY DEF PublishRenames
<1>5. /\ Moves(t, {"settle"})
      /\ mutex' = [mutex EXCEPT ![ProcessOf[t]] = NoThread]
      /\ temp' = [temp EXCEPT ![ProcessOf[t]] = "none"]
      BY <1>1, <1>2, <1>4, PublishEndsEffect
<1> QED BY <1>1, <1>3, <1>5 DEF PublishRenames

\* Erasing clears the fetcher's entry of the map.
LEMMA EraseEffect ==
    ASSUME MirrorInv, NEW t \in Threads, Erase(t)
    PROVE  /\ th[t].pc = "erase" /\ UNCHANGED <<files, temp, mutex, damages>>
           /\ Moves(t, {"readback", "returned"})
           /\ inflight' = [inflight EXCEPT ![ProcessOf[t]][th[t].chunk] = NoFetch]
<1>1. th[t].pc = "erase" /\ Going(th[t]) /\ UNCHANGED <<files, temp, mutex, damages>>
      BY DEF Erase, Going
<1>2. th \in [Threads -> ReadRecords] /\ th[t].status \in Statuses
      BY DEF MirrorInv, TypeOK, ReadRecords
<1>3. (\A u \in Threads \ {t} : th'[u] = th[u]) /\ th'[t] = AfterFetch(th[t], th[t].status)
      BY <1>2 DEF Erase
<1>4. Stays(t) /\ th'[t].pc \in {"readback", "returned"}
      BY <1>1, <1>2, <1>3, AfterFetchEffect
<1> QED BY <1>1, <1>3, <1>4 DEF Moves, Erase

\* Reading back copies the chunk or returns an error.
LEMMA ReadBackEffect ==
    ASSUME MirrorInv, NEW t \in Threads, ReadBack(t)
    PROVE  /\ \A u \in Threads \ {t} : th'[u] = th[u]
           /\ Copying(t) \/ (Stays(t) /\ th'[t].pc = "returned")
           /\ th[t].pc = "readback" /\ UNCHANGED <<files, temp, mutex, inflight, damages>>
<1>1. th[t].pc = "readback" /\ Going(th[t]) /\ UNCHANGED <<files, temp, mutex, inflight, damages>>
      BY DEF ReadBack, Going
<1>2. th \in [Threads -> ReadRecords]
      BY DEF MirrorInv, TypeOK
<1>3. PICK x \in Statuses : x = ReadStatus(ProcessOf[t], th[t].chunk)
      BY DEF ReadStatus, Statuses
<1>4. /\ \A u \in Threads \ {t} : th'[u] = th[u]
      /\ th'[t] = IF x = "ok" THEN Copied(t, Loaded(t, th[t].chunk)) ELSE Failed(th[t], x)
      BY <1>2, <1>3 DEF ReadBack
<1>5. CASE x = "ok"
      BY <1>1, <1>3, <1>4, <1>5 DEF Copying
<1>6. CASE x # "ok"
   <2>1. th'[t] = At(th[t], "returned", x)
         BY <1>4, <1>6 DEF Failed, At
   <2>2. Stays(t) /\ th'[t].pc = "returned"
         BY <2>1, <1>1, <1>6, StaysAsIs DEF Pcs
   <2> QED BY <2>2, <1>1, <1>4
<1> QED BY <1>5, <1>6

\* The fetcher goes on to erase the entry, and whoever has joined goes on.
Wakes(t) ==
    /\ Stays(t) /\ th'[t].pc = "erase"
    /\ \A u \in Joiners(t) : Stays(u) /\ th'[u].pc \in {"readback", "returned"}
    /\ \A u \in Threads \ ({t} \cup Joiners(t)) : th'[u] = th[u]

\* Settling stores the status and wakes the threads that joined.
LEMMA SettleEffect ==
    ASSUME MirrorInv, NEW t \in Threads, Settle(t)
    PROVE  /\ th[t].pc = "settle" /\ UNCHANGED <<files, temp, mutex, damages>>
           /\ Wakes(t)
           /\ inflight' = [inflight EXCEPT ![ProcessOf[t]][th[t].chunk] = [state |-> "done", status |-> th[t].status]]
<1>1. th[t].pc = "settle" /\ Going(th[t]) /\ UNCHANGED <<files, temp, mutex, damages>>
      BY DEF Settle, Going
<1>2. th[t] \in ReadRecords /\ th[t].status \in Statuses
      BY DEF MirrorInv, TypeOK, ReadRecords
<1>3. \A u \in Threads : th'[u] = IF u = t THEN [th[u] EXCEPT !.pc = "erase"]
                                  ELSE IF u \in Woken(t) THEN AfterFetch(th[u], th[t].status) ELSE th[u]
      BY DEF Settle
<1>4. Stays(t) /\ th'[t].pc = "erase"
   <2>1. th'[t] = At(th[t], "erase", th[t].status)
         BY <1>2, <1>3 DEF At, ReadRecords
   <2> QED BY <2>1, <1>1, <1>2, StaysAsIs DEF Pcs
<1>5. ASSUME NEW u \in Joiners(t) PROVE Stays(u) /\ th'[u].pc \in {"readback", "returned"}
   <2>1. u \in Threads /\ th[u].pc = "joined" /\ Going(th[u]) /\ u # t
         BY <1>1 DEF Joiners, Going
   <2>2. th'[u] = AfterFetch(th[u], th[t].status)
         BY <1>3, <2>1 DEF Woken
   <2> QED BY <2>1, <2>2, <1>2, AfterFetchEffect
<1>6. \A u \in Threads \ ({t} \cup Joiners(t)) : th'[u] = th[u]
      BY <1>3 DEF Woken
<1> QED BY <1>1, <1>4, <1>5, <1>6 DEF Wakes, Settle

\* A call starts a read at its first chunk, or is answered at once.
LEMMA CallReadEffect ==
    ASSUME MirrorInv, NEW t \in Threads, CallRead(t)
    PROVE  /\ th[t].pc = "idle" /\ UNCHANGED <<files, temp, mutex, inflight, damages>>
           /\ \A u \in Threads \ {t} : th'[u] = th[u]
           /\ Fresh(t) /\ th'[t].pc \in {"returned", "lookup"}
<1>1. th[t].pc = "idle" /\ UNCHANGED <<files, temp, mutex, inflight, damages>>
      BY DEF CallRead
<1>2. th \in [Threads -> ReadRecords]
      BY DEF MirrorInv, TypeOK
<1>s. PICK s \in Nat \ {0} : s = Size(t)
      BY SizeType
<1> DEFINE Reject(r, status) == [IdleThread EXCEPT !.pc = "returned", !.off = r[1], !.len = r[2], !.status = status]
           Begin(r) == [IdleThread EXCEPT !.pc = "lookup", !.off = r[1], !.len = r[2], !.chunk = r[1] \div s,
                          !.buffer = [i \in 1 .. s |-> Zero], !.dest = [i \in 1 .. r[2] |-> Zero]]
<1>3. PICK r \in Ranges : th' = [th EXCEPT ![t] =
                              IF ~Valid(ProcessOf[t]) \/ r[3] < r[2] \/ r[2] = 0
                              THEN Reject(r, "invalid_argument")
                              ELSE IF r[1] > End(t) \/ r[2] > End(t) - r[1] THEN Reject(r, "out_of_range")
                              ELSE Begin(r)]
      BY <1>s DEF CallRead, End
<1>4. PICK o, n \in Nat : o = r[1] /\ n = r[2]
      BY MirrorAssumption
<1>5. /\ \A u \in Threads \ {t} : th'[u] = th[u]
      /\ \/ th'[t] = Reject(r, "invalid_argument")
         \/ th'[t] = Reject(r, "out_of_range")
         \/ n # 0 /\ ~(o > End(t) \/ n > End(t) - o) /\ th'[t] = Begin(r)
      BY <1>2, <1>3, <1>4
<1>h. PICK h \in ReadRecords : h = IdleThread /\ h.written = 0
      BY IdleType DEF IdleThread
<1>6. ASSUME NEW x \in {"invalid_argument", "out_of_range"}, th'[t] = Reject(r, x)
      PROVE  Fresh(t) /\ th'[t].pc \in {"returned", "lookup"}
   <2>1. PICK g : g = [h EXCEPT !.pc = "returned", !.off = o, !.len = n, !.status = x]
         OBVIOUS
   <2>a. x \in Statuses /\ "returned" \in Pcs
         BY DEF Pcs, Statuses
   <2>2. g \in ReadRecords /\ g.pc = "returned" /\ g.status = x /\ g.written = 0
         BY <2>1, <2>a, <1>h DEF ReadRecords
   <2>3. th'[t] = g
         BY <1>6, <1>4, <1>h, <2>1
   <2> QED BY <2>2, <2>3, <1>1 DEF Fresh, Refused
<1>7. ASSUME n # 0, ~(o > End(t) \/ n > End(t) - o), th'[t] = Begin(r)
      PROVE  Fresh(t) /\ th'[t].pc \in {"returned", "lookup"}
   <2>1. PICK b : b = [i \in 1 .. s |-> Zero]
         OBVIOUS
   <2>2. PICK d : d = [i \in 1 .. n |-> Zero]
         OBVIOUS
   <2>3. /\ b \in [1 .. s -> Bytes] /\ d \in [1 .. n -> Bytes]
         BY <2>1, <2>2 DEF Bytes
   <2>4. b \in Seq(Bytes) /\ d \in Seq(Bytes)
         BY <2>3
   <2>5. PICK k \in Nat : k = o \div s /\ k * s <= o /\ o < k * s + s
         BY ChunkOf
   <2>6. PICK g : g = [h EXCEPT !.pc = "lookup", !.off = o, !.len = n, !.chunk = k, !.buffer = b, !.dest = d]
         OBVIOUS
   <2>7. /\ g \in ReadRecords /\ g.pc = "lookup" /\ g.off = o /\ g.len = n /\ g.chunk = k /\ g.buffer = b
         /\ g.dest = d /\ g.written = 0
         BY <2>4, <2>6, <1>h DEF ReadRecords, Pcs, Statuses
   <2>8. th'[t] = g
         BY <1>7, <1>4, <1>h, <2>1, <2>2, <2>5, <2>6
   <2>9. k \in Chunks /\ End(t) \in Nat
      <3>1. End(t) \in Nat /\ k <= k * s /\ k * s \in Nat /\ End(t) <= MaxTotal /\ MaxTotal \in Nat
            BY ChunkBelow, NextChunk, SizeType
      <3> QED BY <1>7, <2>5, <3>1 DEF Chunks
   <2>10. InRange(g, s, End(t))
         BY <1>7, <2>3, <2>5, <2>7, <2>9 DEF InRange
   <2>11. Begun(g, s, End(t))
         BY <2>5, <2>7, <2>10 DEF Begun
   <2> QED BY <2>7, <2>8, <2>11, <1>1, <1>s DEF Fresh
<1> QED BY <1>1, <1>5, <1>6, <1>7

\* Returning leaves the thread idle.
LEMMA ReturnEffect ==
    ASSUME MirrorInv, NEW t \in Threads, Return(t)
    PROVE  /\ th[t].pc = "returned" /\ UNCHANGED <<files, temp, mutex, inflight, damages>>
           /\ \A u \in Threads \ {t} : th'[u] = th[u]
           /\ Fresh(t) /\ th'[t] = IdleThread /\ th'[t].pc = "idle"
<1>1. th \in [Threads -> ReadRecords]
      BY DEF MirrorInv, TypeOK
<1>2. (\A u \in Threads \ {t} : th'[u] = th[u]) /\ th'[t] = IdleThread /\ th[t].pc = "returned"
      BY <1>1 DEF Return
<1> QED BY <1>2, IdleType DEF Return, Fresh, IdleThread

\* A step of the directory moves no read, except that a crash ends those of its process.
LEMMA CrashEffect ==
    ASSUME NEW p \in Processes, Crash(p)
    PROVE  \A u \in Threads : IF ProcessOf[u] = p THEN th'[u] = IdleThread /\ Fresh(u) ELSE th'[u] = th[u]
BY IdleType DEF Crash, Fresh

\* What one step can do to any thread.
LEMMA ThreadKinds ==
    ASSUME MirrorInv, [Next]_vars
    PROVE  \A u \in Threads : ThreadKind(u)
<1>1. ASSUME NEW t \in Threads, CallRead(t) \/ ReadStep(t) PROVE \A u \in Threads : ThreadKind(u)
   <2>1. CASE Settle(t)
         BY <2>1, SettleEffect DEF Wakes, ThreadKind
   <2>2. CASE CallRead(t) \/ Return(t)
         BY <2>2, CallReadEffect, ReturnEffect DEF ThreadKind
   <2>3. CASE Lookup(t) \/ ReadBack(t)
         BY <2>3, LookupEffect, ReadBackEffect DEF ThreadKind
   <2>4. CASE Join(t)
         BY <2>4, JoinEffect DEF Moves, ThreadKind
   <2>5. CASE Recheck(t) \/ FetchEnds(t) \/ PublishOpens(t) \/ PublishWrites(t) \/ PublishRenames(t) \/ Erase(t)
         BY <2>5, RecheckEffect, FetchEndsEffect, OpensEffect, WritesEffect, RenamesEffect, EraseEffect
            DEF Moves, ThreadKind
   <2> QED BY <1>1, <2>1, <2>2, <2>3, <2>4, <2>5 DEF ReadStep
<1>2. ASSUME NEW p \in Processes, Open(p) PROVE \A u \in Threads : ThreadKind(u)
      BY <1>2 DEF Open, ThreadKind
<1>3. ASSUME NEW p \in Processes, Crash(p) PROVE \A u \in Threads : ThreadKind(u)
      BY <1>3, CrashEffect DEF ThreadKind
<1>4. ASSUME NEW n \in Names, NEW k \in Chunks, Damage(n, k) PROVE \A u \in Threads : ThreadKind(u)
      BY <1>4 DEF Damage, ThreadKind
<1>5. CASE UNCHANGED vars
      BY <1>5 DEF vars, ThreadKind
<1> QED BY <1>1, <1>2, <1>3, <1>4, <1>5 DEF Next

-----------------------------------------------------------------------------
(* Types and ranges *)

\* After a copy a thread looks up its next chunk or returns.
LEMMA CopyingEnds ==
    ASSUME MirrorInv, NEW t \in Threads, Copying(t)
    PROVE  th'[t].pc \in {"lookup", "returned"}
<1>1. Going(th[t]) /\ th'[t] = Copied(t, Loaded(t, th[t].chunk))
      BY DEF Copying, Going
<1>2. PICK b \in [1 .. Size(t) -> Bytes] : b = Loaded(t, th[t].chunk)
      BY <1>1, LoadedType
<1>3. th[t] \in ReadRecords /\ InRange(th[t], Size(t), End(t))
      BY <1>1, GoingFacts
<1>4. Copied(t, b).pc \in {"lookup", "returned"}
      BY <1>3, CopiedFields
<1> QED BY <1>1, <1>2, <1>4

\* Each kind of change keeps the thread's type and its range.
LEMMA ThreadTypes ==
    ASSUME MirrorInv, NEW u \in Threads, ThreadKind(u)
    PROVE  th'[u] \in ReadRecords /\ (Going(th'[u]) => InRange(th'[u], Size(u), End(u)))
<1>1. CASE th'[u] = th[u]
      BY <1>1, GoingFacts
<1>2. CASE Stays(u)
      BY <1>2, GoingFacts DEF Stays, InRange
<1>3. CASE Copying(u)
   <2>1. Going(th[u])
         BY <1>3 DEF Copying, Going
   <2>2. PICK b \in [1 .. Size(u) -> Bytes] : b = Loaded(u, th[u].chunk)
         BY <2>1, LoadedType
   <2>3. th'[u] = Copied(u, b)
         BY <1>3, <2>2 DEF Copying
   <2>4. th[u] \in ReadRecords /\ InRange(th[u], Size(u), End(u))
         BY <2>1, GoingFacts
   <2>5. Copied(u, b) \in ReadRecords
         BY <2>4, CopiedFields
   <2>6. Going(Copied(u, b)) => InRange(Copied(u, b), Size(u), End(u))
         BY <2>4, CopiedInRange
   <2> QED BY <2>3, <2>5, <2>6
<1>4. CASE Fresh(u)
      BY <1>4 DEF Fresh, Refused, Begun, Going, IdleThread
<1> QED BY <1>1, <1>2, <1>3, <1>4 DEF ThreadKind

\* Every step keeps the reads typed and inside their range.
LEMMA ReadTypes ==
    ASSUME MirrorInv, [Next]_vars
    PROVE  th' \in [Threads -> ReadRecords] /\ ReadsInRange'
<1>1. \A u \in Threads : th'[u] \in ReadRecords /\ (Going(th'[u]) => InRange(th'[u], Size(u), End(u)))
      BY ThreadKinds, ThreadTypes
<1>2. th \in [Threads -> ReadRecords]
      BY DEF MirrorInv, TypeOK
<1>4. DOMAIN th' = Threads /\ th' = [u \in DOMAIN th' |-> th'[u]]
   <2>1. ASSUME NEW t \in Threads, CallRead(t) \/ ReadStep(t)
         PROVE  DOMAIN th' = Threads /\ th' = [u \in DOMAIN th' |-> th'[u]]
      <3>1. CASE CallRead(t)
            BY <1>2, <3>1 DEF CallRead
      <3>2. CASE Settle(t)
            BY <3>2 DEF Settle
      <3>3. CASE Lookup(t) \/ Join(t) \/ Recheck(t) \/ Erase(t) \/ ReadBack(t) \/ Return(t)
            BY <1>2, <3>3 DEF Lookup, Join, Recheck, Erase, ReadBack, Return
      <3>4. CASE FetchEnds(t)
            BY <1>2, <3>4 DEF FetchEnds
      <3>5. CASE PublishOpens(t) \/ PublishWrites(t) \/ PublishRenames(t)
            BY <1>2, <3>5 DEF PublishOpens, PublishWrites, PublishRenames, WriteFails, PublishEnds
      <3> QED BY <2>1, <3>1, <3>2, <3>3, <3>4, <3>5 DEF ReadStep
   <2>2. ASSUME NEW p \in Processes, Crash(p) PROVE DOMAIN th' = Threads /\ th' = [u \in DOMAIN th' |-> th'[u]]
         BY <2>2 DEF Crash
   <2>3. CASE UNCHANGED th
         BY <2>3, <1>2
   <2> QED BY <2>1, <2>2, <2>3 DEF Next, Open, Damage, vars
<1>5. th' \in [Threads -> ReadRecords]
      BY <1>1, <1>4
<1>6. ReadsInRange'
   <2>1. \A u \in Threads : Size(u)' = Size(u)
         BY DEF Size
   <2> QED BY <1>1, <2>1 DEF ReadsInRange
<1> QED BY <1>5, <1>6

\* A step of the files: none, the rename of a complete chunk, or damage.
Published(t) ==
    LET p == ProcessOf[t]
        k == th[t].chunk
    IN  /\ th[t].pc = "rename" /\ th'[t].pc = "settle"
        /\ files' = [files EXCEPT ![NameOf[VersionOf[p]]][k] =
                       [state |-> "good", version |-> VersionOf[p], payload |-> Payload(p, k)]]

\* Files change only by a whole publish or by outside damage.
LEMMA FileSteps ==
    ASSUME MirrorInv, [Next]_vars
    PROVE  \/ UNCHANGED <<files, damages>>
           \/ (\E t \in Threads : Published(t)) /\ UNCHANGED damages
           \/ /\ damages' = damages + 1
              /\ \E n \in Names, k \in Chunks : files' = [files EXCEPT ![n][k].state = "bad"]
                                                /\ files[n][k].state = "good"
<1>1. ASSUME NEW t \in Threads, CallRead(t) \/ ReadStep(t)
      PROVE  UNCHANGED <<files, damages>> \/ (Published(t) /\ UNCHANGED damages)
   <2>1. CASE PublishRenames(t)
         BY <2>1, RenamesEffect DEF Published, Moves
   <2>2. CASE ~PublishRenames(t)
         BY <1>1, <2>2 DEF CallRead, ReadStep, Lookup, Join, Recheck, FetchEnds, PublishOpens, PublishWrites, Settle,
                           Erase, ReadBack, Return
   <2> QED BY <2>1, <2>2
<1>2. ASSUME NEW p \in Processes, Open(p) \/ Crash(p) PROVE UNCHANGED <<files, damages>>
      BY <1>2 DEF Open, Crash
<1> QED BY <1>1, <1>2 DEF Next, Damage, vars

\* The file that is renamed is a chunk of the process that publishes it.
LEMMA PublishedFile ==
    ASSUME MirrorInv, NEW t \in Threads, Published(t)
    PROVE  \E p \in Processes, k \in Chunks :
             /\ p = ProcessOf[t] /\ k = th[t].chunk
             /\ NameOf[VersionOf[p]] \in Names /\ VersionOf[p] \in Versions
             /\ Payload(p, k) \in Seq(Bytes)
             /\ files' = [files EXCEPT ![NameOf[VersionOf[p]]][k] =
                            [state |-> "good", version |-> VersionOf[p], payload |-> Payload(p, k)]]
<1>1. Going(th[t])
      BY DEF Published, Going
<1>2. PICK p \in Processes, k \in Chunks : p = ProcessOf[t] /\ k = th[t].chunk
      BY <1>1, GoingFacts, SizeType
<1> QED BY <1>2, PayloadFacts, MirrorAssumption DEF Published

\* Every step keeps each file a whole payload or marked as damaged.
LEMMA FileTypes ==
    ASSUME MirrorInv, [Next]_vars
    PROVE  files' \in [Names -> [Chunks -> FileRecords]] /\ damages' \in Nat /\ FilesArePayloads'
<1>0. /\ files \in [Names -> [Chunks -> FileRecords]] /\ damages \in Nat
      /\ FilesArePayloads
      BY DEF MirrorInv, TypeOK
<1>p. \A p \in Processes, k \in Chunks : Payload(p, k)' = Payload(p, k)
      BY DEF Payload, ChunkEnd, Total
<1>1. CASE UNCHANGED <<files, damages>>
      BY <1>0, <1>1, <1>p DEF FilesArePayloads
<1>2. ASSUME NEW t \in Threads, Published(t), UNCHANGED damages
      PROVE  files' \in [Names -> [Chunks -> FileRecords]] /\ damages' \in Nat /\ FilesArePayloads'
   <2>1. PICK p \in Processes, k \in Chunks :
             /\ p = ProcessOf[t] /\ k = th[t].chunk
             /\ NameOf[VersionOf[p]] \in Names /\ VersionOf[p] \in Versions
             /\ Payload(p, k) \in Seq(Bytes)
             /\ files' = [files EXCEPT ![NameOf[VersionOf[p]]][k] =
                            [state |-> "good", version |-> VersionOf[p], payload |-> Payload(p, k)]]
         BY <1>2, PublishedFile
   <2>2. PICK f \in FileRecords : /\ f = [state |-> "good", version |-> VersionOf[p], payload |-> Payload(p, k)]
                                  /\ f.version = VersionOf[p] /\ f.payload = Payload(p, k)
         BY <2>1 DEF FileRecords
   <2>3. PICK m \in Names : m = NameOf[VersionOf[p]]
         BY <2>1
   <2>4. files' = [files EXCEPT ![m][k] = f]
         BY <2>1, <2>2, <2>3
   <2>5. files' \in [Names -> [Chunks -> FileRecords]]
         BY <2>4, <1>0
   <2>6. \A n \in Names, j \in Chunks : files'[n][j] = IF n = m /\ j = k THEN f ELSE files[n][j]
         BY <2>4, <1>0
   <2>7. FilesArePayloads'
      <3>1. ASSUME NEW n \in Names, NEW j \in Chunks, files'[n][j].state # "absent"
            PROVE  \E q \in Processes : /\ n = NameOf[VersionOf[q]]
                                        /\ files'[n][j].version = VersionOf[q]
                                        /\ files'[n][j].payload = Payload(q, j)
         <4>1. CASE n = m /\ j = k
               BY <4>1, <2>2, <2>3, <2>6
         <4>2. CASE ~(n = m /\ j = k)
               BY <4>2, <2>6, <3>1, <1>0 DEF FilesArePayloads
         <4> QED BY <4>1, <4>2
      <3> QED BY <3>1, <1>p DEF FilesArePayloads
   <2> QED BY <1>0, <1>2, <2>5, <2>7
<1>3. ASSUME NEW m \in Names, NEW k \in Chunks, damages' = damages + 1,
             files' = [files EXCEPT ![m][k].state = "bad"], files[m][k].state = "good"
      PROVE  files' \in [Names -> [Chunks -> FileRecords]] /\ damages' \in Nat /\ FilesArePayloads'
   <2>1. PICK g \in FileRecords : g = files[m][k]
         BY <1>0
   <2>d. PICK f : f = [g EXCEPT !.state = "bad"]
         OBVIOUS
   <2>2. f \in FileRecords /\ f.version = g.version /\ f.payload = g.payload /\ f.state = "bad"
         BY <2>d DEF FileRecords
   <2>3. files' = [files EXCEPT ![m][k] = f]
      <3>1. files[m] \in [Chunks -> FileRecords]
            BY <1>0
      <3>2. files' = [files EXCEPT ![m] = [files[m] EXCEPT ![k] = [files[m][k] EXCEPT !.state = "bad"]]]
            BY <1>3, <1>0, <3>1
      <3> QED BY <3>2, <2>1, <2>d
   <2>4. files' \in [Names -> [Chunks -> FileRecords]]
         BY <2>2, <2>3, <1>0
   <2>5. \A n \in Names, j \in Chunks : files'[n][j] = IF n = m /\ j = k THEN f ELSE files[n][j]
         BY <2>3, <1>0
   <2>6. FilesArePayloads'
      <3>1. ASSUME NEW n \in Names, NEW j \in Chunks, files'[n][j].state # "absent"
            PROVE  \E q \in Processes : /\ n = NameOf[VersionOf[q]]
                                        /\ files'[n][j].version = VersionOf[q]
                                        /\ files'[n][j].payload = Payload(q, j)
         <4>1. /\ files[n][j].state # "absent" /\ files'[n][j].version = files[n][j].version
               /\ files'[n][j].payload = files[n][j].payload
               BY <3>1, <1>3, <2>1, <2>2, <2>5
         <4> QED BY <4>1, <1>0 DEF FilesArePayloads
      <3> QED BY <3>1, <1>p DEF FilesArePayloads
   <2> QED BY <1>0, <1>3, <2>4, <2>6
<1> QED BY <1>1, <1>2, <1>3, FileSteps

-----------------------------------------------------------------------------
(* A publish under way *)

\* Every step keeps at most one publisher in a process.
LEMMA MutexStep ==
    ASSUME MirrorInv, [Next]_vars
    PROVE  /\ temp' \in [Processes -> {"none", "partial", "complete"}]
           /\ mutex' \in [Processes -> Threads \cup {NoThread}]
           /\ PublishHoldsMutex'
<1>0. /\ temp \in [Processes -> {"none", "partial", "complete"}]
      /\ mutex \in [Processes -> Threads \cup {NoThread}]
      /\ PublishHoldsMutex
      /\ \A t \in Threads : ProcessOf[t] \in Processes
      BY SizeType DEF MirrorInv, TypeOK
<1> DEFINE Goal == /\ temp' \in [Processes -> {"none", "partial", "complete"}]
                   /\ mutex' \in [Processes -> Threads \cup {NoThread}]
                   /\ PublishHoldsMutex'
           Elsewhere(t) == \A u \in Threads \ {t} : th'[u] = th[u]
<1>n. NoThread \notin Threads
      BY MirrorAssumption
\* The read moves outside publish_chunk.
<1>1. ASSUME NEW t \in Threads, Elsewhere(t), th'[t].pc \notin {"write", "rename"}, UNCHANGED <<temp, mutex>>
      PROVE  Goal
      BY <1>0, <1>1 DEF PublishHoldsMutex
\* publish_chunk ends.
<1>2. ASSUME NEW t \in Threads, Elsewhere(t), th[t].pc \in {"write", "rename"}, th'[t].pc \notin {"write", "rename"},
             mutex' = [mutex EXCEPT ![ProcessOf[t]] = NoThread], temp' = [temp EXCEPT ![ProcessOf[t]] = "none"]
      PROVE  Goal
      BY <1>0, <1>2 DEF PublishHoldsMutex
<1>3. ASSUME NEW t \in Threads, CallRead(t) \/ ReadStep(t) PROVE Goal
   <2>1. CASE CallRead(t) \/ Return(t)
         BY <2>1, <1>1, CallReadEffect, ReturnEffect
   <2>2. CASE Lookup(t) \/ ReadBack(t)
      <3>1. Elsewhere(t) /\ UNCHANGED <<temp, mutex>> /\ (Copying(t) \/ th'[t].pc \in {"join", "returned"})
            BY <2>2, LookupEffect, ReadBackEffect
      <3>2. Copying(t) => th'[t].pc \in {"lookup", "returned"}
            BY CopyingEnds
      <3> QED BY <3>1, <3>2, <1>1
   <2>3. CASE Join(t) \/ Recheck(t) \/ FetchEnds(t) \/ Erase(t)
         BY <2>3, <1>1, JoinEffect, RecheckEffect, FetchEndsEffect, EraseEffect DEF Moves
   <2>4. CASE PublishOpens(t)
         BY <2>4, <1>0, <1>1, <1>n, OpensEffect DEF Moves, PublishHoldsMutex
   <2>5. CASE PublishWrites(t)
      <3>1. CASE th'[t].pc = "settle"
            BY <2>5, <3>1, <1>2, WritesEffect DEF Moves
      <3>2. CASE th'[t].pc # "settle"
            BY <2>5, <3>2, <1>0, WritesEffect DEF Moves, PublishHoldsMutex
      <3> QED BY <3>1, <3>2
   <2>6. CASE PublishRenames(t)
         BY <2>6, <1>2, RenamesEffect DEF Moves
   <2>7. CASE Settle(t)
         BY <2>7, <1>0, SettleEffect DEF Wakes, PublishHoldsMutex
   <2> QED BY <1>3, <2>1, <2>2, <2>3, <2>4, <2>5, <2>6, <2>7 DEF ReadStep
<1>4. ASSUME NEW p \in Processes, Open(p) PROVE Goal
      BY <1>0, <1>4 DEF Open, CleanedUp, PublishHoldsMutex
<1>5. ASSUME NEW p \in Processes, Crash(p) PROVE Goal
      BY <1>0, <1>5, CrashEffect DEF Crash, PublishHoldsMutex, IdleThread
<1>6. ASSUME NEW n \in Names, NEW k \in Chunks, Damage(n, k) PROVE Goal
      BY <1>0, <1>6 DEF Damage, PublishHoldsMutex
<1>7. CASE UNCHANGED vars
      BY <1>0, <1>7 DEF vars, PublishHoldsMutex
<1> QED BY <1>3, <1>4, <1>5, <1>6, <1>7 DEF Next

-----------------------------------------------------------------------------
(* inflight_ and its fetchers *)

\* The table of inflight_ with one entry replaced.
LEMMA EntryChanged ==
    ASSUME inflight \in [Processes -> [Chunks -> Fetches]], NEW p \in Processes, NEW k \in Chunks,
           NEW f \in Fetches, inflight' = [inflight EXCEPT ![p][k] = f]
    PROVE  /\ inflight' \in [Processes -> [Chunks -> Fetches]]
           /\ \A q \in Processes, j \in Chunks : inflight'[q][j] = IF q = p /\ j = k THEN f ELSE inflight[q][j]
OBVIOUS

\* A read that leaves inflight_ alone and fetches nothing.
Passes(t) ==
    /\ \A u \in Threads \ {t} : th'[u] = th[u]
    /\ th[t].pc \notin FetchPcs
    /\ th'[t].pc \notin FetchPcs \cup {"joined"}
    /\ UNCHANGED inflight

\* A fetcher goes on, before it settles the fetch.
Fetching(t) ==
    /\ Moves(t, FetchPcs \ {"erase"})
    /\ th[t].pc \in FetchPcs \ {"erase"}
    /\ UNCHANGED inflight

\* A thread's step moves a reader, moves a fetcher, or changes the map.
LEMMA ReadKinds ==
    ASSUME MirrorInv, NEW t \in Threads, CallRead(t) \/ ReadStep(t)
    PROVE  Passes(t) \/ Fetching(t) \/ Join(t) \/ Settle(t) \/ Erase(t)
<1>1. CASE CallRead(t) \/ Return(t)
      BY <1>1, CallReadEffect, ReturnEffect DEF Passes, FetchPcs
<1>2. CASE Lookup(t) \/ ReadBack(t)
   <2>1. /\ \A u \in Threads \ {t} : th'[u] = th[u]
         /\ UNCHANGED inflight /\ (Copying(t) \/ th'[t].pc \in {"join", "returned"})
         /\ th[t].pc \in {"lookup", "readback"}
         BY <1>2, LookupEffect, ReadBackEffect
   <2>2. Copying(t) => th'[t].pc \in {"lookup", "returned"}
         BY CopyingEnds
   <2> QED BY <2>1, <2>2 DEF Passes, FetchPcs
<1>3. CASE Recheck(t) \/ FetchEnds(t) \/ PublishOpens(t) \/ PublishWrites(t) \/ PublishRenames(t)
      BY <1>3, RecheckEffect, FetchEndsEffect, OpensEffect, WritesEffect, RenamesEffect
         DEF Fetching, FetchPcs, Moves
<1> QED BY <1>1, <1>2, <1>3 DEF ReadStep

\* A step that moves fetchers to fetchers of the same chunk.
SameFetchers ==
    \A u \in Threads : /\ th'[u].pc \in FetchPcs <=> th[u].pc \in FetchPcs
                       /\ th[u].pc \in FetchPcs => th'[u].chunk = th[u].chunk

\* When no thread starts or stops fetching, each map entry keeps its fetcher.
LEMMA FetchersStay ==
    ASSUME EntryHasFetcher, SameFetchers,
           \A p \in Processes, k \in Chunks : inflight'[p][k].state # "none" => inflight[p][k].state # "none"
    PROVE  FetchersApart' /\ EntryIsServed'
<1>1. FetchersApart'
      BY DEF EntryHasFetcher, FetchersApart, SameFetchers
<1>2. ASSUME NEW p \in Processes, NEW k \in Chunks, inflight'[p][k].state # "none"
      PROVE  \E t \in Threads : ProcessOf[t] = p /\ th'[t].chunk = k /\ th'[t].pc \in FetchPcs
   <2>1. PICK t \in Threads : ProcessOf[t] = p /\ th[t].chunk = k /\ th[t].pc \in FetchPcs
         BY <1>2 DEF EntryHasFetcher, EntryIsServed
   <2> QED BY <2>1 DEF SameFetchers
<1> QED BY <1>1, <1>2 DEF EntryIsServed

\* A step that leaves inflight_ alone: fetchers stay, and nobody joins but a running fetch.
LEMMA FetchesStay ==
    ASSUME EntryHasFetcher, SameFetchers, UNCHANGED inflight,
           \A u \in Threads : th'[u].pc \in FetchPcs => (th'[u].pc = "erase" <=> th[u].pc = "erase"),
           \A u \in Threads : th'[u].pc = "joined" =>
              \/ th'[u] = th[u]
              \/ inflight[ProcessOf[u]][th'[u].chunk].state = "running"
    PROVE  EntryHasFetcher'
<1>1. FetchersApart' /\ EntryIsServed'
      BY FetchersStay
<1>2. FetcherHasEntry'
      BY DEF EntryHasFetcher, FetcherHasEntry, SameFetchers
<1>3. JoinedWaits'
      BY DEF EntryHasFetcher, JoinedWaits
<1> QED BY <1>1, <1>2, <1>3 DEF EntryHasFetcher

\* Joining keeps one fetcher per map entry.
LEMMA JoinStep ==
    ASSUME MirrorInv, NEW t \in Threads, Join(t)
    PROVE  inflight' \in [Processes -> [Chunks -> Fetches]] /\ EntryHasFetcher'
<1>0. /\ inflight \in [Processes -> [Chunks -> Fetches]]
      /\ EntryHasFetcher
      BY DEF MirrorInv, TypeOK
<1>1. PICK p \in Processes, k \in Chunks : p = ProcessOf[t] /\ k = th[t].chunk /\ th[t].pc = "join"
      BY SizeType, GoingFacts DEF Join, Going
<1>2. CASE /\ inflight[p][k].state = "none" /\ Moves(t, {"recheck"})
           /\ inflight' = [inflight EXCEPT ![p][k] = [state |-> "running", status |-> "ok"]]
   <2>f. PICK f : f = [state |-> "running", status |-> "ok"]
         OBVIOUS
   <2>1. f \in Fetches /\ f.state = "running"
         BY <2>f DEF Fetches, Statuses
   <2>2. /\ inflight' \in [Processes -> [Chunks -> Fetches]]
         /\ \A q \in Processes, j \in Chunks : inflight'[q][j] = IF q = p /\ j = k THEN f ELSE inflight[q][j]
         BY <1>0, <1>2, <2>f, <2>1, EntryChanged
   <2>3. \A u \in Threads : th[u].pc \in FetchPcs => ~(ProcessOf[u] = p /\ th[u].chunk = k) /\ u # t
         BY <1>0, <1>1, <1>2 DEF EntryHasFetcher, FetcherHasEntry, FetchPcs
   <2>4. /\ th'[t].pc = "recheck" /\ th'[t].pc \in FetchPcs /\ th'[t].chunk = k
         /\ \A u \in Threads : u = t \/ th'[u] = th[u]
         BY <1>1, <1>2 DEF Moves, Stays, FetchPcs
   <2>5. \A u \in Threads : /\ ProcessOf[u] \in Processes
                            /\ th[u].pc \in FetchPcs \cup {"joined"} => th[u].chunk \in Chunks
         BY SizeType, GoingFacts DEF FetchPcs, Going
   <2>6. FetcherHasEntry'
         BY <1>0, <1>1, <2>1, <2>2, <2>3, <2>4, <2>5 DEF EntryHasFetcher, FetcherHasEntry
   <2>7. FetchersApart'
         BY <1>0, <1>1, <2>3, <2>4 DEF EntryHasFetcher, FetchersApart
   <2>8. EntryIsServed'
      <3>1. ASSUME NEW q \in Processes, NEW j \in Chunks, inflight'[q][j].state # "none"
            PROVE  \E u \in Threads : ProcessOf[u] = q /\ th'[u].chunk = j /\ th'[u].pc \in FetchPcs
         <4>1. CASE q = p /\ j = k
               BY <4>1, <1>1, <2>4
         <4>2. CASE ~(q = p /\ j = k)
            <5>1. PICK u \in Threads : ProcessOf[u] = q /\ th[u].chunk = j /\ th[u].pc \in FetchPcs
                  BY <1>0, <2>2, <3>1, <4>2 DEF EntryHasFetcher, EntryIsServed
            <5> QED BY <5>1, <2>3, <2>4
         <4> QED BY <4>1, <4>2
      <3> QED BY <3>1 DEF EntryIsServed
   <2>9. JoinedWaits'
      <3>1. ASSUME NEW u \in Threads, th'[u].pc = "joined"
            PROVE  inflight'[ProcessOf[u]][th'[u].chunk].state = "running"
         <4>1. th'[u] = th[u] /\ th[u].pc = "joined" /\ th[u].chunk \in Chunks /\ ProcessOf[u] \in Processes
               BY <2>4, <2>5, <3>1
         <4>2. inflight[ProcessOf[u]][th[u].chunk].state = "running"
               BY <4>1, <1>0 DEF EntryHasFetcher, JoinedWaits
         <4> QED BY <2>1, <2>2, <4>1, <4>2
      <3> QED BY <3>1 DEF JoinedWaits
   <2> QED BY <2>2, <2>6, <2>7, <2>8, <2>9 DEF EntryHasFetcher
<1>3. CASE inflight[p][k].state = "running" /\ Moves(t, {"joined"}) /\ UNCHANGED inflight
   <2>1. SameFetchers
         BY <1>1, <1>3 DEF SameFetchers, Moves, FetchPcs
   <2>2. \A u \in Threads : th'[u].pc \in FetchPcs => th'[u] = th[u]
         BY <1>3 DEF Moves, FetchPcs
   <2>3. th'[t].chunk = k /\ \A u \in Threads : u = t \/ th'[u] = th[u]
         BY <1>1, <1>3 DEF Moves, Stays
   <2> QED BY <1>0, <1>1, <1>3, <2>1, <2>2, <2>3, FetchesStay
<1>4. CASE Moves(t, {"readback", "returned"}) /\ UNCHANGED inflight
   <2>1. SameFetchers
         BY <1>1, <1>4 DEF SameFetchers, Moves, FetchPcs
   <2>2. \A u \in Threads : th'[u].pc \in FetchPcs \cup {"joined"} => th'[u] = th[u]
         BY <1>4 DEF Moves, FetchPcs
   <2> QED BY <1>0, <1>4, <2>1, <2>2, FetchesStay
<1> QED BY <1>1, <1>2, <1>3, <1>4, JoinEffect

\* Settling keeps one fetcher per map entry.
LEMMA SettleStep ==
    ASSUME MirrorInv, NEW t \in Threads, Settle(t)
    PROVE  inflight' \in [Processes -> [Chunks -> Fetches]] /\ EntryHasFetcher'
<1>0. /\ inflight \in [Processes -> [Chunks -> Fetches]]
      /\ EntryHasFetcher
      BY DEF MirrorInv, TypeOK
<1>1. PICK p \in Processes, k \in Chunks : p = ProcessOf[t] /\ k = th[t].chunk /\ th[t].pc = "settle"
      BY SizeType, GoingFacts DEF Settle, Going
<1>2. Wakes(t) /\ inflight' = [inflight EXCEPT ![p][k] = [state |-> "done", status |-> th[t].status]]
      BY <1>1, SettleEffect
<1>3. PICK x \in Statuses : x = th[t].status
      BY GoingFacts DEF ReadRecords
<1>f. PICK f : f = [state |-> "done", status |-> x]
      OBVIOUS
<1>4. f \in Fetches /\ f.state = "done"
      BY <1>f DEF Fetches
<1>5. /\ inflight' \in [Processes -> [Chunks -> Fetches]]
      /\ \A q \in Processes, j \in Chunks : inflight'[q][j] = IF q = p /\ j = k THEN f ELSE inflight[q][j]
      BY <1>0, <1>2, <1>3, <1>f, <1>4, EntryChanged
<1>6. /\ th'[t].pc = "erase" /\ th'[t].chunk = k
      /\ \A u \in Threads : \/ u = t \/ th'[u] = th[u]
                            \/ th[u].pc = "joined" /\ th'[u].pc \in {"readback", "returned"}
      BY <1>1, <1>2 DEF Wakes, Stays, Joiners
<1>7. \A u \in Threads : th'[u].pc = "joined" => th'[u] = th[u] /\ ~(ProcessOf[u] = p /\ th[u].chunk = k)
   <2> SUFFICES ASSUME NEW u \in Threads, th'[u].pc = "joined"
                PROVE  th'[u] = th[u] /\ ~(ProcessOf[u] = p /\ th[u].chunk = k)
       OBVIOUS
   <2>1. u # t /\ u \notin Joiners(t)
         BY <1>2 DEF Wakes
   <2>2. th'[u] = th[u]
         BY <1>2, <2>1 DEF Wakes
   <2> QED BY <1>1, <2>1, <2>2 DEF Joiners
<1>8. \A u \in Threads : /\ ProcessOf[u] \in Processes
                         /\ th[u].pc \in FetchPcs \cup {"joined"} => th[u].chunk \in Chunks
      BY SizeType, GoingFacts DEF FetchPcs, Going
<1>9. \A u \in Threads : u # t /\ th[u].pc \in FetchPcs => ~(ProcessOf[u] = p /\ th[u].chunk = k)
      BY <1>0, <1>1 DEF EntryHasFetcher, FetchersApart, FetchPcs
<1>10. SameFetchers
      BY <1>1, <1>6 DEF SameFetchers, FetchPcs
<1>11. FetchersApart' /\ EntryIsServed'
   <2>1. inflight[p][k].state # "none"
         BY <1>0, <1>1 DEF EntryHasFetcher, FetcherHasEntry, FetchPcs
   <2> QED BY <1>0, <1>5, <1>10, <2>1, FetchersStay
<1>12. FetcherHasEntry'
   <2>1. ASSUME NEW u \in Threads, th'[u].pc \in FetchPcs
         PROVE  inflight'[ProcessOf[u]][th'[u].chunk].state = IF th'[u].pc = "erase" THEN "done" ELSE "running"
      <3>1. CASE u = t
            BY <3>1, <1>1, <1>4, <1>5, <1>6
      <3>2. CASE u # t
         <4>1. th'[u] = th[u] /\ th[u].chunk \in Chunks /\ ProcessOf[u] \in Processes
               BY <3>2, <2>1, <1>6, <1>8 DEF FetchPcs
         <4>2. inflight'[ProcessOf[u]][th[u].chunk] = inflight[ProcessOf[u]][th[u].chunk]
               BY <2>1, <3>2, <4>1, <1>5, <1>9
         <4> QED BY <2>1, <4>1, <4>2, <1>0 DEF EntryHasFetcher, FetcherHasEntry
      <3> QED BY <3>1, <3>2
   <2> QED BY <2>1 DEF FetcherHasEntry
<1>13. JoinedWaits'
   <2>1. ASSUME NEW u \in Threads, th'[u].pc = "joined"
         PROVE  inflight'[ProcessOf[u]][th'[u].chunk].state = "running"
      <3>1. th'[u] = th[u] /\ th[u].chunk \in Chunks /\ ProcessOf[u] \in Processes
            BY <2>1, <1>7, <1>8
      <3>2. inflight'[ProcessOf[u]][th[u].chunk] = inflight[ProcessOf[u]][th[u].chunk]
            BY <2>1, <3>1, <1>5, <1>7
      <3> QED BY <2>1, <3>1, <3>2, <1>0 DEF EntryHasFetcher, JoinedWaits
   <2> QED BY <2>1 DEF JoinedWaits
<1> QED BY <1>5, <1>11, <1>12, <1>13 DEF EntryHasFetcher

\* Erasing removes the entry together with its fetcher.
LEMMA EraseStep ==
    ASSUME MirrorInv, NEW t \in Threads, Erase(t)
    PROVE  inflight' \in [Processes -> [Chunks -> Fetches]] /\ EntryHasFetcher'
<1>0. /\ inflight \in [Processes -> [Chunks -> Fetches]]
      /\ EntryHasFetcher
      BY DEF MirrorInv, TypeOK
<1>1. PICK p \in Processes, k \in Chunks : p = ProcessOf[t] /\ k = th[t].chunk /\ th[t].pc = "erase"
      BY SizeType, GoingFacts DEF Erase, Going
<1>2. Moves(t, {"readback", "returned"}) /\ inflight' = [inflight EXCEPT ![p][k] = NoFetch]
      BY <1>1, EraseEffect
<1>3. NoFetch \in Fetches /\ NoFetch.state = "none"
      BY DEF NoFetch, Fetches, Statuses
<1>4. /\ inflight' \in [Processes -> [Chunks -> Fetches]]
      /\ \A q \in Processes, j \in Chunks : inflight'[q][j] = IF q = p /\ j = k THEN NoFetch ELSE inflight[q][j]
      BY <1>0, <1>2, <1>3, EntryChanged
<1>5. /\ th'[t].pc \notin FetchPcs \cup {"joined"}
      /\ \A u \in Threads : u = t \/ th'[u] = th[u]
      BY <1>2 DEF Moves, FetchPcs
<1>6. \A u \in Threads : /\ ProcessOf[u] \in Processes
                         /\ th[u].pc \in FetchPcs \cup {"joined"} => th[u].chunk \in Chunks
      BY SizeType, GoingFacts DEF FetchPcs, Going
<1>7. \A u \in Threads : th'[u].pc \in FetchPcs \cup {"joined"} =>
         th'[u] = th[u] /\ u # t /\ ~(ProcessOf[u] = p /\ th[u].chunk = k)
   <2>1. inflight[p][k].state = "done"
         BY <1>0, <1>1 DEF EntryHasFetcher, FetcherHasEntry, FetchPcs
   <2>2. \A u \in Threads : u # t /\ th[u].pc \in FetchPcs => ~(ProcessOf[u] = p /\ th[u].chunk = k)
         BY <1>0, <1>1 DEF EntryHasFetcher, FetchersApart, FetchPcs
   <2>3. \A u \in Threads : th[u].pc = "joined" => ~(ProcessOf[u] = p /\ th[u].chunk = k)
         BY <1>0, <2>1 DEF EntryHasFetcher, JoinedWaits
   <2> QED BY <1>5, <2>2, <2>3
<1>8. \A u \in Threads : th'[u].pc \in FetchPcs \cup {"joined"} =>
         inflight'[ProcessOf[u]][th'[u].chunk] = inflight[ProcessOf[u]][th[u].chunk] /\ th'[u] = th[u]
      BY <1>4, <1>6, <1>7
<1>9. FetcherHasEntry' /\ JoinedWaits'
      BY <1>0, <1>8 DEF EntryHasFetcher, FetcherHasEntry, JoinedWaits
<1>10. FetchersApart'
      BY <1>0, <1>7 DEF EntryHasFetcher, FetchersApart
<1>11. EntryIsServed'
   <2>1. ASSUME NEW q \in Processes, NEW j \in Chunks, inflight'[q][j].state # "none"
         PROVE  \E u \in Threads : ProcessOf[u] = q /\ th'[u].chunk = j /\ th'[u].pc \in FetchPcs
      <3>1. ~(q = p /\ j = k) /\ inflight[q][j].state # "none"
            BY <2>1, <1>3, <1>4
      <3>2. PICK u \in Threads : ProcessOf[u] = q /\ th[u].chunk = j /\ th[u].pc \in FetchPcs
            BY <1>0, <3>1 DEF EntryHasFetcher, EntryIsServed
      <3>3. u # t
            BY <3>1, <3>2, <1>1
      <3> QED BY <1>5, <3>2, <3>3
   <2> QED BY <2>1 DEF EntryIsServed
<1> QED BY <1>4, <1>9, <1>10, <1>11 DEF EntryHasFetcher

\* A crash clears the process's map together with its fetchers.
LEMMA CrashStep ==
    ASSUME MirrorInv, NEW p \in Processes, Crash(p)
    PROVE  inflight' \in [Processes -> [Chunks -> Fetches]] /\ EntryHasFetcher'
<1>0. /\ inflight \in [Processes -> [Chunks -> Fetches]]
      /\ EntryHasFetcher
      BY DEF MirrorInv, TypeOK
<1>1. \A u \in Threads : IF ProcessOf[u] = p THEN th'[u].pc = "idle" ELSE th'[u] = th[u]
      BY CrashEffect DEF IdleThread
<1>2. NoFetch \in Fetches /\ NoFetch.state = "none"
      BY DEF NoFetch, Fetches, Statuses
<1>3. /\ inflight' \in [Processes -> [Chunks -> Fetches]]
      /\ \A q \in Processes, j \in Chunks : inflight'[q][j] = IF q = p THEN NoFetch ELSE inflight[q][j]
      BY <1>0, <1>2 DEF Crash
<1>4. \A u \in Threads : /\ ProcessOf[u] \in Processes
                         /\ th[u].pc \in FetchPcs \cup {"joined"} => th[u].chunk \in Chunks
      BY SizeType, GoingFacts DEF FetchPcs, Going
<1>5. \A u \in Threads : th'[u].pc \in FetchPcs \cup {"joined"} => th'[u] = th[u] /\ ProcessOf[u] # p
      BY <1>1 DEF FetchPcs
<1>6. \A u \in Threads : th'[u].pc \in FetchPcs \cup {"joined"} =>
         inflight'[ProcessOf[u]][th'[u].chunk] = inflight[ProcessOf[u]][th[u].chunk] /\ th'[u] = th[u]
      BY <1>3, <1>4, <1>5
<1>7. FetcherHasEntry' /\ JoinedWaits'
      BY <1>0, <1>6 DEF EntryHasFetcher, FetcherHasEntry, JoinedWaits
<1>8. FetchersApart'
      BY <1>0, <1>5 DEF EntryHasFetcher, FetchersApart
<1>9. EntryIsServed'
   <2>1. ASSUME NEW q \in Processes, NEW j \in Chunks, inflight'[q][j].state # "none"
         PROVE  \E u \in Threads : ProcessOf[u] = q /\ th'[u].chunk = j /\ th'[u].pc \in FetchPcs
      <3>1. q # p /\ inflight[q][j].state # "none"
            BY <2>1, <1>2, <1>3
      <3>2. PICK u \in Threads : ProcessOf[u] = q /\ th[u].chunk = j /\ th[u].pc \in FetchPcs
            BY <1>0, <3>1 DEF EntryHasFetcher, EntryIsServed
      <3> QED BY <1>1, <3>1, <3>2
   <2> QED BY <2>1 DEF EntryIsServed
<1> QED BY <1>3, <1>7, <1>8, <1>9 DEF EntryHasFetcher

\* Every step keeps one fetcher per map entry.
LEMMA FetcherStep ==
    ASSUME MirrorInv, [Next]_vars
    PROVE  inflight' \in [Processes -> [Chunks -> Fetches]] /\ EntryHasFetcher'
<1>0. /\ inflight \in [Processes -> [Chunks -> Fetches]]
      /\ EntryHasFetcher
      BY DEF MirrorInv, TypeOK
<1> DEFINE Goal == inflight' \in [Processes -> [Chunks -> Fetches]] /\ EntryHasFetcher'
<1>1. ASSUME NEW t \in Threads, Passes(t) PROVE Goal
   <2>1. SameFetchers
         BY <1>1 DEF SameFetchers, Passes
   <2>2. \A u \in Threads : th'[u].pc \in FetchPcs \cup {"joined"} => th'[u] = th[u]
         BY <1>1 DEF Passes
   <2> QED BY <1>0, <1>1, <2>1, <2>2, FetchesStay DEF Passes
<1>2. ASSUME NEW t \in Threads, Fetching(t) PROVE Goal
   <2>1. SameFetchers
         BY <1>2 DEF SameFetchers, Fetching, Moves, Stays
   <2>2. \A u \in Threads : \/ th'[u] = th[u]
                            \/ /\ th'[u].pc \in FetchPcs \ {"erase"} /\ th[u].pc \in FetchPcs \ {"erase"}
                               /\ th'[u].pc # "joined"
         BY <1>2 DEF Fetching, Moves, FetchPcs
   <2> QED BY <1>0, <1>2, <2>1, <2>2, FetchesStay DEF Fetching
<1>3. CASE UNCHANGED <<th, inflight>>
   <2>1. SameFetchers
         BY <1>3 DEF SameFetchers
   <2> QED BY <1>0, <1>3, <2>1, FetchesStay
<1> QED BY <1>1, <1>2, <1>3, ReadKinds, JoinStep, SettleStep, EraseStep, CrashStep DEF Next, Open, Damage, vars

-----------------------------------------------------------------------------
(* The invariant *)

\* The first state satisfies the invariant.
LEMMA MirrorStarts == Init => MirrorInv
<1> SUFFICES ASSUME Init PROVE MirrorInv
    OBVIOUS
<1>1. Absent \in FileRecords /\ Absent.state = "absent"
   <2>1. <<>> \in Seq(Bytes)
         OBVIOUS
   <2> QED BY <2>1 DEF Absent, FileRecords
<1>2. NoFetch \in Fetches /\ NoFetch.state = "none"
      BY DEF NoFetch, Fetches, Statuses
<1>3. IdleThread \in ReadRecords /\ IdleThread.pc = "idle"
      BY IdleType DEF IdleThread
<1>4. TypeOK
      BY <1>1, <1>2, <1>3 DEF Init, TypeOK
<1>5. \A t \in Threads : th[t].pc = "idle"
      BY <1>3 DEF Init
<1>6. \A n \in Names, k \in Chunks : files[n][k].state = "absent"
      BY <1>1 DEF Init
<1>7. \A p \in Processes, k \in Chunks : inflight[p][k].state = "none"
      BY <1>2 DEF Init
<1>8. ReadsInRange /\ FilesArePayloads /\ PublishHoldsMutex
      BY <1>5, <1>6 DEF ReadsInRange, Going, FilesArePayloads, PublishHoldsMutex
<1>9. EntryHasFetcher
      BY <1>5, <1>7 DEF EntryHasFetcher, FetcherHasEntry, FetchersApart, EntryIsServed, JoinedWaits, FetchPcs
<1> QED BY <1>4, <1>8, <1>9 DEF MirrorInv

\* Every step keeps the invariant.
LEMMA MirrorInductive == MirrorInv /\ [Next]_vars => MirrorInv'
BY ReadTypes, FileTypes, MutexStep, FetcherStep DEF MirrorInv, TypeOK

\* Files are the chunks of their publishers, a publish holds mutex_, and an entry of inflight_ has one
\* fetcher, in every state.
THEOREM MirrorAlways == Spec => []MirrorInv
BY MirrorStarts, MirrorInductive, PTL DEF Spec

\* Same-chunk reads coalesce: a chunk of a process has one fetcher while inflight_ holds it and none
\* otherwise, and who has joined waits for a fetch that runs.
THEOREM ReadsCoalesce == Spec => []OneFetcher
<1>1. MirrorInv => OneFetcher
   <2> SUFFICES ASSUME MirrorInv, NEW p \in Processes, NEW k \in Chunks
                PROVE  LET fetchers == {t \in Threads : /\ ProcessOf[t] = p
                                                        /\ th[t].chunk = k
                                                        /\ th[t].pc \in FetchPcs}
                       IN  /\ Cardinality(fetchers) = IF inflight[p][k].state = "none" THEN 0 ELSE 1
                           /\ (\E t \in Threads : ProcessOf[t] = p /\ th[t].chunk = k /\ th[t].pc = "joined")
                                => inflight[p][k].state = "running"
       BY DEF OneFetcher, FetchPcs
   <2> DEFINE fetchers == {t \in Threads : ProcessOf[t] = p /\ th[t].chunk = k /\ th[t].pc \in FetchPcs}
   <2>0. EntryHasFetcher
         BY DEF MirrorInv
   <2>1. CASE inflight[p][k].state = "none"
      <3>1. fetchers = {}
            BY <2>0, <2>1 DEF EntryHasFetcher, FetcherHasEntry
      <3> QED BY <2>0, <2>1, <3>1, FS_EmptySet DEF EntryHasFetcher, JoinedWaits
   <2>2. CASE inflight[p][k].state # "none"
      <3>1. PICK t \in Threads : ProcessOf[t] = p /\ th[t].chunk = k /\ th[t].pc \in FetchPcs
            BY <2>0, <2>2 DEF EntryHasFetcher, EntryIsServed
      <3>2. fetchers = {t}
            BY <2>0, <3>1 DEF EntryHasFetcher, FetchersApart
      <3>3. Cardinality(fetchers) = 1
            BY <3>2, FS_Singleton
      <3> QED BY <2>0, <2>2, <3>3 DEF EntryHasFetcher, JoinedWaits
   <2> QED BY <2>1, <2>2
<1> QED BY <1>1, MirrorAlways, PTL

-----------------------------------------------------------------------------
(* Publishing is atomic *)

\* Every step keeps damaged files within the counted damages.
LEMMA BadFilesStep == MirrorInv /\ BadFilesCounted /\ [Next]_vars => BadFilesCounted'
<1> SUFFICES ASSUME MirrorInv, BadFilesCounted, [Next]_vars PROVE BadFilesCounted'
    OBVIOUS
<1>0. files \in [Names -> [Chunks -> FileRecords]] /\ damages \in Nat
      BY DEF MirrorInv, TypeOK
<1>1. IsFiniteSet(BadFiles) /\ Cardinality(BadFiles) <= damages /\ Cardinality(BadFiles) \in Nat
      BY FS_CardinalityType DEF BadFilesCounted
<1>2. ASSUME BadFiles' \subseteq BadFiles, UNCHANGED damages PROVE BadFilesCounted'
   <2>1. IsFiniteSet(BadFiles') /\ Cardinality(BadFiles') <= Cardinality(BadFiles) /\ Cardinality(BadFiles') \in Nat
         BY <1>1, <1>2, FS_Subset, FS_CardinalityType
   <2> QED BY <2>1, <1>0, <1>1, <1>2 DEF BadFilesCounted
<1>3. CASE UNCHANGED <<files, damages>>
      BY <1>2, <1>3 DEF BadFiles
<1>4. ASSUME NEW t \in Threads, Published(t), UNCHANGED damages PROVE BadFilesCounted'
   <2>1. PICK p \in Processes, k \in Chunks :
             /\ NameOf[VersionOf[p]] \in Names
             /\ files' = [files EXCEPT ![NameOf[VersionOf[p]]][k] =
                            [state |-> "good", version |-> VersionOf[p], payload |-> Payload(p, k)]]
         BY <1>4, PublishedFile
   <2>2. \A n \in Names, j \in Chunks : files'[n][j].state = "bad" => files[n][j].state = "bad"
      <3>1. PICK m \in Names : m = NameOf[VersionOf[p]]
            BY <2>1
      <3>2. PICK f : f = [state |-> "good", version |-> VersionOf[p], payload |-> Payload(p, k)]
            OBVIOUS
      <3>g. f.state = "good"
            BY <3>2
      <3>3. files' = [files EXCEPT ![m][k] = f]
            BY <2>1, <3>1, <3>2
      <3>4. \A n \in Names, j \in Chunks : files'[n][j] = IF n = m /\ j = k THEN f ELSE files[n][j]
            BY <3>3, <1>0
      <3> QED BY <3>g, <3>4
   <2>3. BadFiles' \subseteq BadFiles
         BY <2>2 DEF BadFiles
   <2> QED BY <1>2, <1>4, <2>3
<1>5. ASSUME NEW m \in Names, NEW k \in Chunks, damages' = damages + 1,
             files' = [files EXCEPT ![m][k].state = "bad"]
      PROVE  BadFilesCounted'
   <2>1. \A n \in Names, j \in Chunks : (n = m /\ j = k) \/ files'[n][j] = files[n][j]
         BY <1>0, <1>5
   <2>2. BadFiles' \subseteq BadFiles \cup {<<m, k>>}
         BY <2>1 DEF BadFiles
   <2>3. /\ IsFiniteSet(BadFiles \cup {<<m, k>>})
         /\ Cardinality(BadFiles \cup {<<m, k>>}) \in Nat
         /\ Cardinality(BadFiles \cup {<<m, k>>}) <= Cardinality(BadFiles) + 1
      <3>1. PICK B : B = BadFiles
            OBVIOUS
      <3>2. IsFiniteSet(B \cup {<<m, k>>})
            /\ (Cardinality(B \cup {<<m, k>>}) = Cardinality(B) \/ Cardinality(B \cup {<<m, k>>}) = Cardinality(B) + 1)
            BY <1>1, <3>1, FS_AddElement, Zenon
      <3> QED BY <1>1, <3>1, <3>2
   <2>4. IsFiniteSet(BadFiles') /\ Cardinality(BadFiles') \in Nat
         /\ Cardinality(BadFiles') <= Cardinality(BadFiles \cup {<<m, k>>})
         BY <2>2, <2>3, FS_Subset, FS_CardinalityType
   <2> QED BY <1>0, <1>1, <1>5, <2>3, <2>4 DEF BadFilesCounted
<1> QED BY <1>3, <1>4, <1>5, FileSteps

\* Publishing is atomic: no write that failed and no crash inside publish_chunk leaves a bad file under a
\* final name; there are at most as many as the disk has damaged.
THEOREM PublishIsAtomic == Spec => []WholeOrAbsent
<1>1. Init => BadFilesCounted
   <2> SUFFICES ASSUME Init PROVE BadFilesCounted
       OBVIOUS
   <2>1. BadFiles = {} /\ damages = 0
         BY DEF Init, BadFiles, Absent
   <2> QED BY <2>1, FS_EmptySet DEF BadFilesCounted
<1>2. BadFilesCounted => WholeOrAbsent
      BY DEF BadFilesCounted, BadFiles, WholeOrAbsent
<1> QED BY <1>1, <1>2, BadFilesStep, MirrorAlways, PTL DEF Spec

-----------------------------------------------------------------------------
(* Reads are byte-exact *)

\* What read_chunk accepts is the chunk, where the processes of a version agree on the chunk size.
LEMMA LoadedIsChunk ==
    ASSUME SizesAgree, VersionsTold, MirrorInv, NEW u \in Threads, Going(th[u]),
           ReadStatus(ProcessOf[u], th[u].chunk) = "ok"
    PROVE  LET p == ProcessOf[u]
               c == th[u].chunk * Size(u)
           IN  \A i \in 1 .. ChunkEnd(p, th[u].chunk) - c : Loaded(u, th[u].chunk)[i] = <<VersionOf[p], c + i - 1>>
<1>1. PICK p \in Processes, k \in Chunks : p = ProcessOf[u] /\ k = th[u].chunk
      BY GoingFacts, SizeType
<1>2. PICK f \in FileRecords : f = File(p, k)
      BY FileType DEF MirrorInv
<1>3. /\ f.state = "good" /\ ~(Len(f.payload) > SizeOf[p])
      /\ ~OtherSource(p, f) /\ ~OtherValidator(p, f)
      BY <1>1, <1>2 DEF ReadStatus, FileRecords
<1>4. PICK s \in Nat : s = Size(u) /\ s = SizeOf[p]
      BY <1>1, SizeType
<1>5. PICK o, n \in Nat : o = th[u].off /\ n = th[u].len /\ o + n <= End(u) /\ k * s < o + n /\ End(u) \in Nat /\ k \in Nat
      BY <1>1, <1>4, GoingFacts, SizeType DEF InRange, ReadRecords, Chunks
<1>6. PICK q \in Processes : VersionOf[q] = VersionOf[p] /\ f.payload = Payload(q, k)
   <2>1. NameOf[VersionOf[p]] \in Names /\ f = files[NameOf[VersionOf[p]]][k]
         BY <1>2, FileType DEF File, MirrorInv
   <2>2. PICK q \in Processes : f.version = VersionOf[q] /\ f.payload = Payload(q, k)
         BY <1>3, <2>1 DEF MirrorInv, FilesArePayloads
   <2>3. UrlHashOf[f.version] = UrlHashOf[VersionOf[p]] /\ TotalOf[f.version] = Total(p)
         /\ ValidatorOf[f.version] = ValidatorOf[VersionOf[p]]
         BY <1>3 DEF OtherSource, OtherValidator
   <2>4. VersionOf[p] = VersionOf[q]
         BY <2>2, <2>3 DEF VersionsTold, Total
   <2> QED BY <2>2, <2>4
<1>7. SizeOf[q] = s
      BY <1>4, <1>6 DEF SizesAgree
<1>8. PICK c, e \in Nat : c = k * s /\ e = ChunkEnd(p, k) /\ e = ChunkEnd(q, k) /\ e <= c + s
   <2>1. /\ ChunkEnd(p, k) = IF k * s + s <= End(u) THEN k * s + s ELSE End(u)
         /\ ChunkEnd(q, k) = IF k * s + s <= End(u) THEN k * s + s ELSE End(u)
         /\ k * s \in Nat /\ ChunkEnd(p, k) \in Nat
      <3>1. PICK z \in Nat : z = End(u) /\ z = Total(p) /\ z = Total(q)
            BY <1>1, <1>6, SizeType DEF Total
      <3>2. /\ ChunkEnd(p, k) \in Nat
            /\ ChunkEnd(p, k) = IF k * s + s <= z THEN k * s + s ELSE z
            /\ ChunkEnd(q, k) = IF k * s + s <= z THEN k * s + s ELSE z
            /\ k * s \in Nat
            BY <1>4, <1>5, <1>7, <3>1, ChunkEndIs
      <3> QED BY <3>1, <3>2
   <2>2. PICK c \in Nat : c = k * s
         BY <2>1
   <2> QED BY <1>5, <2>1, <2>2
<1>9. c < End(u)
      BY <1>5, <1>8
<1>10. /\ Len(f.payload) = e - c
       /\ \A i \in 1 .. e - c : f.payload[i] = <<VersionOf[p], c + i - 1>>
   <2>1. k * SizeOf[q] = c /\ c < Total(q)
      <3>1. Total(q) = End(u)
            BY <1>1, <1>6, SizeType DEF Total
      <3> QED BY <3>1, <1>7, <1>8, <1>9
   <2> QED BY <2>1, <1>6, <1>8, PayloadFacts
<1>12. Loaded(u, k) = [i \in 1 .. s |-> IF i > Len(f.payload) THEN th[u].buffer[i]
                                        ELSE IF f.state = "bad" THEN Junk ELSE f.payload[i]]
      BY <1>1, <1>2, <1>3, <1>4 DEF Loaded
<1>13. ASSUME NEW i \in 1 .. e - c PROVE Loaded(u, k)[i] = <<VersionOf[p], c + i - 1>>
   <2>1. i \in 1 .. s /\ ~(i > Len(f.payload))
         BY <1>8, <1>10
   <2>2. Loaded(u, k)[i] = f.payload[i]
         BY <1>3, <1>12, <2>1
   <2> QED BY <1>10, <2>2
<1> QED BY <1>1, <1>4, <1>8, <1>13

\* Copying a chunk completes what lies before the next one, or the whole range.
LEMMA CopyingExact ==
    ASSUME SizesAgree, VersionsTold, MirrorInv, NEW u \in Threads, Copying(u),
           Copies(th[u], Size(u), VersionOf[ProcessOf[u]])
    PROVE  /\ Going(th'[u]) => Copies(th'[u], Size(u), VersionOf[ProcessOf[u]])
           /\ th'[u].pc = "returned" => Outcome(th'[u], VersionOf[ProcessOf[u]])
<1>0. Going(th[u]) /\ th[u] \in ReadRecords /\ InRange(th[u], Size(u), End(u))
      BY GoingFacts DEF Copying, Going
<1>1. PICK b \in [1 .. Size(u) -> Bytes] : b = Loaded(u, th[u].chunk)
      BY <1>0, LoadedType
<1>2. PICK h \in ReadRecords : h = th[u]
      BY <1>0
<1>3. PICK g \in ReadRecords : g = Copied(u, b) /\ g = th'[u]
      BY <1>0, <1>1, CopiedFields DEF Copying
<1>v. PICK v : v = VersionOf[ProcessOf[u]]
      OBVIOUS
<1>4. PICK s \in Nat : s = Size(u) /\ s # 0 /\ v = VersionOf[ProcessOf[u]]
      BY <1>v, SizeType
<1>5. PICK o, n, k \in Nat : o = h.off /\ n = h.len /\ k = h.chunk
      BY DEF ReadRecords
<1>6. PICK c \in Nat : c = k * s
      BY <1>4, NextChunk
<1>7. n > 0 /\ o + n <= End(u) /\ c < o + n /\ o < c + s /\ End(u) \in Nat
      BY <1>0, <1>2, <1>4, <1>5, <1>6, SizeType DEF InRange
<1>8. PICK from, to \in Nat : /\ from = CopyStart(u) /\ to = CopyEnd(u)
                              /\ from = (IF o <= c THEN c ELSE o)
                              /\ to = (IF o + n <= c + s THEN o + n ELSE c + s)
   <2>1. /\ CopyStart(u) = IF o <= c THEN c ELSE o
         /\ CopyEnd(u) = IF o + n <= c + s THEN o + n ELSE c + s
         BY <1>0, <1>2, <1>4, <1>5, <1>6, CopyBounds
   <2> QED BY <2>1
<1>9. /\ g.off = o /\ g.len = n /\ g.status = "ok"
      /\ g.pc = (IF o + n <= c + s THEN "returned" ELSE "lookup")
      /\ g.chunk = (IF o + n <= c + s THEN k ELSE k + 1)
      /\ g.written = h.written + (to - from)
      /\ g.dest \in [1 .. n -> Bytes]
      /\ \A i \in 1 .. n : g.dest[i] = IF from <= o + i - 1 /\ o + i - 1 < to
                                       THEN b[o + i - 1 - c + 1] ELSE h.dest[i]
   <2>1. /\ g.off = h.off /\ g.len = h.len /\ g.status = "ok"
         /\ g.pc = (IF h.off + h.len <= h.chunk * Size(u) + Size(u) THEN "returned" ELSE "lookup")
         /\ g.chunk = (IF h.off + h.len <= h.chunk * Size(u) + Size(u) THEN h.chunk ELSE h.chunk + 1)
         /\ g.written = h.written + (CopyEnd(u) - CopyStart(u))
         /\ g.dest \in [1 .. h.len -> Bytes]
         /\ \A i \in 1 .. h.len : g.dest[i] =
              IF CopyStart(u) <= h.off + i - 1 /\ h.off + i - 1 < CopyEnd(u)
              THEN b[h.off + i - 1 - h.chunk * Size(u) + 1] ELSE h.dest[i]
      <3>1. th[u] = h /\ Copied(u, b) = g
            BY <1>2, <1>3
      <3>2. InRange(th[u], Size(u), End(u)) /\ th[u] \in ReadRecords /\ b \in [1 .. Size(u) -> Bytes]
            BY <1>0
      <3>3. LET c1 == th[u].chunk * Size(u)
                last == th[u].off + th[u].len <= c1 + Size(u)
                r == Copied(u, b)
            IN  /\ r \in ReadRecords /\ r.off = th[u].off /\ r.len = th[u].len /\ r.status = "ok"
                /\ r.pc = (IF last THEN "returned" ELSE "lookup")
                /\ r.chunk = (IF last THEN th[u].chunk ELSE th[u].chunk + 1)
                /\ r.buffer = b
                /\ r.written = th[u].written + (CopyEnd(u) - CopyStart(u))
                /\ r.dest \in [1 .. th[u].len -> Bytes]
                /\ \A i \in 1 .. th[u].len : r.dest[i] =
                     IF CopyStart(u) <= th[u].off + i - 1 /\ th[u].off + i - 1 < CopyEnd(u)
                     THEN b[th[u].off + i - 1 - c1 + 1] ELSE th[u].dest[i]
            BY <3>2, CopiedFields
      <3> QED BY <3>1, <3>3, Zenon
   <2>2. c = h.chunk * Size(u)
         BY <1>4, <1>5, <1>6
   <2> QED BY <2>1, <2>2, <1>4, <1>5, <1>8, Zenon
<1>10. /\ h.written = IF o < c THEN c - o ELSE 0
       /\ \A i \in 1 .. n : o + i - 1 < c => h.dest[i] = <<v, o + i - 1>>
      BY <1>2, <1>4, <1>5, <1>6 DEF Copies
<1>11. PICK e \in Nat : e = ChunkEnd(ProcessOf[u], k) /\ e = IF c + s <= End(u) THEN c + s ELSE End(u)
   <2>1. PICK p \in Processes : p = ProcessOf[u] /\ s = SizeOf[p]
         BY <1>4, <1>6, SizeType
   <2>2. PICK z \in Nat : z = End(u) /\ z = Total(p)
         BY <2>1, SizeType
   <2>3. ChunkEnd(p, k) \in Nat /\ ChunkEnd(p, k) = IF c + s <= z THEN c + s ELSE z
         BY <1>4, <1>6, <2>1, <2>2, ChunkEndIs
   <2> QED BY <2>1, <2>2, <2>3
<1>12. \A j \in 1 .. e - c : b[j] = <<v, c + j - 1>>
   <2>1. ReadStatus(ProcessOf[u], th[u].chunk) = "ok"
         BY DEF Copying
   <2> QED BY <2>1, <1>0, <1>1, <1>2, <1>4, <1>5, <1>6, <1>11, LoadedIsChunk
<1>13. g.written = to - o
      BY <1>8, <1>9, <1>10
<1>14. ASSUME NEW i \in 1 .. n, o + i - 1 < to PROVE g.dest[i] = <<v, o + i - 1>>
   <2>1. CASE from <= o + i - 1
      <3>1. PICK j \in 1 .. e - c : j = o + i - 1 - c + 1
         <4>1. PICK z \in Nat : z = End(u)
               BY SizeType
         <4>2. e = (IF c + s <= z THEN c + s ELSE z) /\ o + n <= z
               BY <4>1, <1>7, <1>11
         <4>3. PICK x \in Nat : x = o + i - 1
               OBVIOUS
         <4>4. x < c + s /\ x < o + n /\ c <= x
               BY <4>3, <2>1, <1>14, <1>8
         <4>5. x - c + 1 \in 1 .. e - c
               BY <4>2, <4>4
         <4> QED BY <4>3, <4>5
      <3>r. g.dest[i] = b[o + i - 1 - c + 1]
            BY <2>1, <1>14, <1>9, Zenon
      <3>2. g.dest[i] = b[j] /\ c + j - 1 = o + i - 1
            BY <3>r, <3>1
      <3> QED BY <3>1, <3>2, <1>12
   <2>2. CASE ~(from <= o + i - 1)
      <3>1. o + i - 1 < c
            BY <2>2, <1>8
      <3>2. g.dest[i] = h.dest[i]
            BY <2>2, <1>9, Zenon
      <3> QED BY <3>1, <3>2, <1>10
   <2> QED BY <2>1, <2>2
<1>15. CASE o + n <= c + s
   <2>1. to = o + n /\ g.pc = "returned" /\ g.written = n
         BY <1>15, <1>8, <1>9, <1>13
   <2>2. \A i \in 1 .. n : g.dest[i] = <<v, o + i - 1>>
         BY <2>1, <1>14
   <2>3. g.dest = [i \in 1 .. n |-> <<v, o + i - 1>>]
         BY <2>2, <1>9
   <2>4. Outcome(g, v)
         BY <2>1, <2>3, <1>9 DEF Outcome
   <2> QED BY <2>1, <2>4, <1>3, <1>4 DEF Going
<1>16. CASE ~(o + n <= c + s)
   <2>1. to = c + s /\ g.pc = "lookup" /\ g.chunk = k + 1 /\ g.chunk * s = c + s
         BY <1>16, <1>4, <1>6, <1>8, <1>9, NextChunk
   <2>2. g.written = IF g.off < g.chunk * s THEN g.chunk * s - g.off ELSE 0
         BY <2>1, <1>7, <1>9, <1>13
   <2>3. \A i \in 1 .. g.len : g.off + i - 1 < g.chunk * s => g.dest[i] = <<v, g.off + i - 1>>
         BY <2>1, <1>9, <1>14
   <2>4. Copies(g, s, v)
         BY <2>2, <2>3 DEF Copies
   <2> QED BY <2>1, <2>4, <1>3, <1>4
<1> QED BY <1>15, <1>16

\* Every step keeps the copied bytes exact, when the processes of one version use one chunk size.
LEMMA CopiesStep == SizesAgree /\ VersionsTold /\ MirrorInv /\ CopiesExact /\ [Next]_vars => CopiesExact'
<1> SUFFICES ASSUME SizesAgree, VersionsTold, MirrorInv, CopiesExact, [Next]_vars, NEW u \in Threads
             PROVE  /\ Going(th'[u]) => Copies(th'[u], Size(u), VersionOf[ProcessOf[u]])
                    /\ th'[u].pc = "returned" => Outcome(th'[u], VersionOf[ProcessOf[u]])
   <2>1. \A t \in Threads : Size(t)' = Size(t)
         BY DEF Size
   <2> QED BY <2>1 DEF CopiesExact
<1>1. ThreadKind(u)
      BY ThreadKinds
<1>2. CASE th'[u] = th[u]
      BY <1>2 DEF CopiesExact
<1>3. CASE Stays(u)
   <2>1. Copies(th[u], Size(u), VersionOf[ProcessOf[u]])
         BY <1>3 DEF CopiesExact, Stays
   <2>2. Copies(th'[u], Size(u), VersionOf[ProcessOf[u]])
         BY <1>3, <2>1 DEF Stays, Copies
   <2>3. th'[u].written < th'[u].len
      <3>1. th[u] \in ReadRecords /\ InRange(th[u], Size(u), End(u)) /\ Size(u) \in Nat \ {0}
            BY <1>3, GoingFacts, SizeType DEF Stays
      <3>2. PICK o, n, k, s \in Nat : o = th[u].off /\ n = th[u].len /\ k = th[u].chunk /\ s = Size(u)
            BY <3>1 DEF ReadRecords
      <3>3. PICK c \in Nat : c = k * s /\ c < o + n /\ n > 0
            BY <3>1, <3>2, NextChunk DEF InRange
      <3>4. th[u].written = IF o < c THEN c - o ELSE 0
            BY <2>1, <3>2, <3>3 DEF Copies
      <3>5. th[u].written < n
            BY <3>3, <3>4
      <3> QED BY <1>3, <3>2, <3>5 DEF Stays
   <2> QED BY <1>3, <2>2, <2>3 DEF Stays, Outcome
<1>4. CASE Copying(u)
   <2>1. Copies(th[u], Size(u), VersionOf[ProcessOf[u]])
         BY <1>4 DEF CopiesExact, Copying, Going
   <2> QED BY <1>4, <2>1, CopyingExact
<1>5. CASE Fresh(u)
   <2>1. CASE th'[u] = IdleThread
         BY <2>1 DEF IdleThread, Going
   <2>2. CASE Refused(th'[u])
      <3>1. th'[u].written = 0 /\ th'[u].status # "ok" /\ th'[u].pc = "returned"
            BY <2>2 DEF Refused
      <3> QED BY <3>1 DEF Outcome, Going
   <2>3. CASE Begun(th'[u], Size(u), End(u))
      <3>1. PICK h \in ReadRecords : h = th'[u]
            BY <1>5 DEF Fresh
      <3>2. PICK s \in Nat : s = Size(u) /\ s # 0
            BY SizeType
      <3>3. h.pc = "lookup" /\ h.written = 0 /\ h.chunk * s <= h.off /\ h.off \in Nat /\ h.chunk \in Nat
            BY <2>3, <3>1, <3>2 DEF Begun, ReadRecords
      <3>4. PICK c \in Nat : c = h.chunk * s
            BY <3>2, <3>3, NextChunk
      <3>5. Copies(h, s, VersionOf[ProcessOf[u]])
            BY <3>3, <3>4 DEF Copies
      <3> QED BY <3>1, <3>2, <3>3, <3>5
   <2> QED BY <1>5, <2>1, <2>2, <2>3 DEF Fresh
<1> QED BY <1>1, <1>2, <1>3, <1>4, <1>5 DEF ThreadKind

\* A read that returns ok has delivered exactly the bytes it was asked for, and one that fails reports fewer,
\* provided the processes that mirror one version use one chunk size, and a chunk file tells different versions apart.
THEOREM ReadsAreByteExact == SizesAgree /\ VersionsTold => (Spec => []ByteExact)
<1>1. Init => CopiesExact
      BY DEF Init, CopiesExact, Going, IdleThread
<1>2. CopiesExact => ByteExact
      BY DEF CopiesExact, ByteExact, Outcome
<1>3. ASSUME SizesAgree, VersionsTold PROVE CopiesExact /\ MirrorInv /\ [Next]_vars => CopiesExact'
      BY <1>3, CopiesStep
<1> SUFFICES ASSUME SizesAgree, VersionsTold PROVE Spec => []ByteExact
    OBVIOUS
<1>4. CopiesExact /\ MirrorInv /\ [Next]_vars => CopiesExact'
      BY <1>3
<1> QED BY <1>1, <1>2, <1>4, MirrorAlways, PTL DEF Spec

-----------------------------------------------------------------------------
(* No second fetch *)

LatePcs == {"fetch", "publish", "write", "rename"}

\* A read comes to fetch a chunk only from the second look.
LEMMA LateKinds ==
    ASSUME MirrorInv, [Next]_vars, NEW u \in Threads, th'[u].pc \in LatePcs
    PROVE  (th[u].pc \in LatePcs /\ th'[u].chunk = th[u].chunk) \/ Recheck(u)
<1>1. CASE th'[u] = th[u]
      BY <1>1
<1>2. ASSUME NEW t \in Threads, CallRead(t) \/ ReadStep(t), th'[u] # th[u]
      PROVE  (th[u].pc \in LatePcs /\ th'[u].chunk = th[u].chunk) \/ Recheck(u)
   <2>1. CASE CallRead(t) \/ Return(t)
         BY <1>2, <2>1, CallReadEffect, ReturnEffect DEF LatePcs
   <2>2. CASE Lookup(t) \/ ReadBack(t)
      <3>1. u = t /\ (Copying(t) \/ th'[t].pc \in {"join", "returned"})
            BY <1>2, <2>2, LookupEffect, ReadBackEffect
      <3> QED BY <3>1, CopyingEnds DEF LatePcs
   <2>3. CASE Join(t) \/ Erase(t)
         BY <1>2, <2>3, JoinEffect, EraseEffect DEF Moves, LatePcs
   <2>4. CASE Recheck(t)
         BY <1>2, <2>4, RecheckEffect DEF Moves
   <2>5. CASE FetchEnds(t) \/ PublishOpens(t) \/ PublishWrites(t) \/ PublishRenames(t)
         BY <1>2, <2>5, FetchEndsEffect, OpensEffect, WritesEffect, RenamesEffect DEF Moves, Stays, LatePcs
   <2>6. CASE Settle(t)
         BY <1>2, <2>6, SettleEffect DEF Wakes, LatePcs
   <2> QED BY <1>2, <2>1, <2>2, <2>3, <2>4, <2>5, <2>6 DEF ReadStep
<1>3. ASSUME NEW p \in Processes, Crash(p), th'[u] # th[u] PROVE FALSE
      BY <1>3, CrashEffect DEF IdleThread, LatePcs
<1> QED BY <1>1, <1>2, <1>3 DEF Next, Open, Damage, vars

\* Every step keeps readable chunks from being fetched, when no two processes use the same file names.
LEMMA NoSecondFetchStep == NamesApart /\ MirrorInv /\ NoSecondFetch /\ [Next]_vars => NoSecondFetch'
<1> SUFFICES ASSUME NamesApart, MirrorInv, NoSecondFetch, [Next]_vars, NEW u \in Threads, th'[u].pc \in LatePcs,
                    NEW p, NEW k, p = ProcessOf[u], k = th'[u].chunk
             PROVE  ReadStatus(p, k)' # "ok"
    BY DEF NoSecondFetch, LatePcs
<1>0. files \in [Names -> [Chunks -> FileRecords]] /\ p \in Processes
      BY SizeType DEF MirrorInv, TypeOK
<1>1. CASE Recheck(u)
   <2>1. /\ UNCHANGED files /\ th'[u].chunk = th[u].chunk
         /\ th'[u].pc = "fetch" => ReadStatus(ProcessOf[u], th[u].chunk) # "ok"
         /\ th'[u].pc \in {"settle", "fetch"}
         BY <1>1, RecheckEffect DEF Moves, Stays
   <2>2. ReadStatus(p, k) # "ok"
         BY <2>1 DEF LatePcs
   <2> QED BY <2>1, <2>2 DEF ReadStatus, File, OtherSource, OtherValidator, Total
<1>2. CASE th[u].pc \in LatePcs /\ th'[u].chunk = th[u].chunk
   <2>1. ReadStatus(p, k) # "ok" /\ k \in Chunks
         BY <1>2, GoingFacts DEF NoSecondFetch, LatePcs, Going
   <2>2. PICK m \in Names : m = NameOf[VersionOf[p]]
         BY <1>0, MirrorAssumption
   <2>3. ASSUME files'[m][k] = files[m][k] PROVE ReadStatus(p, k)' # "ok"
         BY <2>1, <2>2, <2>3 DEF ReadStatus, File, OtherSource, OtherValidator, Total
   <2>4. ASSUME NEW t \in Threads, Published(t) PROVE ReadStatus(p, k)' # "ok"
      <3>1. PICK q \in Processes, j \in Chunks :
             /\ q = ProcessOf[t] /\ j = th[t].chunk
             /\ NameOf[VersionOf[q]] \in Names /\ VersionOf[q] \in Versions
             /\ Payload(q, j) \in Seq(Bytes)
             /\ files' = [files EXCEPT ![NameOf[VersionOf[q]]][j] =
                            [state |-> "good", version |-> VersionOf[q], payload |-> Payload(q, j)]]
            BY <2>4, PublishedFile
      <3>2. t # u /\ th[t].pc \in FetchPcs /\ th[u].pc \in FetchPcs
            BY <2>4, <1>2 DEF Published, LatePcs, FetchPcs
      <3>3. ~(q = p /\ j = k)
            BY <1>2, <3>1, <3>2 DEF MirrorInv, EntryHasFetcher, FetchersApart
      <3>4. ~(m = NameOf[VersionOf[q]] /\ j = k)
            BY <2>2, <3>3, <1>0 DEF NamesApart
      <3>5. files'[m][k] = files[m][k]
         <4>1. PICK n, f : /\ n \in Names /\ n = NameOf[VersionOf[q]]
                         /\ f = [state |-> "good", version |-> VersionOf[q], payload |-> Payload(q, j)]
               BY <3>1
         <4>2. files' = [files EXCEPT ![n][j] = f]
               BY <3>1, <4>1
         <4> QED BY <1>0, <2>1, <3>4, <4>1, <4>2
      <3> QED BY <2>3, <3>5
   <2>5. ASSUME NEW n \in Names, NEW j \in Chunks, files' = [files EXCEPT ![n][j].state = "bad"]
         PROVE  ReadStatus(p, k)' # "ok"
      <3>1. CASE n = m /\ j = k
         <4>1. files'[m][k].state = "bad"
               BY <1>0, <2>1, <2>5, <3>1 DEF FileRecords
         <4> QED BY <2>2, <4>1 DEF ReadStatus, File, OtherSource, OtherValidator, Total
      <3>2. CASE ~(n = m /\ j = k)
         <4>1. files'[m][k] = files[m][k]
               BY <1>0, <2>1, <2>5, <3>2
         <4> QED BY <2>3, <4>1
      <3> QED BY <3>1, <3>2
   <2> QED BY <2>3, <2>4, <2>5, FileSteps
<1> QED BY <1>1, <1>2, LateKinds

\* A chunk that is in the store is not fetched again, provided no two processes use the same file names: the
\* second look closes the window between a miss and the entry in inflight_.
THEOREM NothingIsFetchedTwice == NamesApart => (Spec => []NoSecondFetch)
<1> SUFFICES ASSUME NamesApart PROVE Spec => []NoSecondFetch
    OBVIOUS
<1>1. Init => NoSecondFetch
      BY DEF Init, NoSecondFetch, IdleThread
<1>2. MirrorInv /\ NoSecondFetch /\ [Next]_vars => NoSecondFetch'
      BY NoSecondFetchStep
<1> QED BY <1>1, <1>2, MirrorAlways, PTL DEF Spec
=============================================================================
