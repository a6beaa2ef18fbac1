-------------------------- MODULE MirrorProperties --------------------------
(***************************************************************************)
(* What Mirror and ChunkStore promise, stated over module Mirror.          *)
(***************************************************************************)
EXTENDS Mirror

\* Byte-exact: a read that returns ok has filled `dest` with exactly the requested slice of its own
\* version of the source, whatever crashed, was damaged, or was published by others under the same name;
\* and one that fails reports fewer bytes than were asked for.
ByteExact ==
    \A t \in Threads : th[t].pc = "returned" =>
        IF th[t].status = "ok"
        THEN /\ th[t].written = th[t].len
             /\ th[t].dest = [i \in 1 .. th[t].len |-> <<VersionOf[ProcessOf[t]], th[t].off + i - 1>>]
        ELSE th[t].len > 0 => th[t].written < th[t].len

\* Publishing is atomic: what the disk has not damaged is whole under its final name, although a write
\* may fail or the process die at any step of publish_chunk.
WholeOrAbsent ==
    Cardinality({x \in Names \X Chunks : files[x[1]][x[2]].state = "bad"}) <= damages

\* Same-chunk reads coalesce within a process: a chunk in flight has one fetcher, and who has joined
\* waits for a fetch that is still running.
OneFetcher ==
    \A p \in Processes, k \in Chunks :
        LET fetchers == {t \in Threads : /\ ProcessOf[t] = p
                                         /\ th[t].chunk = k
                                         /\ th[t].pc \in {"recheck", "fetch", "publish", "write", "rename",
                                                          "settle", "erase"}}
        IN  /\ Cardinality(fetchers) = IF inflight[p][k].state = "none" THEN 0 ELSE 1
            /\ (\E t \in Threads : ProcessOf[t] = p /\ th[t].chunk = k /\ th[t].pc = "joined")
                 => inflight[p][k].state = "running"

\* With one process in the directory, a chunk that is in the store is not fetched again: the window
\* between a reader's miss and its becoming the fetcher costs no second fetch.
NoSecondFetch ==
    \A t \in Threads :
        th[t].pc \in {"fetch", "publish", "write", "rename"} =>
            ReadStatus(ProcessOf[t], th[t].chunk) # "ok"

\* Every read returns, unless its process dies.
ReadsReturn == \A t \in Threads : th[t].pc # "idle" ~> th[t].pc \in {"returned", "idle"}
=============================================================================
