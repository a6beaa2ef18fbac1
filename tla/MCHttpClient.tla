---------------------------- MODULE MCHttpClient ----------------------------
(* A source with three versions: two differ in the ETag only, the third has no ETag and another size. *)
EXTENDS HttpClientProperties

CONSTANTS v1, v2, v3

MCVersions == {v1, v2, v3}
MCDescribes ==
    [v \in MCVersions |->
        IF v = v3 THEN [etag |-> 0, modified |-> 2, size |-> 6]
        ELSE [etag |-> IF v = v1 THEN 1 ELSE 2, modified |-> 1, size |-> 5]]

\* What callers register: each version as it describes itself, by modification time with and without a
\* size, by ETag without a size, by size alone, and nothing at all.
MCValidators ==
    {MCDescribes[v] : v \in MCVersions}
    \cup {[etag |-> 0, modified |-> 1, size |-> 5], [etag |-> 0, modified |-> 1, size |-> 0],
          [etag |-> 1, modified |-> 1, size |-> 0],
          [etag |-> 0, modified |-> 0, size |-> 6], NoValidator}
=============================================================================
