------------------------ MODULE HttpClientProperties ------------------------
(* What makes Http1RangeTransport correct. *)
EXTENDS HttpClient

\* fetch_range as its caller sees it.
Transport == INSTANCE RangeTransport WITH
    phase <- IF call.pc \in {"idle", "returned"} THEN call.pc ELSE "fetching",
    expected <- call.expected,
    limit <- call.limit,
    retries <- call.retries,
    dest <- dest,
    ok <- result.status = "ok",
    observed <- result.observed

\* The client implements the transport contract that Mirror relies on: whatever attempts failed before and
\* whenever the server published, no byte of a version that the registered validator rejects is ever
\* written, and ok means a whole buffer of the one version that is reported.
ImplementsTransport == Transport!Spec

\* What a result says of the attempts behind it: each but the last failed in a way that may be retried,
\* there were as many as the retry count says, the status is the last one's own unless retries were
\* spent, and a whole range is only ever counted for ok.
ReportMatchesAttempts ==
    call.pc = "returned" /\ seen # <<>> =>
        LET last == seen[Len(seen)] IN
        /\ Len(seen) = call.retries + 1
        /\ \A k \in 1 .. Len(seen) - 1 : seen[k] \in Transient
        /\ last \in Transient => call.retries = call.limit
        /\ result.status = IF last \in Transient /\ call.limit > 0 THEN "retries_exhausted" ELSE last
        /\ result.bytes = Length <=> result.status = "ok"

\* A fetch returns, however often the server stalls, closes or answers with an error.
FetchReturns == call.pc = "resolve" ~> call.pc = "returned"

=============================================================================
