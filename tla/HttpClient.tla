----------------------------- MODULE HttpClient -----------------------------
(***************************************************************************)
(* Http1RangeTransport: fetch_range with its bounded retries, and          *)
(* fetch_once from the name look-up to the last byte of the body.  The     *)
(* server may publish a new version of the source at any moment, answer    *)
(* anything, stall, or close the connection after any byte.                *)
(*                                                                         *)
(* The transport keeps no state from one call to the next (fetch_range is  *)
(* const), so a behaviour is one call.                                     *)
(*                                                                         *)
(* A byte is abstracted to the version it is of, a header to what the      *)
(* client reads in it, and time to the choice between data and a timeout.  *)
(***************************************************************************)
EXTENDS Integers, Sequences

CONSTANTS
    Length,        \* request.length
    Versions,      \* the versions of the source
    NoVersion,     \* the version of a byte that no response has written
    Validators,    \* the validators callers register, and what responses carry
    Describes,     \* the ETag, Last-Modified and size of each version
    Limits,        \* values of max_retries
    Addresses,     \* how many addresses the host name resolves to
    HeadLimit,     \* pieces of a response head that fill the 1 MiB buffer
    MaxPublishes   \* bound on the versions published while TLC looks

ASSUME HttpAssumption ==
    /\ Length \in Nat \ {0}
    /\ Limits \subseteq Nat
    /\ Addresses \in Nat
    /\ HeadLimit \in Nat
    /\ MaxPublishes \in Nat
    /\ NoVersion \notin Versions
    /\ Describes \in [Versions -> Validators]
    /\ Validators \subseteq [etag : Nat, modified : Nat, size : Nat]
    /\ Validators # {}

Offsets == 1 .. Length

\* A default SourceValidator.
NoValidator == [etag |-> 0, modified |-> 0, size |-> 0]

VARIABLES
    serving,    \* the version the server has now
    publishes,  \* how many were published so far
    call,       \* locals of fetch_range and fetch_once
    dest,       \* request.destination: the version each byte is of
    result,     \* FetchRangeResult
    seen        \* how each attempt of the call ended; only the properties read it

vars == <<serving, publishes, call, dest, result, seen>>

\* is_transient
Transient == {"connect_failed", "send_failed", "timeout", "truncated", "server_error"}
Permanent == {"unexpected_status", "bad_content_range", "unsupported_response", "source_changed",
              "size_mismatch"}
Statuses == {"none", "ok", "invalid_argument", "retries_exhausted"} \cup Transient \cup Permanent

\* SourceValidator::has_identity; 0 stands for an empty field.
HasIdentity(expected) == expected.etag # 0 \/ expected.modified # 0

\* What fetch_once finds in a response head: the status code, the fields it looks at, and whether
\* parse_content_range reads the requested range in it.
Heads == [code : {"206", "5xx", "other"}, encoded : BOOLEAN, hasLength : BOOLEAN,
          range : {"match", "other", "malformed"}, lengthOk : BOOLEAN]

\* An http url: parse_http_url wants the scheme, a host, and a port if there is a colon.
Urls == [http : BOOLEAN, host : BOOLEAN, colon : BOOLEAN, port : BOOLEAN]
UrlValid(url) == url.http /\ url.host /\ (url.colon => url.port)

Init ==
    /\ serving \in Versions
    /\ publishes = 0
    /\ call \in [pc : {"idle"}, expected : Validators, limit : Limits, retries : {0}, address : {1},
                 heads : {0}, from : {serving}, got : {0}]
    /\ dest = [i \in Offsets |-> NoVersion]
    /\ result = [status |-> "none", bytes |-> 0, observed |-> NoValidator]
    /\ seen = <<>>

\* The source changes on the server.
Publish ==
    /\ publishes < MaxPublishes
    /\ publishes' = publishes + 1
    /\ serving' \in Versions \ {serving}
    /\ UNCHANGED <<call, dest, result, seen>>

\* fetch_range refuses a bad url, an empty range, or a destination of another size.
CallRefused ==
    /\ call.pc = "idle"
    /\ \E url \in Urls, sizeOk \in BOOLEAN : ~UrlValid(url) \/ ~sizeOk
    /\ call' = [call EXCEPT !.pc = "returned"]
    /\ result' = [status |-> "invalid_argument", bytes |-> 0, observed |-> NoValidator]
    /\ UNCHANGED <<serving, publishes, dest, seen>>

CallFetch ==
    /\ call.pc = "idle"
    /\ \E url \in Urls : UrlValid(url)
    /\ call' = [call EXCEPT !.pc = "resolve"]
    /\ UNCHANGED <<serving, publishes, dest, result, seen>>

-----------------------------------------------------------------------------
(* The end of an attempt *)

\* No retry is left.
RetriesSpent(c) == c.retries >= c.limit

\* A mutant: a changed source is tried again.
RetryablePlus(status) == status \in Transient \cup {"source_changed"}
\* Whether the loop of fetch_range goes on after this status.
Retryable(status) == status \in Transient

\* The status it reports when retries are spent: the last one's own, if none was allowed.
FinalStatus(status, c) ==
    IF Retryable(status) /\ c.retries > 0 THEN "retries_exhausted" ELSE status

\* fetch_once returns `status`, with what it has received and observed.
Ends(status, bytes, observed) ==
    /\ seen' = Append(seen, status)
    /\ IF Retryable(status) /\ ~RetriesSpent(call)
       THEN /\ call' = [call EXCEPT !.pc = "backoff", !.retries = @ + 1]
            /\ result' = result
       ELSE /\ call' = [call EXCEPT !.pc = "returned"]
            /\ result' = [status |-> FinalStatus(status, call), bytes |-> bytes, observed |-> observed]
    /\ UNCHANGED <<serving, publishes>>

\* An attempt that ends before it has accepted a response.
EndsEarly(status) == Ends(status, 0, NoValidator) /\ dest' = dest

\* The sleep between two attempts is over.
Backoff ==
    /\ call.pc = "backoff"
    /\ call' = [call EXCEPT !.pc = "resolve"]
    /\ UNCHANGED <<serving, publishes, dest, result, seen>>

-----------------------------------------------------------------------------
(* fetch_once *)

\* getaddrinfo
Resolve ==
    /\ call.pc = "resolve"
    /\ \/ EndsEarly("connect_failed")
       \/ /\ Addresses > 0
          /\ call' = [call EXCEPT !.pc = "connect", !.address = 1]
          /\ UNCHANGED <<serving, publishes, dest, result, seen>>

\* One address after the other, each with its own timeout.
Connect ==
    /\ call.pc = "connect"
    /\ \/ /\ call' = [call EXCEPT !.pc = "send"]
          /\ UNCHANGED <<serving, publishes, dest, result, seen>>
       \/ /\ call.address < Addresses
          /\ call' = [call EXCEPT !.address = @ + 1]
          /\ UNCHANGED <<serving, publishes, dest, result, seen>>
       \/ call.address = Addresses /\ EndsEarly("connect_failed")

Send ==
    /\ call.pc = "send"
    /\ \/ /\ call' = [call EXCEPT !.pc = "head", !.heads = 0]
          /\ UNCHANGED <<serving, publishes, dest, result, seen>>
       \/ EndsEarly("send_failed")

\* A mutant: the size of the head is not limited.
RecvHeadForgets ==
    /\ call.pc = "head"
    /\ call' = [call EXCEPT !.heads = (@ + 1) % (HeadLimit + 1)]
    /\ UNCHANGED <<serving, publishes, dest, result, seen>>
\* A piece of the head without its end: the client reads on, until the head is too large.
RecvHead ==
    /\ call.pc = "head"
    /\ IF call.heads < HeadLimit
       THEN /\ call' = [call EXCEPT !.heads = @ + 1]
            /\ UNCHANGED <<serving, publishes, dest, result, seen>>
       ELSE EndsEarly("unexpected_status")

\* recv returns 0 or an error, in the head.
HeadLost == call.pc = "head" /\ \E status \in {"truncated", "timeout"} : EndsEarly(status)

\* The checks on the head that precede the validator.
HeadStatus(head) ==
    IF head.code = "5xx" THEN "server_error"
    ELSE IF head.code = "other" THEN "unexpected_status"
    ELSE IF head.encoded THEN "unsupported_response"
    ELSE IF ~head.hasLength \/ head.range # "match" \/ ~head.lengthOk THEN "bad_content_range"
    ELSE "ok"

\* The checks of the validator: size first, then the ETag or, if none is registered, Last-Modified.
\* A mutant: an empty ETag agrees with an empty one.
EtagOkIfEmpty(expected, v) == expected.etag = Describes[v].etag
EtagOk(expected, v) == expected.etag # 0 /\ expected.etag = Describes[v].etag
ModifiedOk(expected, v) ==
    expected.etag = 0 /\ expected.modified # 0 /\ expected.modified = Describes[v].modified

ValidatorStatus(expected, v) ==
    IF expected.size # 0 /\ Describes[v].size # expected.size THEN "size_mismatch"
    ELSE IF HasIdentity(expected) /\ ~EtagOk(expected, v) /\ ~ModifiedOk(expected, v)
         THEN "source_changed" ELSE "ok"

\* Bytes from + 1 .. to of the buffer come from the response.
Filled(from, to, v) == [i \in Offsets |-> IF from < i /\ i <= to THEN v ELSE dest[i]]

\* to is how much of the body has arrived; fetch_once is done when that is all of it.
Receive(from, to, v) ==
    /\ dest' = Filled(from, to, v)
    /\ IF to = Length
       THEN Ends("ok", Length, Describes[v])
       ELSE /\ call' = [call EXCEPT !.pc = "body", !.from = v, !.got = to]
            /\ UNCHANGED <<serving, publishes, result, seen>>

\* The head is complete, and so are the first bytes of the body, perhaps all or too many of them.  It is
\* the response of the version that the server has at this moment.
HeadDone ==
    /\ call.pc = "head"
    /\ \E head \in Heads, extra \in 0 .. Length + 1 :
        IF HeadStatus(head) # "ok"
        THEN EndsEarly(HeadStatus(head))
        ELSE IF ValidatorStatus(call.expected, serving) # "ok"
        THEN Ends(ValidatorStatus(call.expected, serving), 0, Describes[serving]) /\ dest' = dest
        ELSE Receive(0, IF extra < Length THEN extra ELSE Length, serving)

\* recv never asks for more than is missing.
RecvBody ==
    /\ call.pc = "body"
    /\ \E to \in call.got + 1 .. Length : Receive(call.got, to, call.from)

BodyLost ==
    /\ call.pc = "body"
    /\ \E status \in {"truncated", "timeout"} : Ends(status, call.got, Describes[call.from])
    /\ dest' = dest

-----------------------------------------------------------------------------
FetchStep ==
    \/ Backoff \/ Resolve \/ Connect \/ Send
    \/ RecvHead \/ HeadLost \/ HeadDone \/ RecvBody \/ BodyLost

Next == Publish \/ CallRefused \/ CallFetch \/ FetchStep

Spec == Init /\ [][Next]_vars

\* Every system call of the client returns: connect and recv have timeouts, and a request fits the send
\* buffer.
FairSpec == Spec /\ WF_vars(FetchStep)

CallRecords ==
    [pc : {"idle", "resolve", "connect", "send", "head", "body", "backoff", "returned"},
     expected : Validators, limit : Limits, retries : Nat, address : Nat,
     heads : 0 .. HeadLimit, from : Versions, got : 0 .. Length]

\* Every variable stays in its type.
TypeOK ==
    /\ serving \in Versions
    /\ publishes \in 0 .. MaxPublishes
    /\ call \in CallRecords
    /\ dest \in [Offsets -> Versions \cup {NoVersion}]
    /\ result \in [status : Statuses, bytes : 0 .. Length, observed : Validators \cup {NoValidator}]
    /\ seen \in Seq(Statuses)
=============================================================================
