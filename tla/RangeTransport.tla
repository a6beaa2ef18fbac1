--------------------------- MODULE RangeTransport ---------------------------
(***************************************************************************)
(* What Mirror relies on in a range transport (transport.hpp), and the     *)
(* client keeps.  A call fills a buffer from one version of the source.    *)
(* It may write any part of the buffer first, but only with bytes of a     *)
(* version that the validator it was given accepts; it reports ok only for *)
(* a whole buffer of one version, and says which one it was; and it        *)
(* retries no more often than it may.                                      *)
(*                                                                         *)
(* transport.hpp says of a validator without identity that it can never be *)
(* satisfied.  The client takes any version of its size for it, and so     *)
(* does this contract.                                                     *)
(***************************************************************************)
EXTENDS Integers

CONSTANTS
    Length,       \* bytes asked for
    Versions,     \* the versions of the source
    NoVersion,    \* the version of a byte that no response has written
    Validators,   \* what identifies a version: SourceValidator
    Describes,    \* the validator a response of each version carries
    Limits        \* values of max_retries

Offsets == 1 .. Length

\* What a result says of a version it has not seen.
NoValidator == [etag |-> 0, modified |-> 0, size |-> 0]

\* A registered validator accepts a version if the size agrees, where one is registered, and so does the
\* ETag or, if no ETag is registered, the modification time.  0 stands for an empty field.  A validator
\* with neither accepts every version of its size.
Accepts(expected, v) ==
    /\ expected.size # 0 => Describes[v].size = expected.size
    /\ IF expected.etag # 0
       THEN Describes[v].etag = expected.etag
       ELSE expected.modified # 0 => Describes[v].modified = expected.modified

VARIABLES
    phase,     \* idle, fetching, returned
    expected,  \* the validator of the call
    limit,     \* max_retries
    retries,   \* retries so far
    dest,      \* which version each byte of the buffer is of
    ok,        \* whether the call returned ok
    observed   \* the validator it returned

vars == <<phase, expected, limit, retries, dest, ok, observed>>

Init ==
    /\ phase = "idle"
    /\ expected \in Validators
    /\ limit \in Limits
    /\ retries = 0
    /\ dest = [i \in Offsets |-> NoVersion]
    /\ ok = FALSE
    /\ observed = NoValidator

Call ==
    /\ phase = "idle"
    /\ phase' = "fetching"
    /\ UNCHANGED <<expected, limit, retries, dest, ok, observed>>

\* A request that cannot be made: nothing is fetched.
Refuse ==
    /\ phase = "idle"
    /\ phase' = "returned"
    /\ UNCHANGED <<expected, limit, retries, dest, ok, observed>>

\* The parts of a buffer that a response of one version has overwritten.
Written(v) ==
    \A i \in Offsets : dest'[i] = dest[i] \/ dest'[i] = v

Write ==
    /\ phase = "fetching"
    /\ \E v \in Versions : Accepts(expected, v) /\ Written(v)
    /\ UNCHANGED <<phase, expected, limit, retries, ok, observed>>

Retry ==
    /\ phase = "fetching"
    /\ retries < limit
    /\ retries' = retries + 1
    /\ UNCHANGED <<phase, expected, limit, dest, ok, observed>>

\* The last write and the return may be one step.
Succeed ==
    /\ phase = "fetching"
    /\ phase' = "returned"
    /\ \E v \in Versions :
        /\ Accepts(expected, v)
        /\ dest' = [i \in Offsets |-> v]
        /\ observed' = Describes[v]
    /\ ok' = TRUE
    /\ UNCHANGED <<expected, limit, retries>>

Fail ==
    /\ phase = "fetching"
    /\ phase' = "returned"
    /\ ok' = FALSE
    /\ observed' \in Validators \cup {NoValidator}
    /\ UNCHANGED <<expected, limit, retries, dest>>

Next == Call \/ Refuse \/ Write \/ Retry \/ Succeed \/ Fail

Spec == Init /\ [][Next]_vars
=============================================================================
