-------------------------- MODULE HttpClientProofs --------------------------
(***************************************************************************)
(* HttpClient implements RangeTransport, for any versions, validators,     *)
(* retry limits, addresses and lengths.                                    *)
(*                                                                         *)
(* The argument: while a call goes on nothing has been reported yet; the   *)
(* attempts so far all failed in a way that may be retried; and the bytes  *)
(* received of a body are all of one version, which the validator has      *)
(* accepted.  So the byte that completes the body completes a buffer of    *)
(* one accepted version.                                                   *)
(***************************************************************************)
EXTENDS HttpClientProperties, TLAPS

NoResult == [status |-> "none", bytes |-> 0, observed |-> NoValidator]

\* A call that has not returned has reported nothing.
NothingReported == call.pc # "returned" => result = NoResult

\* What has arrived of a body is of the one version whose head was accepted.
BodyIsOneVersion ==
    call.pc = "body" =>
        /\ call.got < Length
        /\ ValidatorStatus(call.expected, call.from) = "ok"
        /\ \A i \in Offsets : i <= call.got => dest[i] = call.from

\* The attempts so far: none before the call, as many as retries while it goes on, each of which failed in
\* a way that may be retried.
AttemptsCounted ==
    /\ call.retries <= call.limit
    /\ call.pc = "idle" => seen = <<>> /\ call.retries = 0
    /\ call.pc # "returned" => Len(seen) = call.retries /\ \A k \in 1 .. Len(seen) : seen[k] \in Transient

HttpInv == TypeOK /\ NothingReported /\ BodyIsOneVersion /\ AttemptsCounted /\ ReportMatchesAttempts

\* The steps of a call.
Going == call.pc \notin {"idle", "returned"}

-----------------------------------------------------------------------------
(* The validator *)

\* fetch_once's checks are those of the contract.
LEMMA ValidatorAgrees ==
    ASSUME NEW e \in Validators, NEW v \in Versions
    PROVE  ValidatorStatus(e, v) = "ok" <=> Transport!Accepts(e, v)
BY HttpAssumption DEF ValidatorStatus, HasIdentity, EtagOk, ModifiedOk, Transport!Accepts

\* A refused response head gives a transient or a permanent error.
LEMMA HeadStatusType ==
    ASSUME NEW head \in Heads, HeadStatus(head) # "ok"
    PROVE  HeadStatus(head) \in Transient \cup Permanent
BY DEF HeadStatus, Heads, Transient, Permanent

\* A validator that does not match is a permanent error.
LEMMA ValidatorStatusType ==
    ASSUME NEW e \in Validators, NEW v \in Versions, ValidatorStatus(e, v) # "ok"
    PROVE  ValidatorStatus(e, v) \in Permanent
BY DEF ValidatorStatus, Permanent

-----------------------------------------------------------------------------
(* The end of an attempt *)

\* Whatever an attempt ends with, the invariant holds after it.
LEMMA EndsKeepsInv ==
    ASSUME HttpInv, Going,
           NEW status \in Transient \cup Permanent \cup {"ok"},
           NEW bytes \in 0 .. Length, bytes = Length <=> status = "ok",
           NEW observed \in Validators \cup {NoValidator},
           Ends(status, bytes, observed),
           dest' \in [Offsets -> Versions \cup {NoVersion}]
    PROVE  HttpInv'
<1>a. /\ call.retries \in Nat /\ call.limit \in Nat /\ call.retries <= call.limit
      /\ seen \in Seq(Statuses) /\ Len(seen) = call.retries
      /\ \A k \in 1 .. Len(seen) : seen[k] \in Transient
      /\ status \in Statuses /\ Length \in Nat
      BY HttpAssumption DEF HttpInv, TypeOK, CallRecords, AttemptsCounted, Going, Statuses
<1>b. /\ seen' = Append(seen, status) /\ seen' \in Seq(Statuses) /\ Len(seen') = call.retries + 1
      /\ seen'[Len(seen')] = status /\ seen' # <<>>
      /\ \A k \in 1 .. Len(seen') - 1 : seen'[k] \in Transient
      BY <1>a DEF Ends
<1>c. "ok" \notin Transient /\ "retries_exhausted" \notin Transient
      BY DEF Transient
<1>d. UNCHANGED <<serving, publishes>>
      BY DEF Ends
<1>1. CASE Retryable(status) /\ ~RetriesSpent(call)
  <2>1. /\ call' = [call EXCEPT !.pc = "backoff", !.retries = call.retries + 1]
        /\ result' = result
        BY <1>1 DEF Ends
  <2>2. /\ call'.pc = "backoff" /\ call'.retries = call.retries + 1 /\ call'.limit = call.limit
        /\ call.retries < call.limit
        BY <1>1, <1>a, <2>1 DEF HttpInv, TypeOK, CallRecords, RetriesSpent
  <2>3. call' \in CallRecords
    <3>1. call \in CallRecords /\ call.retries + 1 \in Nat
          BY <1>a DEF HttpInv, TypeOK
    <3> QED BY <2>1, <3>1 DEF CallRecords
  <2>t. TypeOK'
        BY <1>b, <1>d, <2>1, <2>3 DEF HttpInv, TypeOK
  <2>4. NothingReported' /\ BodyIsOneVersion' /\ ReportMatchesAttempts'
        BY <2>1, <2>2 DEF HttpInv, NothingReported, BodyIsOneVersion, ReportMatchesAttempts, Going, NoResult
  <2>5. \A k \in 1 .. Len(seen') : seen'[k] \in Transient
        BY <1>1, <1>a, <1>b DEF Retryable
  <2>6. AttemptsCounted'
        BY <1>a, <1>b, <2>2, <2>5 DEF AttemptsCounted
  <2> QED BY <2>t, <2>4, <2>6 DEF HttpInv
<1>2. CASE ~(Retryable(status) /\ ~RetriesSpent(call))
  <2>1. /\ call' = [call EXCEPT !.pc = "returned"]
        /\ result' = [status |-> FinalStatus(status, call), bytes |-> bytes, observed |-> observed]
        BY <1>2 DEF Ends
  <2>2. call'.pc = "returned" /\ call'.retries = call.retries /\ call'.limit = call.limit
        BY <2>1 DEF HttpInv, TypeOK, CallRecords
  <2>3. FinalStatus(status, call) \in Statuses
        BY <1>a DEF FinalStatus, Statuses
  <2>t. call' \in CallRecords
        BY <2>1 DEF HttpInv, TypeOK, CallRecords
  <2>4. TypeOK'
        BY <1>b, <1>d, <2>1, <2>3, <2>t DEF HttpInv, TypeOK
  <2>5. NothingReported' /\ BodyIsOneVersion'
        BY <2>2 DEF NothingReported, BodyIsOneVersion
  <2>6. AttemptsCounted'
        BY <1>a, <2>2 DEF AttemptsCounted
  <2>7. status \in Transient => call.retries = call.limit
        BY <1>2, <1>a DEF Retryable, RetriesSpent
  <2>8. FinalStatus(status, call)
            = IF status \in Transient /\ call.limit > 0 THEN "retries_exhausted" ELSE status
        BY <1>a, <2>7 DEF FinalStatus, Retryable
  <2>9. FinalStatus(status, call) = "ok" <=> status = "ok"
        BY <1>c, <2>8
  <2>10. ReportMatchesAttempts'
        BY <1>b, <2>1, <2>2, <2>7, <2>8, <2>9 DEF ReportMatchesAttempts
  <2> QED BY <2>4, <2>5, <2>6, <2>10 DEF HttpInv
<1> QED BY <1>1, <1>2

\* An attempt that has failed is, to the caller, a retry or the end of the call.
LEMMA FailedEndRefines ==
    ASSUME HttpInv, Going,
           NEW status \in Transient \cup Permanent,
           NEW bytes, NEW observed \in Validators \cup {NoValidator},
           Ends(status, bytes, observed), dest' = dest
    PROVE  Transport!Next
<1>a. call.retries \in Nat /\ call.limit \in Nat /\ status # "ok" /\ result.status # "ok"
  <2>1. call.retries \in Nat /\ call.limit \in Nat
        BY HttpAssumption DEF HttpInv, TypeOK, CallRecords
  <2>2. status # "ok"
        BY DEF Transient, Permanent
  <2>3. result.status # "ok"
        BY DEF HttpInv, NothingReported, NoResult, Going
  <2> QED BY <2>1, <2>2, <2>3
<1>1. CASE Retryable(status) /\ ~RetriesSpent(call)
  <2>1. /\ call' = [call EXCEPT !.pc = "backoff", !.retries = call.retries + 1]
        /\ result' = result
        BY <1>1 DEF Ends
  <2>2. /\ call'.pc = "backoff" /\ call'.retries = call.retries + 1 /\ call.retries < call.limit
        /\ call'.limit = call.limit /\ call'.expected = call.expected
        BY <1>1, <1>a, <2>1 DEF HttpInv, TypeOK, CallRecords, RetriesSpent
  <2>3. Transport!Retry
        BY <2>1, <2>2 DEF Transport!Retry, Going
  <2> QED BY <2>3 DEF Transport!Next
<1>2. CASE ~(Retryable(status) /\ ~RetriesSpent(call))
  <2>1. /\ call' = [call EXCEPT !.pc = "returned"]
        /\ result' = [status |-> FinalStatus(status, call), bytes |-> bytes, observed |-> observed]
        BY <1>2 DEF Ends
  <2>2. /\ call'.pc = "returned" /\ call'.retries = call.retries
        /\ call'.limit = call.limit /\ call'.expected = call.expected
        BY <2>1 DEF HttpInv, TypeOK, CallRecords
  <2>3. result'.status # "ok" /\ result'.observed = observed
        BY <1>a, <2>1 DEF FinalStatus
  <2>4. Transport!Fail
        BY <2>2, <2>3 DEF Transport!Fail, Transport!NoValidator, NoValidator, Going
  <2> QED BY <2>4 DEF Transport!Next
<1> QED BY <1>1, <1>2

-----------------------------------------------------------------------------
(* The body *)

\* A piece of the body has arrived: bytes up to `to`, of the version whose head was accepted.
Arrives(from, to, v) ==
    /\ HttpInv /\ Going
    /\ v \in Versions /\ from \in 0 .. Length /\ to \in 0 .. Length
    /\ ValidatorStatus(call.expected, v) = "ok"
    /\ \A i \in Offsets : i <= from => dest[i] = v
    /\ Receive(from, to, v)

\* The bytes that arrive belong to the response's version and reach up to the new count.
LEMMA FilledUpTo ==
    ASSUME NEW from, NEW to, NEW v, Arrives(from, to, v)
    PROVE  /\ dest' \in [Offsets -> Versions \cup {NoVersion}]
           /\ \A i \in Offsets : i <= to => dest'[i] = v
           /\ \A i \in Offsets : dest'[i] = dest[i] \/ dest'[i] = v
<1>1. dest \in [Offsets -> Versions \cup {NoVersion}] /\ dest' = Filled(from, to, v) /\ v \in Versions
      BY DEF Arrives, Receive, HttpInv, TypeOK
<1>2. \A i \in Offsets : i \in Int /\ from \in Int /\ to \in Int
      BY HttpAssumption DEF Arrives, Offsets
<1>3. \A i \in Offsets : i <= from => dest[i] = v
      BY DEF Arrives
<1> QED BY <1>1, <1>2, <1>3 DEF Filled

\* Receiving bytes keeps the invariant.
LEMMA ReceiveKeepsInv ==
    ASSUME NEW from, NEW to, NEW v, Arrives(from, to, v)
    PROVE  HttpInv'
<1>a. /\ HttpInv /\ Going /\ Receive(from, to, v) /\ v \in Versions /\ to \in 0 .. Length
      /\ Length \in Nat \ {0} /\ Describes[v] \in Validators
      BY HttpAssumption DEF Arrives
<1>1. CASE to = Length
  <2>1. Ends("ok", Length, Describes[v])
        BY <1>1, <1>a DEF Receive
  <2> QED BY <1>a, <2>1, FilledUpTo, EndsKeepsInv
<1>2. CASE to # Length
  <2>1. /\ call' = [call EXCEPT !.pc = "body", !.from = v, !.got = to]
        /\ UNCHANGED <<serving, publishes, result, seen>>
        BY <1>2, <1>a DEF Receive
  <2>2. /\ call'.pc = "body" /\ call'.from = v /\ call'.got = to /\ call'.expected = call.expected
        /\ call'.retries = call.retries /\ call'.limit = call.limit /\ call' \in CallRecords
        BY <1>a, <2>1 DEF HttpInv, TypeOK, CallRecords
  <2>3. TypeOK'
        BY <1>a, <2>1, <2>2, FilledUpTo DEF HttpInv, TypeOK
  <2>4. BodyIsOneVersion'
    <3>1. to < Length
          BY <1>2, <1>a
    <3>2. ValidatorStatus(call.expected, v) = "ok"
          BY DEF Arrives
    <3> QED BY <2>2, <3>1, <3>2, FilledUpTo DEF BodyIsOneVersion, ValidatorStatus, HasIdentity, EtagOk, ModifiedOk
  <2>5. NothingReported' /\ AttemptsCounted' /\ ReportMatchesAttempts'
        BY <1>a, <2>1, <2>2
        DEF HttpInv, Going, NothingReported, NoResult, AttemptsCounted, ReportMatchesAttempts
  <2> QED BY <2>3, <2>4, <2>5 DEF HttpInv
<1> QED BY <1>1, <1>2

\* To the caller, it is a write of an accepted version, or the return with a whole buffer of it.
LEMMA ReceiveRefines ==
    ASSUME NEW from, NEW to, NEW v, Arrives(from, to, v)
    PROVE  Transport!Next
<1>a. /\ HttpInv /\ Going /\ Receive(from, to, v) /\ v \in Versions /\ to \in 0 .. Length
      /\ Length \in Nat \ {0} /\ call.expected \in Validators
      BY HttpAssumption DEF Arrives, HttpInv, TypeOK, CallRecords
<1>b. Transport!Accepts(call.expected, v)
      BY <1>a, ValidatorAgrees DEF Arrives
<1>c. Transport!Offsets = Offsets
      BY DEF Transport!Offsets, Offsets
<1>1. CASE to = Length
  <2>1. call' = [call EXCEPT !.pc = "returned"]
        /\ result' = [status |-> "ok", bytes |-> Length, observed |-> Describes[v]]
        BY <1>1, <1>a DEF Receive, Ends, Retryable, FinalStatus, Transient
  <2>2. /\ call'.pc = "returned" /\ call'.expected = call.expected
        /\ call'.retries = call.retries /\ call'.limit = call.limit
        BY <1>a, <2>1 DEF HttpInv, TypeOK, CallRecords
  <2>3. dest' = [i \in Offsets |-> v]
        BY <1>1, <1>a, FilledUpTo DEF Offsets
  <2>4. Transport!Succeed
        BY <1>a, <1>b, <1>c, <2>1, <2>2, <2>3 DEF Transport!Succeed, Going
  <2> QED BY <2>4 DEF Transport!Next
<1>2. CASE to # Length
  <2>1. call' = [call EXCEPT !.pc = "body", !.from = v, !.got = to] /\ result' = result
        BY <1>2, <1>a DEF Receive
  <2>2. /\ call'.pc = "body" /\ call'.expected = call.expected
        /\ call'.retries = call.retries /\ call'.limit = call.limit
        BY <1>a, <2>1 DEF HttpInv, TypeOK, CallRecords
  <2>3. Transport!Written(v)
        BY <1>c, FilledUpTo DEF Transport!Written
  <2>4. Transport!Write
        BY <1>a, <1>b, <2>1, <2>2, <2>3 DEF Transport!Write, Going
  <2> QED BY <2>4 DEF Transport!Next
<1> QED BY <1>1, <1>2

-----------------------------------------------------------------------------
(* The steps *)

\* A step that only moves the call on, in an attempt that has no body yet.
MovesOn ==
    /\ UNCHANGED <<dest, result, seen>>
    /\ call.pc # "returned"
    /\ call'.pc \notin {"idle", "returned", "body"}
    /\ call'.expected = call.expected /\ call'.limit = call.limit /\ call'.retries = call.retries

\* A step that leaves the destination and the answer alone keeps the invariant.
LEMMA MovesOnKeepsInv ==
    ASSUME HttpInv, TypeOK', MovesOn
    PROVE  HttpInv'
<1>1. NothingReported' /\ BodyIsOneVersion' /\ ReportMatchesAttempts'
      BY DEF HttpInv, MovesOn, NothingReported, NoResult, BodyIsOneVersion, ReportMatchesAttempts
<1>2. AttemptsCounted'
      BY DEF HttpInv, MovesOn, AttemptsCounted
<1> QED BY <1>1, <1>2 DEF HttpInv

\* An attempt that ends before it has accepted a response.
LEMMA EndsEarlySafe ==
    ASSUME HttpInv, Going, NEW status \in Transient \cup Permanent, EndsEarly(status)
    PROVE  HttpInv' /\ Transport!Next
<1>1. /\ Ends(status, 0, NoValidator) /\ dest' = dest /\ status # "ok" /\ 0 # Length /\ 0 \in 0 .. Length
      /\ dest \in [Offsets -> Versions \cup {NoVersion}]
      BY HttpAssumption DEF EndsEarly, Transient, Permanent, HttpInv, TypeOK
<1>2. HttpInv'
      BY <1>1, EndsKeepsInv
<1>3. Transport!Next
      BY <1>1, FailedEndRefines
<1> QED BY <1>2, <1>3

\* What the caller sees of a step: a step of the contract, or nothing.
StepOk == HttpInv' /\ [Transport!Next]_(Transport!vars)

\* The server publishing a version keeps the invariant and is a step of the contract.
LEMMA PublishSafe == HttpInv /\ Publish => StepOk
<1> SUFFICES ASSUME HttpInv, Publish PROVE StepOk
    OBVIOUS
<1>1. UNCHANGED <<call, dest, result, seen>>
      BY DEF Publish
<1>2. TypeOK'
      BY <1>1, HttpAssumption DEF HttpInv, TypeOK, Publish
<1>3. HttpInv'
      BY <1>1, <1>2 DEF HttpInv, NothingReported, NoResult, BodyIsOneVersion, AttemptsCounted,
                        ReportMatchesAttempts, ValidatorStatus, HasIdentity, EtagOk, ModifiedOk
<1> QED BY <1>1, <1>3 DEF StepOk, Transport!vars

\* A call refused before the first attempt ends with the destination untouched.
LEMMA CallRefusedSafe == HttpInv /\ CallRefused => StepOk
<1> SUFFICES ASSUME HttpInv, CallRefused PROVE StepOk
    OBVIOUS
<1>1. /\ call.pc = "idle" /\ call' = [call EXCEPT !.pc = "returned"]
      /\ result' = [status |-> "invalid_argument", bytes |-> 0, observed |-> NoValidator]
      /\ UNCHANGED <<serving, publishes, dest, seen>>
      BY DEF CallRefused
<1>2. /\ call'.pc = "returned" /\ call'.expected = call.expected
      /\ call'.limit = call.limit /\ call'.retries = call.retries /\ call' \in CallRecords
      BY <1>1 DEF HttpInv, TypeOK, CallRecords
<1>3. result' \in [status : Statuses, bytes : 0 .. Length, observed : Validators \cup {NoValidator}]
      BY <1>1, HttpAssumption DEF Statuses
<1>4. TypeOK'
      BY <1>1, <1>2, <1>3 DEF HttpInv, TypeOK
<1>5. HttpInv'
      BY <1>1, <1>2, <1>4 DEF HttpInv, NothingReported, BodyIsOneVersion, AttemptsCounted, ReportMatchesAttempts
<1>6. Transport!Refuse
      BY <1>1, <1>2 DEF HttpInv, NothingReported, NoResult, Transport!Refuse
<1> QED BY <1>5, <1>6 DEF StepOk, Transport!Next

\* The steps that only move on.
LEMMA CallFetchSafe == HttpInv /\ CallFetch => StepOk
<1> SUFFICES ASSUME HttpInv, CallFetch PROVE StepOk
    OBVIOUS
<1>1. /\ call.pc = "idle" /\ call' = [call EXCEPT !.pc = "resolve"]
      /\ UNCHANGED <<serving, publishes, dest, result, seen>>
      BY DEF CallFetch
<1>2. MovesOn /\ call'.pc = "resolve" /\ call' \in CallRecords
      BY <1>1 DEF MovesOn, HttpInv, TypeOK, CallRecords
<1>3. HttpInv'
      BY <1>1, <1>2, MovesOnKeepsInv DEF HttpInv, TypeOK
<1>4. Transport!Call
      BY <1>1, <1>2 DEF Transport!Call, MovesOn
<1> QED BY <1>3, <1>4 DEF StepOk, Transport!Next

\* A step inside an attempt that stores no byte is a stutter of the contract.
LEMMA GoesOn ==
    ASSUME HttpInv, Going, call' \in CallRecords, MovesOn, UNCHANGED <<serving, publishes>>
    PROVE  StepOk
<1>1. HttpInv'
      BY MovesOnKeepsInv DEF HttpInv, TypeOK, MovesOn
<1>2. UNCHANGED Transport!vars
      BY DEF Going, MovesOn, Transport!vars
<1> QED BY <1>1, <1>2 DEF StepOk

\* The wait between two attempts is safe.
LEMMA BackoffSafe == HttpInv /\ Backoff => StepOk
<1> SUFFICES ASSUME HttpInv, Backoff PROVE StepOk
    OBVIOUS
<1>1. Going /\ call' \in CallRecords /\ MovesOn /\ UNCHANGED <<serving, publishes>>
      BY DEF Backoff, Going, HttpInv, TypeOK, CallRecords, MovesOn
<1> QED BY <1>1, GoesOn

\* Resolving the host is safe, also when it fails.
LEMMA ResolveSafe == HttpInv /\ Resolve => StepOk
<1> SUFFICES ASSUME HttpInv, Resolve PROVE StepOk
    OBVIOUS
<1>1. CASE EndsEarly("connect_failed")
      BY <1>1, EndsEarlySafe DEF Resolve, Going, StepOk, Transient
<1>2. CASE call' = [call EXCEPT !.pc = "connect", !.address = 1]
           /\ UNCHANGED <<serving, publishes, dest, result, seen>>
  <2>1. Going /\ call' \in CallRecords /\ MovesOn /\ UNCHANGED <<serving, publishes>>
        BY <1>2 DEF Resolve, Going, HttpInv, TypeOK, CallRecords, MovesOn
  <2> QED BY <2>1, GoesOn
<1> QED BY <1>1, <1>2 DEF Resolve

\* Connecting is safe, also when it fails or times out.
LEMMA ConnectSafe == HttpInv /\ Connect => StepOk
<1> SUFFICES ASSUME HttpInv, Connect PROVE StepOk
    OBVIOUS
<1>1. CASE EndsEarly("connect_failed")
      BY <1>1, EndsEarlySafe DEF Connect, Going, StepOk, Transient
<1>2. CASE /\ call' = [call EXCEPT !.pc = "send"] \/ call' = [call EXCEPT !.address = @ + 1]
           /\ UNCHANGED <<serving, publishes, dest, result, seen>>
  <2>1. Going /\ call' \in CallRecords /\ MovesOn /\ UNCHANGED <<serving, publishes>>
    <3>1. call \in CallRecords /\ call.pc = "connect" /\ call.address + 1 \in Nat
          BY DEF Connect, HttpInv, TypeOK, CallRecords
    <3> QED BY <1>2, <3>1 DEF Going, CallRecords, MovesOn
  <2> QED BY <2>1, GoesOn
<1> QED BY <1>1, <1>2 DEF Connect

\* Sending the request is safe, also when the connection is lost.
LEMMA SendSafe == HttpInv /\ Send => StepOk
<1> SUFFICES ASSUME HttpInv, Send PROVE StepOk
    OBVIOUS
<1>1. CASE EndsEarly("send_failed")
      BY <1>1, EndsEarlySafe DEF Send, Going, StepOk, Transient
<1>2. CASE call' = [call EXCEPT !.pc = "head", !.heads = 0]
           /\ UNCHANGED <<serving, publishes, dest, result, seen>>
  <2>1. Going /\ call' \in CallRecords /\ MovesOn /\ UNCHANGED <<serving, publishes>>
    <3>1. call \in CallRecords /\ call.pc = "send" /\ 0 \in 0 .. HeadLimit
          BY HttpAssumption DEF Send, HttpInv, TypeOK
    <3> QED BY <1>2, <3>1 DEF Going, CallRecords, MovesOn
  <2> QED BY <2>1, GoesOn
<1> QED BY <1>1, <1>2 DEF Send

\* Receiving a response head and judging it is safe.
LEMMA RecvHeadSafe == HttpInv /\ RecvHead => StepOk
<1> SUFFICES ASSUME HttpInv, RecvHead PROVE StepOk
    OBVIOUS
<1>1. CASE EndsEarly("unexpected_status")
      BY <1>1, EndsEarlySafe DEF RecvHead, Going, StepOk, Permanent
<1>2. CASE /\ call.heads < HeadLimit
           /\ call' = [call EXCEPT !.heads = @ + 1]
           /\ UNCHANGED <<serving, publishes, dest, result, seen>>
  <2>1. Going /\ call' \in CallRecords /\ MovesOn /\ UNCHANGED <<serving, publishes>>
    <3>1. call \in CallRecords /\ call.pc = "head"
          BY DEF RecvHead, HttpInv, TypeOK
    <3>2. call.heads \in 0 .. HeadLimit
          BY <3>1 DEF CallRecords
    <3>3. call.heads + 1 \in 0 .. HeadLimit
          BY <1>2, <3>2, HttpAssumption
    <3> QED BY <1>2, <3>1, <3>3 DEF Going, CallRecords, MovesOn
  <2> QED BY <2>1, GoesOn
<1> QED BY <1>1, <1>2 DEF RecvHead

\* Losing the connection before the head is complete is safe.
LEMMA HeadLostSafe == HttpInv /\ HeadLost => StepOk
BY EndsEarlySafe DEF HeadLost, Going, StepOk, Transient

\* A complete head, with the body bytes that came with it, is safe.
LEMMA HeadDoneSafe == HttpInv /\ HeadDone => StepOk
<1> SUFFICES ASSUME HttpInv, HeadDone PROVE StepOk
    OBVIOUS
<1>a. /\ Going /\ serving \in Versions /\ call.expected \in Validators
      /\ Describes[serving] \in Validators /\ Length \in Nat \ {0}
      BY HttpAssumption DEF HeadDone, Going, HttpInv, TypeOK, CallRecords
<1>1. ASSUME NEW head \in Heads, HeadStatus(head) # "ok", EndsEarly(HeadStatus(head))
      PROVE  StepOk
      BY <1>1, <1>a, HeadStatusType, EndsEarlySafe DEF StepOk
<1>2. ASSUME ValidatorStatus(call.expected, serving) # "ok",
             Ends(ValidatorStatus(call.expected, serving), 0, Describes[serving]), dest' = dest
      PROVE  StepOk
  <2>1. /\ ValidatorStatus(call.expected, serving) \in Permanent
        /\ 0 \in 0 .. Length /\ 0 # Length
        /\ dest' \in [Offsets -> Versions \cup {NoVersion}]
        BY <1>2, <1>a, ValidatorStatusType DEF HttpInv, TypeOK
  <2>2. HttpInv'
        BY <1>2, <1>a, <2>1, EndsKeepsInv
  <2>3. Transport!Next
        BY <1>2, <1>a, <2>1, FailedEndRefines
  <2> QED BY <2>2, <2>3 DEF StepOk
<1>3. ASSUME NEW extra \in 0 .. Length + 1, ValidatorStatus(call.expected, serving) = "ok",
             Receive(0, IF extra < Length THEN extra ELSE Length, serving)
      PROVE  StepOk
  <2> DEFINE to == IF extra < Length THEN extra ELSE Length
  <2>1. to \in 0 .. Length /\ 0 \in 0 .. Length /\ \A i \in Offsets : ~(i <= 0)
        BY <1>a DEF Offsets
  <2>2. Arrives(0, to, serving)
        BY <1>3, <1>a, <2>1 DEF Arrives
  <2> QED BY <2>2, ReceiveKeepsInv, ReceiveRefines DEF StepOk
<1> QED BY <1>1, <1>2, <1>3 DEF HeadDone

\* Receiving a piece of the body is safe.
LEMMA RecvBodySafe == HttpInv /\ RecvBody => StepOk
<1> SUFFICES ASSUME HttpInv, RecvBody PROVE StepOk
    OBVIOUS
<1>1. PICK to \in call.got + 1 .. Length : Receive(call.got, to, call.from)
      BY DEF RecvBody
<1>2. call.pc = "body" /\ call.got \in 0 .. Length /\ call.from \in Versions /\ Length \in Nat
      BY HttpAssumption DEF RecvBody, HttpInv, TypeOK, CallRecords
<1>3. Arrives(call.got, to, call.from)
      BY <1>1, <1>2 DEF Arrives, HttpInv, BodyIsOneVersion, Going
<1> QED BY <1>3, ReceiveKeepsInv, ReceiveRefines DEF StepOk

\* Losing the connection inside the body is safe.
LEMMA BodyLostSafe == HttpInv /\ BodyLost => StepOk
<1> SUFFICES ASSUME HttpInv, BodyLost PROVE StepOk
    OBVIOUS
<1>1. PICK status \in {"truncated", "timeout"} : Ends(status, call.got, Describes[call.from])
      BY DEF BodyLost
<1>2. /\ Going /\ call.got \in 0 .. Length /\ call.got # Length /\ status \in Transient /\ status # "ok"
      /\ Describes[call.from] \in Validators /\ dest' = dest
      /\ dest' \in [Offsets -> Versions \cup {NoVersion}]
  <2>1. call.pc = "body" /\ dest' = dest /\ call \in CallRecords
        /\ dest \in [Offsets -> Versions \cup {NoVersion}]
        BY DEF BodyLost, HttpInv, TypeOK
  <2>2. call.got < Length /\ Length \in Nat /\ call.got \in 0 .. Length /\ call.from \in Versions
        BY <2>1, HttpAssumption DEF HttpInv, BodyIsOneVersion, CallRecords
  <2> QED BY <1>1, <2>1, <2>2, HttpAssumption DEF Going, Transient
<1>3. HttpInv'
      BY <1>1, <1>2, EndsKeepsInv
<1>4. Transport!Next
      BY <1>1, <1>2, FailedEndRefines
<1> QED BY <1>3, <1>4 DEF StepOk

-----------------------------------------------------------------------------
(* The theorems *)

\* The first state satisfies the invariant and the contract's initial condition.
LEMMA InitSafe == Init => HttpInv /\ Transport!Init
<1> SUFFICES ASSUME Init PROVE HttpInv /\ Transport!Init
    OBVIOUS
<1>1. /\ call \in CallRecords /\ call.pc = "idle" /\ call.retries = 0
      /\ call.limit \in Limits /\ call.expected \in Validators
  <2>1. /\ serving \in Versions
        /\ call \in [pc : {"idle"}, expected : Validators, limit : Limits, retries : {0}, address : {1},
                     heads : {0}, from : {serving}, got : {0}]
        BY DEF Init
  <2>2. 0 \in Nat /\ 1 \in Nat /\ 0 \in 0 .. HeadLimit /\ 0 \in 0 .. Length
        BY HttpAssumption
  <2> QED BY <2>1, <2>2 DEF CallRecords
<1>2. result = NoResult /\ seen = <<>> /\ dest = [i \in Offsets |-> NoVersion]
      BY DEF Init, NoResult
<1>3. TypeOK
  <2>1. result \in [status : Statuses, bytes : 0 .. Length, observed : Validators \cup {NoValidator}]
        BY <1>2, HttpAssumption DEF NoResult, Statuses
  <2> QED BY <1>1, <1>2, <2>1, HttpAssumption DEF TypeOK, Init
<1>4. NothingReported /\ BodyIsOneVersion /\ ReportMatchesAttempts
      BY <1>1, <1>2 DEF NothingReported, BodyIsOneVersion, ReportMatchesAttempts
<1>5. AttemptsCounted
  <2>1. Len(seen) = 0 /\ 1 .. Len(seen) = {}
        BY <1>2
  <2>2. call.retries <= call.limit
    <3>1. call.limit \in Nat /\ call.retries = 0
          BY <1>1, HttpAssumption
    <3> QED BY <3>1
  <2> QED BY <1>1, <1>2, <2>1, <2>2 DEF AttemptsCounted
<1>6. Transport!Init
      BY <1>1, <1>2 DEF Transport!Init, Transport!Offsets, Offsets, Transport!NoValidator, NoValidator, NoResult
<1> QED BY <1>3, <1>4, <1>5, <1>6 DEF HttpInv

\* Every step keeps the invariant and is a step or a stutter of the contract.
LEMMA StepSafe == HttpInv /\ [Next]_vars => StepOk
<1> SUFFICES ASSUME HttpInv, [Next]_vars PROVE StepOk
    OBVIOUS
<1>1. CASE UNCHANGED vars
  <2>1. UNCHANGED <<serving, publishes, call, dest, result, seen>>
        BY <1>1 DEF vars
  <2>2. HttpInv'
        BY <2>1 DEF HttpInv, TypeOK, NothingReported, NoResult, BodyIsOneVersion, AttemptsCounted,
                    ReportMatchesAttempts, ValidatorStatus, HasIdentity, EtagOk, ModifiedOk
  <2> QED BY <2>1, <2>2 DEF StepOk, Transport!vars
<1>2. CASE Next
      BY <1>2, PublishSafe, CallRefusedSafe, CallFetchSafe, BackoffSafe, ResolveSafe, ConnectSafe, SendSafe,
         RecvHeadSafe, HeadLostSafe, HeadDoneSafe, RecvBodySafe, BodyLostSafe DEF Next, FetchStep
<1> QED BY <1>1, <1>2

\* Every reachable state is well typed.
THEOREM TypeCorrect == Spec => []TypeOK
<1>1. HttpInv => TypeOK
      BY DEF HttpInv
<1> QED BY <1>1, InitSafe, StepSafe, PTL DEF Spec, StepOk

\* Whatever fetch_range returns agrees with the attempts behind it, for every limit of retries.
THEOREM ReportsAreTrue == Spec => []ReportMatchesAttempts
<1>1. HttpInv => ReportMatchesAttempts
      BY DEF HttpInv
<1> QED BY <1>1, InitSafe, StepSafe, PTL DEF Spec, StepOk

\* The client implements the contract of a range transport.
THEOREM ClientIsATransport == Spec => ImplementsTransport
BY InitSafe, StepSafe, PTL DEF Spec, StepOk, ImplementsTransport, Transport!Spec
=============================================================================
