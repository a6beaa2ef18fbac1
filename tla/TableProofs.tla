---------------------------- MODULE TableProofs ----------------------------
(***************************************************************************)
(* Type correctness of Table, for every value of its constants.  ShapeInv  *)
(* strengthens TypeOK to an inductive invariant; each action has a lemma   *)
(* that it keeps ShapeInv, and ShapeInductive puts them together.          *)
(***************************************************************************)
EXTENDS TableProperties, SequenceTheorems, TLAPS

\* The shape of a client's call: which lists, positions and records its control state vouches for.  In
\* phase A the leases taken so far are those before position i; while driving, every lease is held, or
\* the ticket waited on is.
Shape(c) ==
    LET k == call[c] IN
    /\ k.pc \in {"reset", "unwind", "admit", "prefetch"} => Len(k.rows) \in 1 .. MaxBatch
    /\ k.pc \in {"reset", "unwind", "admit"} => k.op = "resolve"
    /\ k.pc \in {"reset", "admit", "prefetch"} => k.i \in 1 .. Len(k.rows)
    /\ k.pc \in {"admit", "prefetch"} => InRange(k.rows)
    /\ k.pc = "admit" => \A j \in 1 .. Len(k.rows) : out[c][j].slot = NONE <=> j >= k.i
    /\ k.pc = "reset" => k.i = 1
    /\ k.pc = "prefetch" => k.rec \in Records /\ tick[c].record = k.rec
    /\ k.pc \in {"drive", "finish", "blocked"} =>
         \/ /\ k.op = "resolve"
            /\ Len(k.rows) \in 1 .. MaxBatch
            /\ k.i \in 1 .. Len(k.rows)
            /\ \A j \in 1 .. Len(k.rows) : out[c][j].slot # NONE
         \/ /\ k.op = "wait"
            /\ k.rec \in Records
            /\ tickets[k.rec].held
            /\ k.i \in 1 .. tickets[k.rec].count
            /\ k.pc # "drive" => waiters[k.rec][k.i].slot # NONE
            /\ \A d \in Clients : call[d].pc = "prefetch" => call[d].rec # k.rec

\* Every client's call has its shape.
CallOK == \A c \in Clients : Shape(c)

\* The index names filling and ready slots only; a filling slot has a binding and, if the table
\* converts, a scratch slot.
SlotOK ==
    \A s \in Slots :
        /\ slots[s].indexed => slots[s].state \in {"filling", "ready"}
        /\ slots[s].state = "filling" =>
             /\ slots[s].indexed
             /\ slots[s].binding \in Generations
             /\ Converting => slots[s].scratch \in Scratches

\* A thread inside finish_fill owns a filling slot by its flag, and no two threads own one slot.
FinOK ==
    /\ \A t \in Threads : fin[t].pc # "idle" =>
         /\ fin[t].slot \in Slots
         /\ slots[fin[t].slot].state = "filling"
         /\ slots[fin[t].slot].finishing
    /\ \A t, u \in Threads :
         fin[t].pc # "idle" /\ fin[u].pc # "idle" /\ fin[t].slot = fin[u].slot => t = u
    /\ \A c \in Clients : fin[c].pc # "idle" => call[c].pc = "finish"

\* A PrefetchTicket object names a held record of its own generation, and no two name the same one.
TicketOK ==
    /\ \A k \in Records : tickets[k].held => tickets[k].count \in 1 .. MaxBatch
    /\ \A c \in Clients : tick[c].record # 0 =>
         /\ tickets[tick[c].record].held
         /\ tickets[tick[c].record].generation = tick[c].generation
    /\ \A c, d \in Clients :
         tick[c].record # 0 /\ tick[c].record = tick[d].record => c = d

\* The inductive invariant: the types alone are not inductive, because a step's indices come from the
\* call, the finisher and the ticket it belongs to.
ShapeInv == TypeOK /\ CallOK /\ SlotOK /\ FinOK /\ TicketOK

-----------------------------------------------------------------------------

\* The assumptions on the constants, one by one.
LEMMA ConstantFacts ==
    /\ RowCount \in Nat \ {0} /\ BudgetRows \in Nat \ {0} /\ MaxBatch \in Nat \ {0}
    /\ MaxTickets \in Nat \ {0} /\ MaxChunks \in Nat \ {0} /\ WordModulus \in Nat \ {0}
    /\ ScratchRows \in Nat /\ MaxGeneration \in Nat /\ Converting \in BOOLEAN
    /\ Requests \subseteq Seq(Nat)
    /\ Extent \in [Generations -> [Rows -> [status : Statuses, shard : Shards, chunks : ChunkIds]]]
  BY SizeAssumption, InputAssumption

\* The initial records are of their types.
LEMMA RecordFacts ==
    /\ FreeSlot \in SlotRecord /\ NoLease \in LeaseRecord /\ NoWaiter \in WaiterRecord
    /\ Idle \in CallRecord /\ NoFinish \in FinishRecord /\ Garbage \in Bytes
  BY ConstantFacts DEF FreeSlot, NoLease, NoWaiter, Idle, NoFinish, Garbage, NoTally, NoBinding, NONE,
     SlotRecord, LeaseRecord, WaiterRecord, CallRecord, FinishRecord, Bytes, Rows, Generations,
     Words, Statuses

\* The constructor establishes the invariant.
LEMMA InitShape == Init => ShapeInv
  <1> SUFFICES ASSUME Init PROVE ShapeInv
    OBVIOUS
  <1>1. TypeOK
    BY RecordFacts, ConstantFacts DEF Init, TypeOK, NoTicket, Generations, Slots, Words
  <1>2. CallOK /\ SlotOK /\ FinOK /\ TicketOK
    BY ConstantFacts DEF Init, CallOK, Shape, SlotOK, FinOK, TicketOK, Idle, FreeSlot, NoFinish,
       NoTicket, Threads
  <1> QED
    BY <1>1, <1>2 DEF ShapeInv

\* A call that returns is a call record that has returned.
LEMMA EndedFacts ==
  ASSUME TypeOK, NEW c \in Clients, NEW status \in Statuses
  PROVE  Ended(c, status) \in CallRecord /\ Ended(c, status).pc = "returned"
  <1> call[c] \in CallRecord
    BY DEF TypeOK
  <1> QED
    BY DEF Ended, CallRecord

\* A call that begins is a call record at its first position.
LEMMA BeginFacts ==
  ASSUME TypeOK,
         NEW op \in {"resolve", "prefetch", "wait", "drain", "invalidate"},
         NEW pc \in {"reset", "drive", "drain", "returned"}
  PROVE  /\ Begin(op, pc) \in CallRecord
         /\ Begin(op, pc).op = op /\ Begin(op, pc).pc = pc /\ Begin(op, pc).i = 1
  BY RecordFacts DEF TypeOK, Begin, CallRecord, Idle

\* Setting the status or the deadline of a call keeps its type and its place.
LEMMA FieldFacts ==
  ASSUME NEW k \in CallRecord, NEW status \in Statuses, NEW timed \in BOOLEAN
  PROVE  /\ [k EXCEPT !.status = status] \in CallRecord /\ [k EXCEPT !.status = status].pc = k.pc
         /\ [k EXCEPT !.timed = timed] \in CallRecord /\ [k EXCEPT !.timed = timed].pc = k.pc
  BY DEF CallRecord

\* A step of client c that changes nothing but its call and possibly lock_ and progress_.
CallStep(c, k) ==
    /\ call' = [call EXCEPT ![c] = k]
    /\ lock' \in Clients \cup {NoThread}
    /\ sleeping' \subseteq Threads
    /\ UNCHANGED <<tableVars, out, fin, sysVars>>

\* A step that changes only a client's own call keeps the invariant if the new call has its shape.
LEMMA CallStepShape ==
  ASSUME ShapeInv, NEW c \in Clients, NEW k \in CallRecord, CallStep(c, k), Shape(c)',
         fin[c].pc # "idle" => k.pc = "finish", k.pc # "prefetch"
  PROVE  ShapeInv'
  <1> USE DEF CallStep, tableVars, poolVars, fillVars, bindVars, ticketVars, sysVars
  <1>1. TypeOK'
    BY DEF ShapeInv, TypeOK
  <1>2. CallOK'
    <2> SUFFICES ASSUME NEW d \in Clients, d # c PROVE Shape(d)'
      BY DEF CallOK
    <2> /\ call'[d] = call[d]
        /\ \A e \in Clients : call'[e].pc = "prefetch" => call'[e] = call[e]
      BY DEF ShapeInv, TypeOK
    <2> QED
      BY DEF ShapeInv, CallOK, Shape, InRange
  <1>3. SlotOK' /\ TicketOK'
    BY DEF ShapeInv, SlotOK, TicketOK
  <1>4. FinOK'
    BY DEF ShapeInv, FinOK, TypeOK
  <1> QED
    BY <1>1, <1>2, <1>3, <1>4 DEF ShapeInv

\* A client that goes idle, returns or drains keeps the invariant.
LEMMA RestShape ==
  ASSUME ShapeInv, NEW c \in Clients, NEW k \in CallRecord, CallStep(c, k),
         k.pc \in {"idle", "returned", "drain"}, fin[c].pc = "idle"
  PROVE  ShapeInv'
  <1> Shape(c)'
    BY DEF Shape, CallStep, ShapeInv, TypeOK
  <1> QED
    BY CallStepShape

\* The steps of drain, of a refused invalidate, of returning, and of rejected or unwound resolve_into
\* calls keep the invariant.
LEMMA QuietSteps ==
  ASSUME ShapeInv, NEW c \in Clients,
         \/ ResolveOutOfRange(c) \/ Unwound(c) \/ InvalidateRefused(c) \/ CallDrain(c)
         \/ DrainTests(c) \/ DrainTimesOut(c) \/ Return(c)
  PROVE  ShapeInv'
  <1> USE DEF ShapeInv
  <1>0. call[c] \in CallRecord /\ call[c].status \in Statuses /\ (call[c].pc # "finish" => fin[c].pc = "idle")
        /\ lock \in Clients \cup {NoThread} /\ sleeping \subseteq Threads
    BY DEF TypeOK, FinOK, CallRecord
  <1>1. CASE ResolveOutOfRange(c)
    <2>1. Ended(c, "out_of_range") \in CallRecord /\ Ended(c, "out_of_range").pc = "returned"
      BY EndedFacts DEF Statuses
    <2> QED
      BY <1>0, <1>1, <2>1, RestShape DEF ResolveOutOfRange, CallStep
  <1>2. CASE Unwound(c)
    BY <1>0, <1>2, EndedFacts, RestShape DEF Unwound, CallStep
  <1>3. CASE InvalidateRefused(c)
    <2> PICK status \in {"invalid_argument", "busy"} :
          call' = [call EXCEPT ![c] = [Begin("invalidate", "returned") EXCEPT !.status = status]]
      BY <1>3 DEF InvalidateRefused
    <2> DEFINE k == [Begin("invalidate", "returned") EXCEPT !.status = status]
    <2>1. k \in CallRecord /\ k.pc = "returned"
      <3>1. Begin("invalidate", "returned") \in CallRecord /\ Begin("invalidate", "returned").pc = "returned"
        BY BeginFacts
      <3>2. status \in Statuses
        BY DEF Statuses
      <3> QED
        BY <3>1, <3>2, FieldFacts
    <2>2. CallStep(c, k)
      BY <1>0, <1>3 DEF InvalidateRefused, CallStep
    <2> HIDE DEF k
    <2> QED
      BY <1>0, <1>3, <2>1, <2>2, RestShape DEF InvalidateRefused, MayCall
  <1>4. CASE CallDrain(c)
    <2> PICK timed \in BOOLEAN :
          call' = [call EXCEPT ![c] = [Begin("drain", "drain") EXCEPT !.timed = timed]]
      BY <1>4 DEF CallDrain
    <2> DEFINE k == [Begin("drain", "drain") EXCEPT !.timed = timed]
    <2>1. k \in CallRecord /\ k.pc = "drain"
      <3>1. Begin("drain", "drain") \in CallRecord /\ Begin("drain", "drain").pc = "drain"
        BY BeginFacts
      <3> QED
        BY <3>1, FieldFacts DEF Statuses
    <2>2. CallStep(c, k)
      BY <1>0, <1>4 DEF CallDrain, CallStep
    <2> HIDE DEF k
    <2> QED
      BY <1>0, <1>4, <2>1, <2>2, RestShape DEF CallDrain, MayCall
  <1>5. CASE DrainTests(c)
    <2>1. CASE Drained
      <3>1. Ended(c, "ok") \in CallRecord /\ Ended(c, "ok").pc = "returned"
        BY EndedFacts DEF Statuses
      <3> QED
        BY <1>0, <1>5, <2>1, <3>1, RestShape DEF DrainTests, CallStep
    <2>2. CASE ~Drained
      <3>1. CallStep(c, call[c])
        BY <1>0, <1>5, <2>2 DEF DrainTests, CallStep, TypeOK, Threads
      <3> QED
        BY <1>0, <1>5, <3>1, RestShape DEF DrainTests
    <2> QED
      BY <2>1, <2>2
  <1>6. CASE DrainTimesOut(c)
    <2>1. Ended(c, "timeout") \in CallRecord /\ Ended(c, "timeout").pc = "returned"
      BY EndedFacts DEF Statuses
    <2> QED
      BY <1>0, <1>6, <2>1, RestShape DEF DrainTimesOut, CallStep
  <1>7. CASE Return(c)
    <2>1. Idle.pc = "idle"
      BY DEF Idle
    <2> QED
      BY <1>0, <1>7, <2>1, RecordFacts, RestShape DEF Return, CallStep
  <1> QED
    BY <1>1, <1>2, <1>3, <1>4, <1>5, <1>6, <1>7

\* Counting one entry keeps the tally's type.
LEMMA TallyFacts ==
  ASSUME NEW t \in [filled : Nat, failed : Nat, pending : Nat, evicted : Nat],
         NEW kind \in {"filled", "failed", "pending", "evicted"}
  PROVE  [t EXCEPT ![kind] = @ + 1] \in [filled : Nat, failed : Nat, pending : Nat, evicted : Nat]
  OBVIOUS

\* The call after its last entry has returned.
LEMMA LastFacts ==
  ASSUME NEW k \in CallRecord
  PROVE  /\ [k EXCEPT !.pc = "returned", !.i = 1, !.timed = FALSE] \in CallRecord
         /\ [k EXCEPT !.pc = "returned", !.i = 1, !.timed = FALSE].pc = "returned"
  BY DEF CallRecord

\* wait's move to its next entry keeps the invariant.
LEMMA CountShape ==
  ASSUME ShapeInv, NEW c \in Clients, call[c].op = "wait", call[c].pc \in {"drive", "finish", "blocked"},
         fin[c].pc = "idle",
         NEW kind \in {"filled", "failed", "pending", "evicted"}, NEW status \in Statuses,
         Count(c, kind, status), UNCHANGED <<lock, tableVars, out, fin, sysVars>>,
         sleeping' \subseteq Threads
  PROVE  ShapeInv'
  <1> DEFINE t == [call[c].tally EXCEPT ![kind] = @ + 1]
             k0 == [call[c] EXCEPT !.tally = t, !.status = status]
             last == call[c].i = tickets[call[c].rec].count
             k == IF last THEN [k0 EXCEPT !.pc = "returned", !.i = 1, !.timed = FALSE]
                  ELSE [k0 EXCEPT !.pc = "drive", !.i = @ + 1]
  <1>0. call[c] \in CallRecord /\ lock \in Clients \cup {NoThread} /\ Shape(c)
    BY DEF ShapeInv, TypeOK, CallOK
  <1>1. /\ k0 \in CallRecord
        /\ k0.op = "wait" /\ k0.rec = call[c].rec /\ k0.i = call[c].i
    <2>1. t \in [filled : Nat, failed : Nat, pending : Nat, evicted : Nat]
      BY <1>0, TallyFacts DEF CallRecord
    <2> HIDE DEF t, last, k
    <2> DEFINE b == call[c]
    <2>2. b \in CallRecord /\ b.op = "wait" /\ b.rec = call[c].rec /\ b.i = call[c].i
      BY <1>0
    <2>3. k0 = [b EXCEPT !.tally = t, !.status = status]
      OBVIOUS
    <2> HIDE DEF b, k0
    <2> QED
      BY <2>1, <2>2, <2>3 DEF CallRecord
  <1> HIDE DEF k0
  <1>2. /\ k \in CallRecord
        /\ last => k.pc = "returned"
        /\ ~last => k.pc = "drive" /\ k.i = call[c].i + 1 /\ k.op = "wait" /\ k.rec = call[c].rec
    <2>1. k0.i + 1 \in Nat
      BY <1>1 DEF CallRecord
    <2> DEFINE n == k0.i + 1
    <2>2. k = IF last THEN [k0 EXCEPT !.pc = "returned", !.i = 1, !.timed = FALSE]
              ELSE [k0 EXCEPT !.pc = "drive", !.i = n]
      OBVIOUS
    <2>3. n \in Nat /\ n = call[c].i + 1
      BY <1>1, <2>1
    <2> HIDE DEF n, k
    <2>4. CASE last
      BY <1>1, <2>2, <2>4, LastFacts
    <2>5. CASE ~last
      <3>1. k = [k0 EXCEPT !.pc = "drive", !.i = n]
        BY <2>2, <2>5
      <3>2. k \in CallRecord /\ k.pc = "drive" /\ k.i = n /\ k.op = k0.op /\ k.rec = k0.rec
        BY <1>1, <2>3, <3>1 DEF CallRecord
      <3> QED
        BY <1>1, <2>3, <2>5, <3>2
    <2> QED
      BY <2>4, <2>5
  <1>3. CallStep(c, k)
    BY <1>0 DEF CallStep, Count, k0
  <1> HIDE DEF k
  <1>4. call'[c] = k /\ UNCHANGED tickets
    BY <1>3 DEF CallStep, ShapeInv, TypeOK, tableVars, ticketVars
  <1>5. CASE last
    BY <1>2, <1>3, <1>5, RestShape
  <1>6. CASE ~last
    <2>1. /\ tickets[call[c].rec].count \in Nat /\ call[c].rec \in Records /\ tickets[call[c].rec].held
          /\ call[c].i \in 1 .. tickets[call[c].rec].count
          /\ \A d \in Clients : call[d].pc = "prefetch" => call[d].rec # call[c].rec
      BY <1>0 DEF Shape, ShapeInv, TypeOK
    <2>0. \A d \in Clients : call'[d].pc = "prefetch" => call'[d].rec = call[d].rec /\ call[d].pc = "prefetch"
      BY <1>2, <1>3, <1>6 DEF CallStep, ShapeInv, TypeOK
    <2>2. call[c].i + 1 \in 1 .. tickets[call[c].rec].count
      BY <1>6, <2>1
    <2>3. Shape(c)'
      BY <1>2, <1>4, <1>6, <2>0, <2>1, <2>2 DEF Shape
    <2> QED
      BY <1>2, <1>3, <1>6, <2>3, CallStepShape
  <1> QED
    BY <1>5, <1>6

\* The slot that resolve_into or wait is looking at is a slot of the table.
LEMMA TargetFacts ==
  ASSUME ShapeInv, NEW c \in Clients, call[c].pc \in {"drive", "finish", "blocked"}
  PROVE  /\ Target(c).slot \in Slots \cup {NONE}
         /\ call[c].pc # "drive" \/ call[c].op = "resolve" => Target(c).slot \in Slots
         /\ Target(c).epoch \in Words
  <1>1. CASE call[c].op = "resolve"
    <2>0. /\ Len(call[c].rows) \in 1 .. MaxBatch
          /\ call[c].i \in 1 .. Len(call[c].rows)
          /\ \A j \in 1 .. Len(call[c].rows) : out[c][j].slot # NONE
      BY <1>1 DEF ShapeInv, CallOK, Shape
    <2>1. call[c].i \in Positions /\ out[c][call[c].i].slot # NONE
      BY <2>0, ConstantFacts DEF Positions
    <2>2. out[c][call[c].i] \in LeaseRecord
      BY <2>1 DEF ShapeInv, TypeOK
    <2> QED
      BY <1>1, <2>1, <2>2 DEF Target, LeaseRecord
  <1>2. CASE call[c].op # "resolve"
    <2>1. /\ call[c].rec \in Records
          /\ call[c].i \in 1 .. tickets[call[c].rec].count
          /\ tickets[call[c].rec].count \in 1 .. MaxBatch
          /\ call[c].pc # "drive" => waiters[call[c].rec][call[c].i].slot # NONE
      BY <1>2 DEF ShapeInv, CallOK, Shape, TicketOK
    <2>2. call[c].i \in Positions
      BY <2>1, ConstantFacts DEF Positions
    <2>3. waiters[call[c].rec][call[c].i] \in WaiterRecord
      BY <2>1, <2>2 DEF ShapeInv, TypeOK
    <2> QED
      BY <1>2, <2>1, <2>3 DEF Target, WaiterRecord
  <1> QED
    BY <1>1, <1>2

\* The steps of wait that count an entry keep the invariant.
LEMMA WaitSteps ==
  ASSUME ShapeInv, NEW c \in Clients, SkipEntry(c) \/ SettleEntry(c) \/ TimeoutEntry(c)
  PROVE  ShapeInv'
  <1>0. /\ call[c].pc # "finish" => fin[c].pc = "idle"
        /\ call[c].status \in Statuses
        /\ \A s \in Slots : slots[s].failure \in Statuses
        /\ sleeping \subseteq Threads
    BY DEF ShapeInv, FinOK, TypeOK, CallRecord, SlotRecord
  <1>1. CASE SkipEntry(c)
    BY <1>0, <1>1, CountShape DEF SkipEntry
  <1>2. CASE SettleEntry(c)
    <2>1. call[c].op = "wait" /\ call[c].pc \in {"drive", "finish", "blocked"} /\ fin[c].pc = "idle"
      BY <1>0, <1>2 DEF SettleEntry, Settles
    <2>2. call[c].pc # "drive" => Target(c).slot \in Slots
      BY <2>1, TargetFacts
    <2>4. Target(c).slot \in Slots
      BY <1>2, <2>1, <2>2, TargetFacts DEF SettleEntry, Settles
    <2>3. \E kind \in {"filled", "failed", "pending", "evicted"}, status \in Statuses :
            Count(c, kind, status)
      BY <1>0, <1>2, <2>4 DEF SettleEntry, Statuses
    <2> QED
      BY <1>0, <1>2, <2>1, <2>3, CountShape DEF SettleEntry
  <1>3. CASE TimeoutEntry(c)
    <2>1. "timeout" \in Statuses /\ sleeping' \subseteq Threads
      BY <1>0, <1>3 DEF Statuses, TimeoutEntry
    <2> QED
      BY <1>0, <1>3, <2>1, CountShape DEF TimeoutEntry, sysVars
  <1> QED
    BY <1>1, <1>2, <1>3

\* A batch that passes the argument checks has between one row and max_batch_rows rows.
LEMMA ArgumentFacts ==
  ASSUME NEW rows \in Requests
  PROVE  /\ ArgumentError(rows) \in Statuses
         /\ ArgumentError(rows) = "ok" =>
              Len(rows) \in 1 .. MaxBatch /\ Len(rows) \in Nat /\ 1 \in 1 .. Len(rows)
  BY ConstantFacts, EmptySeq DEF ArgumentError, Statuses

\* Incrementing an epoch or a ticket generation stays within its word.
LEMMA WordFacts ==
  ASSUME NEW e \in Words
  PROVE  (e + 1) % WordModulus \in Words
  BY ConstantFacts DEF Words

\* Entering resolve_into keeps the invariant.
LEMMA CallResolveStep ==
  ASSUME ShapeInv, NEW c \in Clients, CallResolve(c)
  PROVE  ShapeInv'
  <1>0. /\ fin[c].pc = "idle" /\ lock \in Clients \cup {NoThread} /\ sleeping \subseteq Threads
        /\ call \in [Clients -> CallRecord]
    BY DEF ShapeInv, FinOK, TypeOK, CallResolve, MayCall
  <1> PICK rows \in Requests :
        LET b == [Begin("resolve", "reset") EXCEPT !.rows = rows] IN
        call' = [call EXCEPT ![c] =
                   IF ArgumentError(rows) = "ok" THEN b
                   ELSE [b EXCEPT !.pc = "returned", !.status = ArgumentError(rows)]]
    BY DEF CallResolve
  <1> DEFINE b0 == Begin("resolve", "reset")
             b == [b0 EXCEPT !.rows = rows]
             e == ArgumentError(rows)
             k == IF e = "ok" THEN b ELSE [b EXCEPT !.pc = "returned", !.status = e]
  <1>1. b0 \in CallRecord /\ b0.pc = "reset" /\ b0.op = "resolve" /\ b0.i = 1
    BY BeginFacts DEF ShapeInv
  <1>2. CallStep(c, k)
    BY <1>0 DEF CallStep, CallResolve
  <1>3. e \in Statuses /\ (e = "ok" => Len(rows) \in 1 .. MaxBatch /\ Len(rows) \in Nat /\ 1 \in 1 .. Len(rows))
    BY ArgumentFacts
  <1> HIDE DEF b0, e
  <1>4. b \in CallRecord /\ b.pc = "reset" /\ b.op = "resolve" /\ b.i = 1 /\ b.rows = rows
    BY <1>1 DEF CallRecord
  <1> HIDE DEF b
  <1>5. CASE e = "ok"
    <2>0. call'[c] = b
      BY <1>0, <1>2, <1>5 DEF CallStep
    <2>1. Shape(c)'
      <3>1. Len(b.rows) \in 1 .. MaxBatch /\ b.i \in 1 .. Len(b.rows)
        BY <1>3, <1>4, <1>5
      <3> QED
        BY <1>4, <2>0, <3>1 DEF Shape
    <2>2. k \in CallRecord /\ k.pc = "reset"
      BY <1>4, <1>5
    <2> QED
      BY <1>0, <1>2, <2>1, <2>2, CallStepShape
  <1>6. CASE e # "ok"
    <2>1. k \in CallRecord /\ k.pc = "returned"
      BY <1>3, <1>4, <1>6 DEF CallRecord
    <2> QED
      BY <1>0, <1>2, <2>1, RestShape
  <1> QED
    BY <1>5, <1>6

\* Moving a call to another place keeps the rest of it.
LEMMA PcFacts ==
  ASSUME NEW k \in CallRecord, NEW pc \in {"admit", "blocked", "finish"}
  PROVE  /\ [k EXCEPT !.pc = pc] \in CallRecord
         /\ [k EXCEPT !.pc = pc].pc = pc /\ [k EXCEPT !.pc = pc].op = k.op
         /\ [k EXCEPT !.pc = pc].rows = k.rows /\ [k EXCEPT !.pc = pc].i = k.i
         /\ [k EXCEPT !.pc = pc].rec = k.rec
  BY DEF CallRecord

\* A call that gives up on its batch keeps its type, its operation and its rows.
LEMMA UnwindFacts ==
  ASSUME NEW k \in CallRecord, NEW status \in Statuses
  PROVE  /\ [k EXCEPT !.pc = "unwind", !.status = status] \in CallRecord
         /\ [k EXCEPT !.pc = "unwind", !.status = status].pc = "unwind"
         /\ [k EXCEPT !.pc = "unwind", !.status = status].op = k.op
         /\ [k EXCEPT !.pc = "unwind", !.status = status].rows = k.rows
  BY DEF CallRecord

\* Entering phase A, with every old lease released, keeps the invariant.
LEMMA LockStep ==
  ASSUME ShapeInv, NEW c \in Clients, LockResolve(c)
  PROVE  ShapeInv'
  <1> DEFINE k == [call[c] EXCEPT !.pc = "admit"]
  <1>0. /\ fin[c].pc = "idle" /\ sleeping \subseteq Threads /\ call[c] \in CallRecord
        /\ call \in [Clients -> CallRecord] /\ Shape(c)
    BY DEF ShapeInv, FinOK, TypeOK, CallOK, LockResolve
  <1>1. CallStep(c, k)
    BY <1>0 DEF CallStep, LockResolve
  <1>2. /\ k \in CallRecord /\ k.pc = "admit" /\ k.op = call[c].op /\ k.rows = call[c].rows
        /\ k.i = call[c].i
    BY <1>0, PcFacts
  <1> HIDE DEF k
  <1>3. /\ Len(k.rows) \in 1 .. MaxBatch /\ k.op = "resolve" /\ k.i = 1 /\ InRange(k.rows)
        /\ \A j \in 1 .. Len(k.rows) : out[c][j].slot = NONE
    BY <1>0, <1>2 DEF Shape, LockResolve, HeldOut
  <1>4. call'[c] = k /\ UNCHANGED out
    BY <1>0, <1>1 DEF CallStep
  <1>5. Shape(c)'
    BY <1>2, <1>3, <1>4, ConstantFacts DEF Shape, InRange
  <1> QED
    BY <1>0, <1>1, <1>2, <1>5, CallStepShape

\* Giving up for want of a victim keeps the invariant.
LEMMA ExhaustedStep ==
  ASSUME ShapeInv, NEW c \in Clients, AdmitExhausted(c)
  PROVE  ShapeInv'
  <1> DEFINE k == [call[c] EXCEPT !.pc = "unwind", !.status = "pool_exhausted"]
  <1>0. /\ fin[c].pc = "idle" /\ sleeping \subseteq Threads /\ call[c] \in CallRecord
        /\ call \in [Clients -> CallRecord] /\ Shape(c)
    BY DEF ShapeInv, FinOK, TypeOK, CallOK, AdmitExhausted
  <1>1. CallStep(c, k)
    BY <1>0 DEF CallStep, AdmitExhausted, AdmitFails
  <1>2. /\ k \in CallRecord /\ k.pc = "unwind" /\ k.op = call[c].op /\ k.rows = call[c].rows
    BY <1>0, UnwindFacts DEF Statuses
  <1> HIDE DEF k
  <1>3. call'[c] = k
    BY <1>0, <1>1 DEF CallStep
  <1>4. Shape(c)'
    BY <1>0, <1>2, <1>3 DEF Shape, AdmitExhausted
  <1> QED
    BY <1>0, <1>1, <1>2, <1>4, CallStepShape

\* Falling asleep on another thread's fill keeps the invariant.
LEMMA AwaitStep ==
  ASSUME ShapeInv, NEW c \in Clients, AwaitFill(c)
  PROVE  ShapeInv'
  <1> DEFINE k == [call[c] EXCEPT !.pc = "blocked"]
  <1>0. /\ fin[c].pc = "idle" /\ sleeping \subseteq Threads /\ call[c] \in CallRecord
        /\ call \in [Clients -> CallRecord] /\ Shape(c) /\ lock \in Clients \cup {NoThread}
    BY DEF ShapeInv, FinOK, TypeOK, CallOK, AwaitFill
  <1>1. CallStep(c, k)
    BY <1>0 DEF CallStep, AwaitFill, Threads
  <1>2. /\ k \in CallRecord /\ k.pc = "blocked" /\ k.op = call[c].op /\ k.rows = call[c].rows
        /\ k.i = call[c].i /\ k.rec = call[c].rec
    BY <1>0, PcFacts
  <1> HIDE DEF k
  <1>3. call'[c] = k /\ UNCHANGED <<out, tickets, waiters>>
    BY <1>0, <1>1 DEF CallStep, tableVars, ticketVars
  <1>4. \A d \in Clients : call'[d].pc = "prefetch" => call'[d] = call[d]
    BY <1>0, <1>1, <1>2 DEF CallStep
  <1>5. call[c].op = "wait" => waiters[call[c].rec][call[c].i].slot # NONE
    BY <1>0 DEF AwaitFill, Shape, Target
  <1>6. Shape(c)'
    BY <1>0, <1>2, <1>3, <1>4, <1>5 DEF Shape, AwaitFill
  <1> QED
    BY <1>0, <1>1, <1>2, <1>6, CallStepShape

\* Entering wait keeps the invariant: the ticket waited on is held and complete.
LEMMA CallWaitStep ==
  ASSUME ShapeInv, NEW c \in Clients, CallWait(c)
  PROVE  ShapeInv'
  <1>0. /\ fin[c].pc = "idle" /\ lock \in Clients \cup {NoThread} /\ sleeping \subseteq Threads
        /\ call \in [Clients -> CallRecord] /\ call[c].pc = "idle"
    BY DEF ShapeInv, FinOK, TypeOK, CallWait, MayCall
  <1> PICK d \in Clients, timed \in BOOLEAN :
        /\ call[d].pc # "prefetch"
        /\ call' = [call EXCEPT ![c] =
                      IF tick[d].record = 0
                      THEN [Begin("wait", "returned") EXCEPT !.status = "invalid_argument"]
                      ELSE [Begin("wait", "drive") EXCEPT !.rec = tick[d].record, !.timed = timed]]
    BY DEF CallWait
  <1>1. CASE tick[d].record = 0
    <2> DEFINE b == Begin("wait", "returned")
               k == [b EXCEPT !.status = "invalid_argument"]
    <2>1. b \in CallRecord /\ b.pc = "returned"
      BY BeginFacts DEF ShapeInv
    <2>2. CallStep(c, k)
      BY <1>0, <1>1 DEF CallStep, CallWait
    <2> HIDE DEF b
    <2>3. k \in CallRecord /\ k.pc = "returned"
      BY <2>1, FieldFacts DEF Statuses
    <2> HIDE DEF k
    <2> QED
      BY <1>0, <2>2, <2>3, RestShape
  <1>2. CASE tick[d].record # 0
    <2> DEFINE n == tick[d].record
               b == Begin("wait", "drive")
               k == [b EXCEPT !.rec = n, !.timed = timed]
    <2>1. b \in CallRecord /\ b.pc = "drive" /\ b.op = "wait" /\ b.i = 1
      BY BeginFacts DEF ShapeInv
    <2>2. CallStep(c, k)
      BY <1>0, <1>2 DEF CallStep, CallWait
    <2>3. n \in Records /\ tickets[n].held /\ tickets[n].count \in 1 .. MaxBatch
      BY <1>2 DEF ShapeInv, TypeOK, TicketOK
    <2>4. \A e \in Clients : call[e].pc = "prefetch" => call[e].rec # n
      BY <1>2 DEF ShapeInv, CallOK, Shape, TicketOK
    <2> HIDE DEF b, n
    <2>5. k \in CallRecord /\ k.pc = "drive" /\ k.op = "wait" /\ k.i = 1 /\ k.rec = n
      BY <2>1, <2>3 DEF CallRecord
    <2> HIDE DEF k
    <2>6. call'[c] = k /\ \A e \in Clients : call'[e].pc = "prefetch" => call'[e] = call[e]
      BY <1>0, <2>2, <2>5 DEF CallStep
    <2>7. UNCHANGED tickets /\ 1 \in 1 .. tickets[n].count
      BY <2>2, <2>3, ConstantFacts DEF CallStep, tableVars, ticketVars
    <2>8. Shape(c)'
      <3>1. /\ call'[c].pc = "drive" /\ call'[c].op = "wait" /\ call'[c].i = 1 /\ call'[c].rec = n
            /\ \A e \in Clients : call'[e].pc = "prefetch" => call'[e].rec # n
        BY <2>4, <2>5, <2>6
      <3> QED
        BY <2>3, <2>7, <3>1 DEF Shape
    <2> QED
      BY <1>0, <2>2, <2>5, <2>8, CallStepShape
  <1> QED
    BY <1>1, <1>2

\* A call keeps its shape when its own call, leases and ticket, and the held records, are unchanged.
LEMMA OtherShape ==
  ASSUME ShapeInv, NEW c \in Clients, NEW d \in Clients, d # c, UNCHANGED <<tickets, waiters>>,
         call'[d] = call[d], out'[d] = out[d], tick'[d] = tick[d],
         \A e \in Clients : call'[e].pc = "prefetch" => call[e].pc = "prefetch" /\ call'[e].rec = call[e].rec
  PROVE  Shape(d)'
  BY DEF ShapeInv, CallOK, Shape, InRange

-----------------------------------------------------------------------------

\* A step leaves slot s its key, its state and its place in the index.
SameSlot(s) ==
    /\ slots'[s].row = slots[s].row /\ slots'[s].gen = slots[s].gen
    /\ slots'[s].epoch = slots[s].epoch /\ slots'[s].state = slots[s].state
    /\ slots'[s].indexed = slots[s].indexed /\ slots'[s].binding = slots[s].binding
    /\ slots'[s].scratch = slots[s].scratch

\* Changing a slot's pins and reference bit keeps the rest of it.
LEMMA PinFacts ==
  ASSUME NEW r \in SlotRecord, NEW n \in Nat, NEW b \in BOOLEAN
  PROVE  LET q == [r EXCEPT !.pins = n, !.referenced = b] IN
         /\ q \in SlotRecord /\ q.pins = n
         /\ q.row = r.row /\ q.gen = r.gen /\ q.epoch = r.epoch /\ q.state = r.state
         /\ q.indexed = r.indexed /\ q.binding = r.binding /\ q.scratch = r.scratch
         /\ q.finishing = r.finishing
  BY DEF SlotRecord

\* Pinning a slot keeps the parts of the invariant about slots, finishers and tickets.
LEMMA PinEffect ==
  ASSUME slots \in [Slots -> SlotRecord], NEW s \in Slots,
         slots' = [slots EXCEPT ![s].pins = @ + 1, ![s].referenced = TRUE]
  PROVE  /\ slots' \in [Slots -> SlotRecord]
         /\ slots'[s].pins = slots[s].pins + 1
         /\ \A z \in Slots \ {s} : slots'[z] = slots[z]
         /\ \A z \in Slots : SameSlot(z) /\ slots'[z].finishing = slots[z].finishing
  <1> DEFINE r == slots[s]
             n == r.pins + 1
             q == [r EXCEPT !.pins = n, !.referenced = TRUE]
  <1>1. slots' = [slots EXCEPT ![s] = q]
    OBVIOUS
  <1>2. r \in SlotRecord
    OBVIOUS
  <1>3. n \in Nat
    BY <1>2 DEF SlotRecord
  <1> HIDE DEF n
  <1>4. /\ q \in SlotRecord /\ q.pins = n
        /\ q.row = r.row /\ q.gen = r.gen /\ q.epoch = r.epoch /\ q.state = r.state
        /\ q.indexed = r.indexed /\ q.binding = r.binding /\ q.scratch = r.scratch
        /\ q.finishing = r.finishing
    BY <1>2, <1>3, PinFacts
  <1> HIDE DEF q
  <1>5. slots' \in [Slots -> SlotRecord] /\ slots'[s] = q /\ \A z \in Slots \ {s} : slots'[z] = slots[z]
    BY <1>1, <1>4
  <1> QED
    BY <1>4, <1>5 DEF SameSlot, n

\* So does releasing one pin of a pinned slot.
LEMMA UnpinEffect ==
  ASSUME slots \in [Slots -> SlotRecord], NEW s \in Slots, slots[s].pins # 0,
         slots' = [slots EXCEPT ![s].pins = @ - 1]
  PROVE  /\ slots' \in [Slots -> SlotRecord]
         /\ slots'[s].pins = slots[s].pins - 1
         /\ \A z \in Slots \ {s} : slots'[z] = slots[z]
         /\ \A z \in Slots : SameSlot(z) /\ slots'[z].finishing = slots[z].finishing
  <1> DEFINE r == slots[s]
             n == r.pins - 1
             q == [r EXCEPT !.pins = n]
  <1>1. slots' = [slots EXCEPT ![s] = q]
    OBVIOUS
  <1>2. r \in SlotRecord
    OBVIOUS
  <1>3. n \in Nat
    BY <1>2 DEF SlotRecord
  <1> HIDE DEF n
  <1>4. /\ q \in SlotRecord /\ q.pins = n
        /\ q.row = r.row /\ q.gen = r.gen /\ q.epoch = r.epoch /\ q.state = r.state
        /\ q.indexed = r.indexed /\ q.binding = r.binding /\ q.scratch = r.scratch
        /\ q.finishing = r.finishing
    BY <1>2, <1>3 DEF SlotRecord
  <1> HIDE DEF q
  <1>5. slots' \in [Slots -> SlotRecord] /\ slots'[s] = q /\ \A z \in Slots \ {s} : slots'[z] = slots[z]
    BY <1>1, <1>4
  <1> QED
    BY <1>4, <1>5 DEF SameSlot, n

\* The parts about slots and finishers depend only on the slots and the finishers.
LEMMA SamePool ==
  ASSUME ShapeInv, UNCHANGED fin,
         \A s \in Slots : SameSlot(s) /\ slots'[s].finishing = slots[s].finishing,
         \A c \in Clients : fin[c].pc # "idle" => call'[c].pc = "finish"
  PROVE  SlotOK' /\ FinOK'
  BY DEF ShapeInv, SlotOK, FinOK, SameSlot

\* Writing one lease of a client keeps the type of all leases.
LEMMA OutEffect ==
  ASSUME out \in [Clients -> [Positions -> LeaseRecord]], NEW c \in Clients, NEW i \in Positions,
         NEW l \in LeaseRecord, out' = [out EXCEPT ![c][i] = l]
  PROVE  /\ out' \in [Clients -> [Positions -> LeaseRecord]]
         /\ \A d \in Clients \ {c} : out'[d] = out[d]
         /\ out'[c][i] = l
         /\ \A j \in Positions \ {i} : out'[c][j] = out[c][j]
  OBVIOUS

\* A lease built from a slot, a row, an epoch and a generation is a lease record.
LEMMA LeaseFacts ==
  ASSUME slots \in [Slots -> SlotRecord], NEW s \in Slots, NEW ready \in BOOLEAN
  PROVE  /\ LeaseOn(s, slots[s].row, slots[s].epoch, slots[s].gen, ready) \in LeaseRecord
         /\ LeaseOn(s, slots[s].row, slots[s].epoch, slots[s].gen, ready).slot = s
         /\ s # NONE
  <1> slots[s] \in SlotRecord
    OBVIOUS
  <1>1. s # NONE
    BY ConstantFacts DEF Slots, NONE
  <1>2. /\ slots[s].row \in Rows /\ slots[s].epoch \in Words /\ slots[s].gen \in Generations
    BY DEF SlotRecord
  <1> QED
    BY <1>1, <1>2 DEF LeaseOn, LeaseRecord

\* Releasing a lease, by its holder or at either end of resolve_into, keeps the invariant.
LEMMA ReleaseSteps ==
  ASSUME ShapeInv, NEW c \in Clients, Release(c) \/ ResetOut(c)
  PROVE  ShapeInv'
  <1> USE DEF fillVars, bindVars, ticketVars
  <1>0. /\ call[c].pc \in {"idle", "reset", "unwind"} /\ UNCHANGED call
        /\ slots \in [Slots -> SlotRecord] /\ out \in [Clients -> [Positions -> LeaseRecord]]
        /\ Shape(c)
    BY DEF Release, ResetOut, MayCall, ShapeInv, TypeOK, CallOK
  <1> PICK i \in Positions : ReleaseLease(c, i)
    <2>1. CASE Release(c)
      BY <2>1 DEF Release
    <2>2. CASE ResetOut(c)
      <3>1. Len(call[c].rows) \in 1 .. MaxBatch
        BY <1>0, <2>2 DEF ResetOut, Shape
      <3>2. HeldOut(c) \subseteq Positions
        BY <3>1, ConstantFacts DEF HeldOut, Positions
      <3> QED
        BY <2>2, <3>2 DEF ResetOut
    <2> QED
      BY <2>1, <2>2
  <1> DEFINE l == out[c][i]
  <1>1. l \in LeaseRecord /\ l.slot \in Slots
    <2>1. l \in LeaseRecord
      BY <1>0
    <2> QED
      BY <2>1 DEF LeaseRecord, ReleaseLease
  <1>2. /\ out' \in [Clients -> [Positions -> LeaseRecord]]
        /\ \A d \in Clients \ {c} : out'[d] = out[d]
    BY <1>0, RecordFacts, OutEffect DEF ReleaseLease
  <1>3. /\ slots' \in [Slots -> SlotRecord] /\ pinsTotal' \in Int
        /\ life' \in {"live", "stopping", "destroyed", "terminated"}
        /\ \A z \in Slots : SameSlot(z) /\ slots'[z].finishing = slots[z].finishing
    <2>0. pinsTotal \in Int /\ life \in {"live", "stopping", "destroyed", "terminated"}
      BY DEF ShapeInv, TypeOK
    <2>1. CASE slots[l.slot].epoch # l.epoch \/ slots[l.slot].pins = 0
      BY <1>0, <2>0, <2>1 DEF ReleaseLease, SameSlot
    <2>2. CASE ~(slots[l.slot].epoch # l.epoch \/ slots[l.slot].pins = 0)
      <3>1. /\ slots' = [slots EXCEPT ![l.slot].pins = @ - 1]
            /\ pinsTotal' = pinsTotal - 1 /\ UNCHANGED life
        BY <2>2 DEF ReleaseLease
      <3>2. pinsTotal' \in Int
        BY <2>0, <3>1
      <3>3. slots[l.slot].pins # 0
        BY <2>2
      <3> DEFINE s == l.slot
      <3>4. s \in Slots /\ slots[s].pins # 0 /\ slots' = [slots EXCEPT ![s].pins = @ - 1]
        BY <1>1, <3>1, <3>3
      <3> HIDE DEF l, s
      <3>5. /\ slots' \in [Slots -> SlotRecord]
            /\ \A z \in Slots : SameSlot(z) /\ slots'[z].finishing = slots[z].finishing
        BY <1>0, <3>4, UnpinEffect
      <3> QED
        BY <2>0, <3>1, <3>2, <3>5
    <2> QED
      BY <2>1, <2>2
  <1>4. TypeOK'
    BY <1>0, <1>2, <1>3 DEF ShapeInv, TypeOK, ReleaseLease
  <1>5. CallOK'
    <2>1. Shape(c)'
      BY <1>0 DEF Shape, InRange
    <2>2. \A d \in Clients \ {c} : Shape(d)'
      BY <1>0, <1>2, OtherShape DEF ReleaseLease
    <2> QED
      BY <2>1, <2>2 DEF CallOK
  <1>6. SlotOK' /\ FinOK'
    <2>1. UNCHANGED fin /\ \A d \in Clients : fin[d].pc # "idle" => call'[d].pc = "finish"
      BY <1>0 DEF ShapeInv, FinOK, ReleaseLease
    <2> QED
      BY <1>3, <2>1, SamePool
  <1>7. TicketOK'
    BY DEF ShapeInv, TicketOK, ReleaseLease
  <1> QED
    BY <1>4, <1>5, <1>6, <1>7 DEF ShapeInv

\* try_get keeps the invariant.
LEMMA TryGetStep ==
  ASSUME ShapeInv, NEW c \in Clients, TryGet(c)
  PROVE  ShapeInv'
  <1> USE DEF fillVars, bindVars, ticketVars, sysVars
  <1>0. /\ call[c].pc = "idle" /\ UNCHANGED call
        /\ slots \in [Slots -> SlotRecord] /\ out \in [Clients -> [Positions -> LeaseRecord]]
    BY DEF TryGet, MayCall, ShapeInv, TypeOK
  <1> PICK i \in Positions, s \in Slots :
        /\ slots' = [slots EXCEPT ![s].pins = @ + 1, ![s].referenced = TRUE]
        /\ out' = [out EXCEPT ![c][i] =
                     LeaseOn(s, slots[s].row, slots[s].epoch, slots[s].gen, TRUE)]
    BY DEF TryGet
  <1>1. /\ slots' \in [Slots -> SlotRecord]
        /\ \A z \in Slots : SameSlot(z) /\ slots'[z].finishing = slots[z].finishing
    BY <1>0, PinEffect
  <1>2. LeaseOn(s, slots[s].row, slots[s].epoch, slots[s].gen, TRUE) \in LeaseRecord
    BY <1>0, LeaseFacts
  <1>3. /\ out' \in [Clients -> [Positions -> LeaseRecord]]
        /\ \A d \in Clients \ {c} : out'[d] = out[d]
    BY <1>0, <1>2, OutEffect
  <1>4. TypeOK'
    <2>1. pinsTotal' \in Int
      BY DEF ShapeInv, TypeOK, TryGet
    <2> QED
      BY <1>0, <1>1, <1>3, <2>1 DEF ShapeInv, TypeOK, TryGet
  <1>5. CallOK'
    <2>1. Shape(c)'
      BY <1>0 DEF Shape
    <2>2. \A d \in Clients \ {c} : Shape(d)'
      BY <1>0, <1>3, OtherShape DEF TryGet
    <2> QED
      BY <2>1, <2>2 DEF CallOK
  <1>6. SlotOK' /\ FinOK'
    <2>1. UNCHANGED fin /\ \A d \in Clients : fin[d].pc # "idle" => call'[d].pc = "finish"
      BY <1>0 DEF ShapeInv, FinOK, TryGet
    <2> QED
      BY <1>1, <2>1, SamePool
  <1>7. TicketOK'
    BY DEF ShapeInv, TicketOK, TryGet
  <1> QED
    BY <1>4, <1>5, <1>6, <1>7 DEF ShapeInv

\* A call that has admitted one more row has the shape of phase A, or of phase B after the last row.
LEMMA AdmittedShape ==
  ASSUME ShapeInv, NEW c \in Clients, call[c].pc = "admit", Admitted(c),
         out'[c][call[c].i].slot # NONE,
         \A j \in Positions \ {call[c].i} : out'[c][j] = out[c][j]
  PROVE  /\ call' \in [Clients -> CallRecord] /\ lock' \in Clients \cup {NoThread}
         /\ Shape(c)'
         /\ \A d \in Clients \ {c} : call'[d] = call[d]
         /\ call'[c].pc # "prefetch"
  <1> DEFINE i == call[c].i
             last == i = Len(call[c].rows)
             pc == IF last THEN "drive" ELSE "admit"
             n == IF last THEN 1 ELSE i + 1
             k == [call[c] EXCEPT !.pc = pc, !.i = n]
  <1>0. call[c] \in CallRecord /\ call \in [Clients -> CallRecord] /\ Shape(c)
    BY DEF ShapeInv, TypeOK, CallOK
  <1>1. call' = [call EXCEPT ![c] = k] /\ lock' \in Clients \cup {NoThread}
    BY DEF Admitted
  <1>2. /\ Len(call[c].rows) \in 1 .. MaxBatch /\ i \in 1 .. Len(call[c].rows)
        /\ call[c].op = "resolve" /\ InRange(call[c].rows)
        /\ \A j \in 1 .. Len(call[c].rows) : out[c][j].slot = NONE <=> j >= i
    BY <1>0 DEF Shape
  <1>3. n \in 1 .. Len(call[c].rows) /\ n \in Nat /\ 1 .. Len(call[c].rows) \subseteq Positions
    BY <1>2, ConstantFacts DEF Positions
  <1>4. /\ last => \A j \in 1 .. Len(call[c].rows) : out'[c][j].slot # NONE
        /\ ~last => \A j \in 1 .. Len(call[c].rows) : out'[c][j].slot = NONE <=> j >= n
    <2>1. i \in Nat /\ Len(call[c].rows) \in Nat /\ \A j \in 1 .. Len(call[c].rows) : j \in Nat /\ j \in Positions
      BY <1>2, <1>3, ConstantFacts
    <2>2. \A j \in 1 .. Len(call[c].rows) : out'[c][j].slot = NONE <=> j > i
      BY <1>2, <2>1
    <2> QED
      BY <1>2, <2>1, <2>2
  <1> HIDE DEF n
  <1>5. pc \in {"drive", "admit"} /\ (last <=> pc = "drive")
    OBVIOUS
  <1> HIDE DEF pc, last
  <1>6. /\ k \in CallRecord /\ k.pc = pc /\ k.i = n /\ k.op = call[c].op /\ k.rows = call[c].rows
    BY <1>0, <1>3, <1>5 DEF CallRecord
  <1> HIDE DEF k
  <1>7. /\ call' \in [Clients -> CallRecord] /\ call'[c] = k
        /\ \A d \in Clients \ {c} : call'[d] = call[d]
    BY <1>0, <1>1, <1>6
  <1>8. Shape(c)'
    BY <1>2, <1>3, <1>4, <1>5, <1>6, <1>7 DEF Shape, InRange
  <1> QED
    BY <1>1, <1>5, <1>6, <1>7, <1>8

\* Admitting a row that is resident or filling keeps the invariant.
LEMMA AdmitHitStep ==
  ASSUME ShapeInv, NEW c \in Clients, AdmitHit(c)
  PROVE  ShapeInv'
  <1> USE DEF fillVars, bindVars, ticketVars, sysVars
  <1> DEFINE i == call[c].i
  <1>0. /\ call[c].pc = "admit" /\ fin[c].pc = "idle" /\ i \in Positions /\ Admitted(c)
        /\ slots \in [Slots -> SlotRecord] /\ out \in [Clients -> [Positions -> LeaseRecord]]
    <2>1. /\ call[c].pc = "admit" /\ fin[c].pc = "idle" /\ Admitted(c)
          /\ slots \in [Slots -> SlotRecord] /\ out \in [Clients -> [Positions -> LeaseRecord]]
      BY DEF AdmitHit, ShapeInv, TypeOK, FinOK
    <2>2. Len(call[c].rows) \in 1 .. MaxBatch /\ i \in 1 .. Len(call[c].rows)
      BY <2>1 DEF ShapeInv, CallOK, Shape
    <2> QED
      BY <2>1, <2>2, ConstantFacts DEF Positions
  <1> PICK s \in Slots :
        /\ slots' = [slots EXCEPT ![s].pins = @ + 1, ![s].referenced = TRUE]
        /\ out' = [out EXCEPT ![c][i] =
                     LeaseOn(s, slots[s].row, slots[s].epoch, slots[s].gen, FALSE)]
    BY DEF AdmitHit
  <1>1. /\ slots' \in [Slots -> SlotRecord]
        /\ \A z \in Slots : SameSlot(z) /\ slots'[z].finishing = slots[z].finishing
    BY <1>0, PinEffect
  <1> DEFINE l == LeaseOn(s, slots[s].row, slots[s].epoch, slots[s].gen, FALSE)
  <1>2. l \in LeaseRecord /\ l.slot # NONE
    BY <1>0, LeaseFacts
  <1> HIDE DEF l, i
  <1>3. /\ out' \in [Clients -> [Positions -> LeaseRecord]]
        /\ \A d \in Clients \ {c} : out'[d] = out[d]
        /\ out'[c][i] = l
        /\ \A j \in Positions \ {i} : out'[c][j] = out[c][j]
    BY <1>0, <1>2, OutEffect DEF l
  <1>4. /\ call' \in [Clients -> CallRecord] /\ lock' \in Clients \cup {NoThread}
        /\ Shape(c)'
        /\ \A d \in Clients \ {c} : call'[d] = call[d]
        /\ call'[c].pc # "prefetch"
    BY <1>0, <1>2, <1>3, AdmittedShape DEF i
  <1>5. TypeOK'
    <2>1. pinsTotal' \in Int
      BY DEF ShapeInv, TypeOK, AdmitHit
    <2> QED
      BY <1>0, <1>1, <1>3, <1>4, <2>1 DEF ShapeInv, TypeOK, AdmitHit
  <1>6. CallOK'
    <2>0. /\ UNCHANGED <<tickets, waiters, tick>>
          /\ \A e \in Clients : call'[e].pc = "prefetch" => call'[e] = call[e]
      BY <1>4 DEF AdmitHit
    <2>1. \A d \in Clients \ {c} : Shape(d)'
      BY <1>3, <1>4, <2>0, OtherShape
    <2> QED
      BY <1>4, <2>1 DEF CallOK
  <1>7. SlotOK' /\ FinOK'
    <2>1. UNCHANGED fin /\ \A d \in Clients : fin[d].pc # "idle" => call'[d].pc = "finish"
      BY <1>0, <1>4 DEF ShapeInv, FinOK, AdmitHit
    <2> QED
      BY <1>1, <2>1, SamePool
  <1>8. TicketOK'
    BY DEF ShapeInv, TicketOK, AdmitHit
  <1> QED
    BY <1>5, <1>6, <1>7, <1>8 DEF ShapeInv

\* Publishing a lease as ready keeps its type and its slot.
LEMMA ReadyFacts ==
  ASSUME NEW l \in LeaseRecord
  PROVE  /\ [l EXCEPT !.ready = TRUE] \in LeaseRecord
         /\ [l EXCEPT !.ready = TRUE].slot = l.slot
         /\ [l EXCEPT !.ready = TRUE].epoch = l.epoch
         /\ [l EXCEPT !.ready = TRUE].row = l.row
         /\ [l EXCEPT !.ready = TRUE].gen = l.gen
         /\ [l EXCEPT !.ready = TRUE].ready
  BY DEF LeaseRecord

\* Reading the outcome of a row, which may give up on the batch, keeps the invariant.
LEMMA SettleRowStep ==
  ASSUME ShapeInv, NEW c \in Clients, SettleRow(c)
  PROVE  ShapeInv'
  <1> USE DEF tableVars, poolVars, fillVars, bindVars, ticketVars, sysVars
  <1> DEFINE i == call[c].i
             l == out[c][i]
             last == i = Len(call[c].rows)
  <1>0. /\ call \in [Clients -> CallRecord] /\ out \in [Clients -> [Positions -> LeaseRecord]]
        /\ call[c].pc \in {"drive", "finish", "blocked"} /\ call[c].op = "resolve"
        /\ fin[c].pc = "idle" /\ slots \in [Slots -> SlotRecord]
    BY DEF ShapeInv, TypeOK, SettleRow, Settles, FinOK
  <1>1. /\ Len(call[c].rows) \in 1 .. MaxBatch
        /\ i \in 1 .. Len(call[c].rows)
        /\ \A j \in 1 .. Len(call[c].rows) : out[c][j].slot # NONE
    BY <1>0 DEF ShapeInv, CallOK, Shape
  <1>2. i \in Positions /\ l \in LeaseRecord
    BY <1>0, <1>1, ConstantFacts DEF Positions
  <1>3. l.slot \in Slots
    BY <1>1, <1>2 DEF LeaseRecord
  <1>4. /\ call' \in [Clients -> CallRecord]
        /\ out' \in [Clients -> [Positions -> LeaseRecord]]
        /\ Shape(c)'
        /\ \A d \in Clients \ {c} : call'[d] = call[d] /\ out'[d] = out[d]
        /\ call'[c].pc # "prefetch"
    <2>1. CASE slots[l.slot].epoch = l.epoch /\ slots[l.slot].state = "ready"
      <3> DEFINE q == [l EXCEPT !.ready = TRUE]
                 n == i + 1
                 k == IF last THEN Ended(c, "ok") ELSE [call[c] EXCEPT !.pc = "drive", !.i = n]
      <3>1. out' = [out EXCEPT ![c][i] = q] /\ call' = [call EXCEPT ![c] = k]
        BY <2>1 DEF SettleRow
      <3>2. q \in LeaseRecord /\ q.slot = l.slot
        BY <1>2, ReadyFacts
      <3> HIDE DEF q
      <3>3. /\ out' \in [Clients -> [Positions -> LeaseRecord]]
            /\ \A d \in Clients \ {c} : out'[d] = out[d]
            /\ \A j \in Positions : out'[c][j].slot = out[c][j].slot
        BY <1>0, <1>2, <3>1, <3>2
      <3>4. n \in Nat /\ (~last => n \in 1 .. Len(call[c].rows))
        BY <1>1, ConstantFacts
      <3> HIDE DEF n
      <3>5. CASE last
        <4>1. k \in CallRecord /\ k.pc = "returned"
          BY <3>5, EndedFacts DEF ShapeInv, Statuses
        <4> HIDE DEF k
        <4>2. call' \in [Clients -> CallRecord] /\ call'[c] = k /\ \A d \in Clients \ {c} : call'[d] = call[d]
          BY <1>0, <3>1, <4>1
        <4> QED
          BY <3>3, <4>1, <4>2 DEF Shape
      <3>6. CASE ~last
        <4>1. /\ k \in CallRecord /\ k.pc = "drive" /\ k.i = n /\ k.op = call[c].op
              /\ k.rows = call[c].rows
          <5>1. call[c] \in CallRecord /\ k = [call[c] EXCEPT !.pc = "drive", !.i = n]
            BY <1>0, <3>6
          <5> HIDE DEF k
          <5> QED
            BY <3>4, <5>1 DEF CallRecord
        <4> HIDE DEF k
        <4>2. call' \in [Clients -> CallRecord] /\ call'[c] = k /\ \A d \in Clients \ {c} : call'[d] = call[d]
          BY <1>0, <3>1, <4>1
        <4>3. \A j \in 1 .. Len(call[c].rows) : out'[c][j].slot # NONE
          BY <1>1, <3>3, ConstantFacts DEF Positions
        <4>4. Shape(c)'
          BY <1>0, <1>1, <3>4, <3>6, <4>1, <4>2, <4>3 DEF Shape
        <4> QED
          BY <3>3, <4>1, <4>2, <4>4
      <3> QED
        BY <3>5, <3>6
    <2>2. CASE ~(slots[l.slot].epoch = l.epoch /\ slots[l.slot].state = "ready")
      <3> DEFINE st == IF slots[l.slot].epoch # l.epoch THEN "pool_exhausted" ELSE slots[l.slot].failure
                 k == [call[c] EXCEPT !.pc = "unwind", !.status = st]
      <3>1. UNCHANGED out /\ call' = [call EXCEPT ![c] = k]
        BY <2>2 DEF SettleRow
      <3>2. st \in Statuses
        BY <1>0, <1>3 DEF SlotRecord, Statuses
      <3> HIDE DEF st
      <3>3. k \in CallRecord /\ k.pc = "unwind" /\ k.op = call[c].op /\ k.rows = call[c].rows
        BY <1>0, <3>2, UnwindFacts
      <3> HIDE DEF k
      <3>4. call' \in [Clients -> CallRecord] /\ call'[c] = k /\ \A d \in Clients \ {c} : call'[d] = call[d]
        BY <1>0, <3>1, <3>3
      <3>5. Shape(c)'
        BY <1>0, <1>1, <3>3, <3>4 DEF Shape
      <3> QED
        BY <1>0, <3>1, <3>3, <3>4, <3>5
    <2> QED
      BY <2>1, <2>2
  <1>5. TypeOK'
    BY <1>4 DEF ShapeInv, TypeOK, SettleRow
  <1>6. CallOK'
    <2>1. \A d \in Clients \ {c} : Shape(d)'
      BY <1>4, OtherShape DEF SettleRow
    <2> QED
      BY <1>4, <2>1 DEF CallOK
  <1>7. SlotOK' /\ FinOK'
    <2>1. /\ UNCHANGED <<slots, fin>>
          /\ \A d \in Clients : fin[d].pc # "idle" => call'[d].pc = "finish"
      <3>1. UNCHANGED <<slots, fin>>
        BY DEF SettleRow
      <3>2. \A d \in Clients : fin[d].pc # "idle" => call[d].pc = "finish"
        BY DEF ShapeInv, FinOK
      <3> QED
        BY <1>0, <1>4, <3>1, <3>2
    <2> QED
      BY <2>1, SamePool DEF SameSlot
  <1>8. TicketOK'
    BY DEF ShapeInv, TicketOK, SettleRow
  <1> QED
    BY <1>5, <1>6, <1>7, <1>8 DEF ShapeInv

-----------------------------------------------------------------------------

\* The CLOCK hand stays on a slot.
LEMMA HandFacts ==
  ASSUME clockHand \in Slots, NEW k \in Steps
  PROVE  At(k) \in Slots /\ NextHand(k) \in Slots
  BY ConstantFacts DEF At, NextHand, Slots, Steps

\* The sweep never stops at a filling slot, and only a free slot may be taken with pins.
LEMMA VictimFacts ==
  ASSUME slots \in [Slots -> SlotRecord], clockHand \in Slots, NEW k \in Steps, ClaimsAt(k)
  PROVE  /\ slots[At(k)].state # "filling"
         /\ slots[At(k)].pins = 0 \/ slots[At(k)].state = "free"
  BY DEF ClaimsAt, Takes

\* The type of the outcomes of start_fill_locked.
Outcome == [status : Statuses, accepted : 0 .. MaxChunks, scratch : Scratches \cup {NONE}]

\* Every way start_fill_locked can end is a status, a number of reads and a scratch slot; a fill of a
\* converting table that starts has one.
LEMMA OutcomeFacts ==
  ASSUME generation \in Generations, NEW s \in Slots, NEW r \in Rows, NEW o \in FillOutcomes(s, r)
  PROVE  /\ o \in Outcome
         /\ o.status # "ok" => o.scratch = NONE
         /\ o.status = "ok" /\ Converting => o.scratch \in Scratches
         /\ Extent[generation][r].shard \in Shards
  <1> DEFINE e == Extent[generation][r]
  <1>1. e \in [status : Statuses, shard : Shards, chunks : ChunkIds]
    BY ConstantFacts
  <1>2. Reads(e) \in 1 .. MaxChunks
    BY <1>1, ConstantFacts DEF Reads, ChunkIds
  <1>3. ScratchFor \subseteq Scratches \cup {NONE} /\ (Converting => ScratchFor \subseteq Scratches)
    BY DEF ScratchFor
  <1> HIDE DEF e
  <1>4. \/ \E st \in Statuses, n \in 0 .. MaxChunks :
              st # "ok" /\ o = [status |-> st, accepted |-> n, scratch |-> NONE]
        \/ \E j \in ScratchFor : o = [status |-> "ok", accepted |-> Reads(e), scratch |-> j]
    <2>1. CASE e.status # "ok"
      BY <1>1, <2>1, ConstantFacts DEF FillOutcomes, e
    <2>2. CASE e.status = "ok" /\ ScratchFor = {}
      BY <2>2, ConstantFacts DEF FillOutcomes, e, Statuses
    <2>3. CASE e.status = "ok" /\ ScratchFor # {}
      <3>1. \/ \E n \in 0 .. Reads(e) - 1 : o = [status |-> "busy", accepted |-> n, scratch |-> NONE]
            \/ \E j \in ScratchFor : o = [status |-> "ok", accepted |-> Reads(e), scratch |-> j]
        BY <2>3 DEF FillOutcomes, e
      <3>2. 0 .. Reads(e) - 1 \subseteq 0 .. MaxChunks /\ "busy" \in Statuses
        BY <1>2, ConstantFacts DEF Statuses
      <3> QED
        BY <3>1, <3>2
    <2> QED
      BY <2>1, <2>2, <2>3
  <1>5. Reads(e) \in 0 .. MaxChunks /\ "ok" \in Statuses
    BY <1>2, ConstantFacts DEF Statuses
  <1> QED
    BY <1>1, <1>3, <1>4, <1>5 DEF Outcome, e

\* A sweep changes nothing of a slot but its reference bit.
LEMMA SweptFacts ==
  ASSUME slots \in [Slots -> SlotRecord], NEW k \in Steps
  PROVE  /\ Swept(k) \in [Slots -> SlotRecord]
         /\ \A z \in Slots :
              /\ Swept(k)[z].row = slots[z].row /\ Swept(k)[z].gen = slots[z].gen
              /\ Swept(k)[z].epoch = slots[z].epoch /\ Swept(k)[z].state = slots[z].state
              /\ Swept(k)[z].indexed = slots[z].indexed /\ Swept(k)[z].binding = slots[z].binding
              /\ Swept(k)[z].scratch = slots[z].scratch /\ Swept(k)[z].pins = slots[z].pins
              /\ Swept(k)[z].finishing = slots[z].finishing
  <1>1. ASSUME NEW r \in SlotRecord
        PROVE  LET q == [r EXCEPT !.referenced = FALSE] IN
               /\ q \in SlotRecord /\ q.pins = r.pins
               /\ q.row = r.row /\ q.gen = r.gen /\ q.epoch = r.epoch /\ q.state = r.state
               /\ q.indexed = r.indexed /\ q.binding = r.binding /\ q.scratch = r.scratch
               /\ q.finishing = r.finishing
    BY DEF SlotRecord
  <1>2. \A z \in Slots : slots[z] \in SlotRecord
    OBVIOUS
  <1>3. ASSUME NEW z \in Slots
        PROVE  Swept(k)[z] = slots[z] \/ Swept(k)[z] = [slots[z] EXCEPT !.referenced = FALSE]
    BY DEF Swept
  <1>4. Swept(k) = [z \in Slots |-> Swept(k)[z]]
    BY DEF Swept
  <1>5. ASSUME NEW z \in Slots
        PROVE  /\ Swept(k)[z] \in SlotRecord
               /\ Swept(k)[z].row = slots[z].row /\ Swept(k)[z].gen = slots[z].gen
               /\ Swept(k)[z].epoch = slots[z].epoch /\ Swept(k)[z].state = slots[z].state
               /\ Swept(k)[z].indexed = slots[z].indexed /\ Swept(k)[z].binding = slots[z].binding
               /\ Swept(k)[z].scratch = slots[z].scratch /\ Swept(k)[z].pins = slots[z].pins
               /\ Swept(k)[z].finishing = slots[z].finishing
    <2>1. CASE Swept(k)[z] = slots[z]
      BY <1>2, <2>1
    <2>2. CASE Swept(k)[z] = [slots[z] EXCEPT !.referenced = FALSE]
      <3> DEFINE r == slots[z]
                 q == [r EXCEPT !.referenced = FALSE]
      <3>1. r \in SlotRecord
        BY <1>2
      <3> HIDE DEF r
      <3>2. /\ q \in SlotRecord /\ q.pins = r.pins
            /\ q.row = r.row /\ q.gen = r.gen /\ q.epoch = r.epoch /\ q.state = r.state
            /\ q.indexed = r.indexed /\ q.binding = r.binding /\ q.scratch = r.scratch
            /\ q.finishing = r.finishing
        BY <3>1, <1>1
      <3>3. Swept(k)[z] = q
        BY <2>2 DEF r
      <3> HIDE DEF q
      <3> QED
        BY <3>2, <3>3 DEF r
    <2> QED
      BY <1>3, <2>1, <2>2
  <1>6. Swept(k) \in [Slots -> SlotRecord]
    BY <1>4, <1>5
  <1> QED
    BY <1>5, <1>6

\* The slot start_fill_locked leaves behind is a slot record, filling and indexed or failed and neither.
LEMMA AdmittedFacts ==
  ASSUME slots \in [Slots -> SlotRecord], generation \in Generations, NEW s \in Slots, NEW r \in Rows,
         NEW o \in Outcome, NEW pin \in {0, 1}
  PROVE  LET q == AdmittedSlot(s, r, o, pin) IN
         /\ q \in SlotRecord
         /\ q.row = r /\ q.gen = generation /\ q.epoch = (slots[s].epoch + 1) % WordModulus
         /\ q.pins = slots[s].pins + (IF o.status = "ok" THEN pin ELSE 0)
         /\ q.state = IF o.status = "ok" THEN "filling" ELSE "failed"
         /\ q.indexed = (o.status = "ok")
         /\ q.binding = IF o.status = "ok" THEN generation ELSE NoBinding
         /\ q.scratch = o.scratch /\ q.finishing = FALSE
         /\ (slots[s].epoch + 1) % WordModulus \in Words
  <1> DEFINE ep == (slots[s].epoch + 1) % WordModulus
             pn == slots[s].pins + (IF o.status = "ok" THEN pin ELSE 0)
  <1>1. slots[s].epoch \in Words /\ slots[s].pins \in Nat
    BY DEF SlotRecord
  <1>2. ep \in Words
    BY <1>1, ConstantFacts DEF Words
  <1>3. pn \in Nat
    BY <1>1
  <1> HIDE DEF ep, pn
  <1>4. o.status \in Statuses /\ o.scratch \in Scratches \cup {NONE}
    BY DEF Outcome
  <1>5. AdmittedSlot(s, r, o, pin) =
          [row |-> r, gen |-> generation, epoch |-> ep, pins |-> pn,
           state |-> IF o.status = "ok" THEN "filling" ELSE "failed", failure |-> o.status,
           referenced |-> o.status = "ok" /\ pin = 1, finishing |-> FALSE, indexed |-> o.status = "ok",
           binding |-> IF o.status = "ok" THEN generation ELSE NoBinding, scratch |-> o.scratch]
    BY DEF AdmittedSlot, ep, pn
  <1> QED
    BY <1>2, <1>3, <1>4, <1>5 DEF SlotRecord, ep, pn

\* What claim_victim and start_fill_locked leave alone: every slot but the victim keeps its key, state,
\* pins and flags.
LEMMA StartEffect ==
  ASSUME ShapeInv, NEW k \in Steps, ClaimsAt(k), NEW r \in Rows, NEW o \in FillOutcomes(At(k), r),
         NEW pin \in {0, 1}, StartFill(k, At(k), r, o, pin)
  PROVE  LET s == At(k) IN
         /\ s \in Slots /\ o \in Outcome
         /\ slots' \in [Slots -> SlotRecord]
         /\ slots'[s] = AdmittedSlot(s, r, o, pin)
         /\ \A z \in Slots \ {s} :
              SameSlot(z) /\ slots'[z].pins = slots[z].pins /\ slots'[z].finishing = slots[z].finishing
  <1> DEFINE s == At(k)
             q == AdmittedSlot(s, r, o, pin)
  <1>0. slots \in [Slots -> SlotRecord] /\ clockHand \in Slots /\ generation \in Generations
    BY DEF ShapeInv, TypeOK
  <1>1. s \in Slots
    BY <1>0, HandFacts
  <1>2. slots' = [Swept(k) EXCEPT ![s] = q]
    BY DEF StartFill
  <1> HIDE DEF s
  <1>3. o \in Outcome
    BY <1>0, <1>1, OutcomeFacts DEF s
  <1>4. q \in SlotRecord
    BY <1>0, <1>1, <1>3, AdmittedFacts
  <1> HIDE DEF q
  <1>5. /\ Swept(k) \in [Slots -> SlotRecord]
        /\ \A z \in Slots :
              /\ Swept(k)[z].row = slots[z].row /\ Swept(k)[z].gen = slots[z].gen
              /\ Swept(k)[z].epoch = slots[z].epoch /\ Swept(k)[z].state = slots[z].state
              /\ Swept(k)[z].indexed = slots[z].indexed /\ Swept(k)[z].binding = slots[z].binding
              /\ Swept(k)[z].scratch = slots[z].scratch /\ Swept(k)[z].pins = slots[z].pins
              /\ Swept(k)[z].finishing = slots[z].finishing
    BY <1>0, SweptFacts
  <1>6. /\ slots' \in [Slots -> SlotRecord] /\ slots'[s] = q
        /\ \A z \in Slots \ {s} : slots'[z] = Swept(k)[z]
    BY <1>1, <1>2, <1>4, <1>5
  <1>7. \A z \in Slots \ {s} :
              SameSlot(z) /\ slots'[z].pins = slots[z].pins /\ slots'[z].finishing = slots[z].finishing
    BY <1>5, <1>6 DEF SameSlot
  <1> QED
    BY <1>1, <1>3, <1>6, <1>7 DEF s, q

\* Starting a fill keeps the types of all it changes.
LEMMA StartTypes ==
  ASSUME ShapeInv, NEW k \in Steps, NEW s \in Slots, NEW r \in Rows, NEW o \in Outcome,
         NEW pin \in {0, 1}, Extent[generation][r].shard \in Shards, StartFill(k, s, r, o, pin)
  PROVE  /\ clockHand' \in Slots
         /\ claims' \in [Slots -> [ChunkIds -> {"none", "pending", "ok", "failed"}]]
         /\ dropped' \subseteq Transfer
         /\ output' \in [Slots -> [ChunkIds -> Bytes]]
         /\ scratchUsed' \subseteq Scratches
         /\ scratchData' \in [Scratches -> Bytes]
         /\ bindFill' \in [Generations -> Int]
         /\ inFlight' \in Int
         /\ sleeping' \subseteq Threads
  <1>0. o.accepted \in 0 .. MaxChunks /\ o.scratch \in Scratches \cup {NONE}
    BY DEF Outcome
  <1>1. clockHand' \in Slots
    BY HandFacts DEF ShapeInv, TypeOK, StartFill
  <1>2. claims' \in [Slots -> [ChunkIds -> {"none", "pending", "ok", "failed"}]]
    BY DEF ShapeInv, TypeOK, StartFill
  <1>3. dropped' \subseteq Transfer
    <2>1. dropped \subseteq Transfer /\ generation \in Generations
      BY DEF ShapeInv, TypeOK
    <2>2. 1 .. o.accepted \subseteq ChunkIds
      BY <1>0, ConstantFacts DEF ChunkIds
    <2>3. {[binding |-> generation, shard |-> Extent[generation][r].shard, slot |-> s,
            chunk |-> c, row |-> r] : c \in 1 .. o.accepted} \subseteq Transfer
      BY <2>1, <2>2 DEF Transfer
    <2> QED
      BY <2>1, <2>3 DEF StartFill
  <1>4. output' \in [Slots -> [ChunkIds -> Bytes]]
    BY RecordFacts DEF ShapeInv, TypeOK, StartFill
  <1>5. scratchUsed' \subseteq Scratches
    BY <1>0 DEF ShapeInv, TypeOK, StartFill
  <1>6. scratchData' \in [Scratches -> Bytes]
    BY RecordFacts DEF ShapeInv, TypeOK, StartFill
  <1>7. inFlight' \in Int
    BY DEF ShapeInv, TypeOK, StartFill
  <1>8. bindFill' \in [Generations -> Int]
    BY DEF ShapeInv, TypeOK, StartFill
  <1>9. sleeping' \subseteq Threads
    BY DEF ShapeInv, TypeOK, StartFill, NotifyAll
  <1> QED
    BY <1>1, <1>2, <1>3, <1>4, <1>5, <1>6, <1>7, <1>8, <1>9

\* Starting a fill keeps the parts of the invariant about slots and finishers.
LEMMA StartPool ==
  ASSUME ShapeInv, NEW k \in Steps, ClaimsAt(k), NEW r \in Rows, NEW o \in FillOutcomes(At(k), r),
         NEW pin \in {0, 1}, StartFill(k, At(k), r, o, pin), UNCHANGED fin,
         \A c \in Clients : fin[c].pc # "idle" => call'[c].pc = "finish"
  PROVE  SlotOK' /\ FinOK'
  <1> DEFINE s == At(k)
             q == AdmittedSlot(s, r, o, pin)
  <1>0. slots \in [Slots -> SlotRecord] /\ clockHand \in Slots /\ generation \in Generations
    BY DEF ShapeInv, TypeOK
  <1>1. /\ s \in Slots /\ o \in Outcome
        /\ slots'[s] = q
        /\ \A z \in Slots \ {s} : SameSlot(z) /\ slots'[z].finishing = slots[z].finishing
    BY StartEffect
  <1>2. /\ o.status # "ok" => o.scratch = NONE
        /\ o.status = "ok" /\ Converting => o.scratch \in Scratches
    BY <1>0, <1>1, OutcomeFacts
  <1>3. slots[s].state # "filling"
    BY <1>0, VictimFacts
  <1> HIDE DEF s
  <1>4. /\ q.state = IF o.status = "ok" THEN "filling" ELSE "failed"
        /\ q.indexed <=> o.status = "ok"
        /\ q.binding = IF o.status = "ok" THEN generation ELSE NoBinding
        /\ q.scratch = o.scratch
    BY DEF AdmittedSlot
  <1> HIDE DEF q
  <1>5. SlotOK'
    <2>1. \A z \in Slots \ {s} :
            /\ slots'[z].indexed => slots'[z].state \in {"filling", "ready"}
            /\ slots'[z].state = "filling" =>
                 /\ slots'[z].indexed
                 /\ slots'[z].binding \in Generations
                 /\ Converting => slots'[z].scratch \in Scratches
      BY <1>1 DEF ShapeInv, SlotOK, SameSlot
    <2>2. /\ slots'[s].indexed => slots'[s].state \in {"filling", "ready"}
          /\ slots'[s].state = "filling" =>
               /\ slots'[s].indexed
               /\ slots'[s].binding \in Generations
               /\ Converting => slots'[s].scratch \in Scratches
      BY <1>0, <1>1, <1>2, <1>4
    <2> QED
      BY <2>1, <2>2 DEF SlotOK
  <1>6. FinOK'
    <2>1. \A t \in Threads : fin[t].pc # "idle" => fin[t].slot \in Slots \ {s}
      BY <1>3 DEF ShapeInv, FinOK
    <2> QED
      BY <1>1, <2>1 DEF ShapeInv, FinOK, SameSlot
  <1> QED
    BY <1>5, <1>6

\* The row a call is at is a row of the table.
LEMMA RowFacts ==
  ASSUME NEW rows \in Requests \cup {<<>>}, InRange(rows), NEW i \in 1 .. Len(rows)
  PROVE  rows[i] \in Rows
  <1>1. rows \in Seq(Nat)
    BY ConstantFacts
  <1>2. rows[i] \in Nat /\ rows[i] < RowCount
    BY <1>1 DEF InRange
  <1> QED
    BY <1>2, ConstantFacts DEF Rows

\* Admitting a row by starting its fill, or failing to, keeps the invariant.
LEMMA AdmitMissStep ==
  ASSUME ShapeInv, NEW c \in Clients, AdmitMiss(c)
  PROVE  ShapeInv'
  <1> USE DEF bindVars, ticketVars, sysVars
  <1> DEFINE i == call[c].i
             r == call[c].rows[i]
  <1>0. /\ call[c].pc = "admit" /\ fin[c].pc = "idle" /\ UNCHANGED fin
        /\ call \in [Clients -> CallRecord]
        /\ slots \in [Slots -> SlotRecord] /\ out \in [Clients -> [Positions -> LeaseRecord]]
        /\ generation \in Generations
    BY DEF AdmitMiss, ShapeInv, TypeOK, FinOK
  <1>1. /\ Len(call[c].rows) \in 1 .. MaxBatch /\ i \in 1 .. Len(call[c].rows)
        /\ InRange(call[c].rows) /\ call[c].op = "resolve"
        /\ call[c].rows \in Requests \cup {<<>>}
    BY <1>0 DEF ShapeInv, CallOK, Shape, CallRecord
  <1>2. i \in Positions /\ r \in Rows
    BY <1>1, ConstantFacts, RowFacts DEF Positions
  <1> PICK k \in Steps :
        /\ ClaimsAt(k)
        /\ \E o \in FillOutcomes(At(k), r) :
            /\ StartFill(k, At(k), r, o, 1)
            /\ IF o.status = "ok"
               THEN /\ out' = [out EXCEPT ![c][i] =
                                 LeaseOn(At(k), r, (slots[At(k)].epoch + 1) % WordModulus,
                                         generation, FALSE)]
                    /\ pinsTotal' = pinsTotal + 1
                    /\ Admitted(c)
               ELSE /\ AdmitFails(c, o.status)
                    /\ UNCHANGED <<out, pinsTotal>>
    BY DEF AdmitMiss
  <1> PICK o \in FillOutcomes(At(k), r) :
        /\ StartFill(k, At(k), r, o, 1)
        /\ IF o.status = "ok"
           THEN /\ out' = [out EXCEPT ![c][i] =
                             LeaseOn(At(k), r, (slots[At(k)].epoch + 1) % WordModulus,
                                     generation, FALSE)]
                /\ pinsTotal' = pinsTotal + 1
                /\ Admitted(c)
           ELSE /\ AdmitFails(c, o.status)
                /\ UNCHANGED <<out, pinsTotal>>
    OBVIOUS
  <1> DEFINE s == At(k)
             ep == (slots[s].epoch + 1) % WordModulus
             l == LeaseOn(s, r, ep, generation, FALSE)
  <1>3. /\ s \in Slots /\ o \in Outcome /\ slots' \in [Slots -> SlotRecord]
    BY <1>2, StartEffect
  <1>4. l \in LeaseRecord /\ l.slot # NONE
    <2>1. slots[s].epoch \in Words
      BY <1>0, <1>3 DEF SlotRecord
    <2>2. ep \in Words
      BY <2>1, WordFacts
    <2> HIDE DEF s, r, ep
    <2>3. s # NONE
      BY <1>3, ConstantFacts DEF Slots, NONE
    <2> QED
      BY <1>0, <1>2, <1>3, <2>2, <2>3 DEF LeaseOn, LeaseRecord
  <1>5. /\ call' \in [Clients -> CallRecord] /\ lock' \in Clients \cup {NoThread}
        /\ Shape(c)'
        /\ \A d \in Clients \ {c} : call'[d] = call[d] /\ out'[d] = out[d]
        /\ call'[c].pc # "prefetch"
        /\ out' \in [Clients -> [Positions -> LeaseRecord]]
        /\ pinsTotal' \in Int
    <2>0. pinsTotal \in Int
      BY DEF ShapeInv, TypeOK
    <2>1. CASE o.status = "ok"
      <3>1. out' = [out EXCEPT ![c][i] = l] /\ pinsTotal' = pinsTotal + 1 /\ Admitted(c)
        BY <2>1
      <3> HIDE DEF l, i
      <3>2. /\ out' \in [Clients -> [Positions -> LeaseRecord]]
            /\ \A d \in Clients \ {c} : out'[d] = out[d]
            /\ out'[c][i] = l
            /\ \A j \in Positions \ {i} : out'[c][j] = out[c][j]
        BY <1>0, <1>2, <1>4, <3>1, OutEffect
      <3>3. /\ call' \in [Clients -> CallRecord] /\ lock' \in Clients \cup {NoThread}
            /\ Shape(c)'
            /\ \A d \in Clients \ {c} : call'[d] = call[d]
            /\ call'[c].pc # "prefetch"
        BY <1>0, <1>4, <3>1, <3>2, AdmittedShape DEF i
      <3> QED
        BY <2>0, <3>1, <3>2, <3>3
    <2>2. CASE o.status # "ok"
      <3> DEFINE st == o.status
                 m == [call[c] EXCEPT !.pc = "unwind", !.status = st]
      <3>1. /\ UNCHANGED <<out, pinsTotal>> /\ call' = [call EXCEPT ![c] = m]
            /\ lock' \in Clients \cup {NoThread}
        BY <2>2 DEF AdmitFails
      <3>2. st \in Statuses
        BY <1>3 DEF Outcome
      <3> HIDE DEF st
      <3>3. m \in CallRecord /\ m.pc = "unwind" /\ m.op = call[c].op /\ m.rows = call[c].rows
        BY <1>0, <3>2, UnwindFacts
      <3> HIDE DEF m
      <3>4. call' \in [Clients -> CallRecord] /\ call'[c] = m /\ \A d \in Clients \ {c} : call'[d] = call[d]
        BY <1>0, <3>1, <3>3
      <3>5. Shape(c)'
        BY <1>1, <3>3, <3>4 DEF Shape
      <3> QED
        BY <1>0, <2>0, <3>1, <3>3, <3>4, <3>5
    <2> QED
      BY <2>1, <2>2
  <1>6. TypeOK'
    <2>1. Extent[generation][r].shard \in Shards
      BY <1>0, <1>2, <1>3, OutcomeFacts
    <2>2. /\ clockHand' \in Slots
          /\ claims' \in [Slots -> [ChunkIds -> {"none", "pending", "ok", "failed"}]]
          /\ dropped' \subseteq Transfer
          /\ output' \in [Slots -> [ChunkIds -> Bytes]]
          /\ scratchUsed' \subseteq Scratches
          /\ scratchData' \in [Scratches -> Bytes]
          /\ bindFill' \in [Generations -> Int]
          /\ inFlight' \in Int
          /\ sleeping' \subseteq Threads
      BY <1>2, <1>3, <2>1, StartTypes
    <2> QED
      BY <1>3, <1>5, <2>2 DEF ShapeInv, TypeOK, AdmitMiss
  <1>7. CallOK'
    <2>1. \A d \in Clients \ {c} : Shape(d)'
      BY <1>5, OtherShape DEF AdmitMiss
    <2> QED
      BY <1>5, <2>1 DEF CallOK
  <1>8. SlotOK' /\ FinOK'
    <2>1. \A d \in Clients : fin[d].pc # "idle" => call'[d].pc = "finish"
      BY <1>0, <1>5 DEF ShapeInv, FinOK
    <2> QED
      BY <1>0, <1>2, <2>1, StartPool
  <1>9. TicketOK'
    BY DEF ShapeInv, TicketOK, AdmitMiss
  <1> QED
    BY <1>6, <1>7, <1>8, <1>9 DEF ShapeInv

-----------------------------------------------------------------------------

\* Recording a waiter entry keeps the invariant.
LEMMA RecordedShape ==
  ASSUME ShapeInv, NEW c \in Clients, call[c].pc = "prefetch", NEW s \in Slots \cup {NONE},
         NEW epoch \in Words, Recorded(c, s, epoch), UNCHANGED <<tickets, tick, out>>
  PROVE  /\ call' \in [Clients -> CallRecord] /\ lock' \in Clients \cup {NoThread}
         /\ waiters' \in [Records -> [Positions -> WaiterRecord]]
         /\ CallOK'
         /\ \A d \in Clients \ {c} : call'[d] = call[d]
  <1> DEFINE i == call[c].i
             last == i = Len(call[c].rows)
             n == i + 1
             k == IF last THEN Ended(c, "ok") ELSE [call[c] EXCEPT !.i = n]
             w == [slot |-> s, epoch |-> epoch, row |-> call[c].rows[i]]
  <1>0. /\ call \in [Clients -> CallRecord] /\ call[c] \in CallRecord
        /\ waiters \in [Records -> [Positions -> WaiterRecord]]
    BY DEF ShapeInv, TypeOK
  <1>1. /\ call' = [call EXCEPT ![c] = k] /\ lock' \in Clients \cup {NoThread}
        /\ waiters' = [waiters EXCEPT ![call[c].rec][i] = w]
    BY DEF Recorded
  <1>2. /\ Len(call[c].rows) \in 1 .. MaxBatch /\ i \in 1 .. Len(call[c].rows)
        /\ InRange(call[c].rows) /\ call[c].rec \in Records /\ tick[c].record = call[c].rec
        /\ call[c].rows \in Requests \cup {<<>>}
    BY <1>0 DEF ShapeInv, CallOK, Shape, CallRecord
  <1>3. w \in WaiterRecord
    BY <1>2, RowFacts DEF WaiterRecord
  <1> HIDE DEF w
  <1>4. /\ waiters' \in [Records -> [Positions -> WaiterRecord]]
        /\ \A m \in Records \ {call[c].rec} : waiters'[m] = waiters[m]
    BY <1>0, <1>1, <1>3
  <1>5. n \in Nat /\ (~last => n \in 1 .. Len(call[c].rows))
    <2> HIDE DEF k
    <2>1. i \in Nat /\ Len(call[c].rows) \in Nat /\ i <= Len(call[c].rows)
      BY <1>2, ConstantFacts
    <2> HIDE DEF i
    <2> QED
      BY <2>1
  <1>6. /\ k \in CallRecord
        /\ last => k.pc = "returned"
        /\ ~last => k.pc = "prefetch" /\ k.i = n /\ k.rows = call[c].rows /\ k.rec = call[c].rec
    <2>1. CASE last
      BY <2>1, EndedFacts DEF ShapeInv, Statuses
    <2>2. CASE ~last
      <3>1. k = [call[c] EXCEPT !.i = n]
        BY <2>2
      <3> HIDE DEF k, n
      <3>2. /\ k \in CallRecord /\ k.pc = call[c].pc /\ k.i = n /\ k.rows = call[c].rows
            /\ k.rec = call[c].rec
        BY <1>0, <1>5, <3>1 DEF CallRecord
      <3> QED
        BY <2>2, <3>2
    <2> QED
      BY <2>1, <2>2
  <1> HIDE DEF k
  <1>7. /\ call' \in [Clients -> CallRecord] /\ call'[c] = k
        /\ \A d \in Clients \ {c} : call'[d] = call[d]
    BY <1>0, <1>1, <1>6
  <1> HIDE DEF n, last
  <1>8. Shape(c)'
    BY <1>2, <1>5, <1>6, <1>7 DEF Shape, InRange
  <1>9. ASSUME NEW d \in Clients \ {c} PROVE Shape(d)'
    <2>1. \A e \in Clients : call'[e].pc = "prefetch" => call[e].pc = "prefetch" /\ call'[e].rec = call[e].rec
      BY <1>6, <1>7
    <2>2. Shape(d) /\ call'[d] = call[d]
      BY <1>7 DEF ShapeInv, CallOK
    <2>3. call[d].pc \in {"drive", "finish", "blocked"} /\ call[d].op = "wait" =>
            waiters'[call[d].rec] = waiters[call[d].rec]
      BY <1>4, <2>2 DEF Shape
    <2> QED
      BY <2>1, <2>2, <2>3 DEF Shape, InRange
  <1> QED
    BY <1>1, <1>4, <1>7, <1>8, <1>9 DEF CallOK

\* prefetch's steps that start no fill keep the invariant.
LEMMA PrefetchHitSteps ==
  ASSUME ShapeInv, NEW c \in Clients, PrefetchHit(c) \/ PrefetchExhausted(c)
  PROVE  ShapeInv'
  <1> USE DEF poolVars, fillVars, bindVars, ticketVars, sysVars
  <1>0. /\ call[c].pc = "prefetch" /\ fin[c].pc = "idle" /\ UNCHANGED <<tickets, tick, out, slots, fin>>
        /\ slots \in [Slots -> SlotRecord]
    BY DEF ShapeInv, TypeOK, FinOK, PrefetchHit, PrefetchExhausted
  <1>1. \E s \in Slots \cup {NONE}, epoch \in Words : Recorded(c, s, epoch)
    <2>1. \A s \in Slots : slots[s].epoch \in Words
      BY <1>0 DEF SlotRecord
    <2>2. 0 \in Words
      BY ConstantFacts DEF Words
    <2> QED
      BY <2>1, <2>2 DEF PrefetchHit, PrefetchExhausted
  <1>2. /\ call' \in [Clients -> CallRecord] /\ lock' \in Clients \cup {NoThread}
        /\ waiters' \in [Records -> [Positions -> WaiterRecord]]
        /\ CallOK'
        /\ \A d \in Clients \ {c} : call'[d] = call[d]
    BY <1>0, <1>1, RecordedShape
  <1>3. TypeOK'
    BY <1>2 DEF ShapeInv, TypeOK, PrefetchHit, PrefetchExhausted
  <1>4. SlotOK' /\ FinOK'
    <2>1. \A d \in Clients : fin[d].pc # "idle" => call'[d].pc = "finish"
      BY <1>0, <1>2 DEF ShapeInv, FinOK
    <2> QED
      BY <1>0, <2>1, SamePool DEF SameSlot
  <1>5. TicketOK'
    BY <1>0 DEF ShapeInv, TicketOK
  <1> QED
    BY <1>2, <1>3, <1>4, <1>5 DEF ShapeInv

\* prefetch's step that starts a fill keeps the invariant.
LEMMA PrefetchMissStep ==
  ASSUME ShapeInv, NEW c \in Clients, PrefetchMiss(c)
  PROVE  ShapeInv'
  <1> USE DEF bindVars, ticketVars, sysVars
  <1> DEFINE r == call[c].rows[call[c].i]
  <1>0. /\ call[c].pc = "prefetch" /\ fin[c].pc = "idle" /\ UNCHANGED <<tickets, tick, out, fin>>
        /\ slots \in [Slots -> SlotRecord] /\ call \in [Clients -> CallRecord]
        /\ generation \in Generations
    BY DEF ShapeInv, TypeOK, FinOK, PrefetchMiss
  <1>1. r \in Rows
    <2>1. /\ call[c].i \in 1 .. Len(call[c].rows)
          /\ InRange(call[c].rows) /\ call[c].rows \in Requests \cup {<<>>}
      BY <1>0 DEF ShapeInv, CallOK, Shape, CallRecord
    <2> QED
      BY <2>1, RowFacts
  <1> PICK k \in Steps :
        /\ ClaimsAt(k)
        /\ \E o \in FillOutcomes(At(k), r) : StartFill(k, At(k), r, o, 0)
        /\ Recorded(c, At(k), (slots[At(k)].epoch + 1) % WordModulus)
    BY DEF PrefetchMiss
  <1> PICK o \in FillOutcomes(At(k), r) : StartFill(k, At(k), r, o, 0)
    OBVIOUS
  <1> DEFINE s == At(k)
             ep == (slots[s].epoch + 1) % WordModulus
  <1>2. /\ s \in Slots /\ o \in Outcome /\ slots' \in [Slots -> SlotRecord]
    BY <1>1, StartEffect
  <1>3. ep \in Words /\ Recorded(c, s, ep)
    <2>1. slots[s].epoch \in Words
      BY <1>0, <1>2 DEF SlotRecord
    <2> HIDE DEF s
    <2>2. ep \in Words
      BY <2>1, ConstantFacts DEF Words
    <2> QED
      BY <2>2 DEF s
  <1> HIDE DEF ep
  <1>4. /\ call' \in [Clients -> CallRecord] /\ lock' \in Clients \cup {NoThread}
        /\ waiters' \in [Records -> [Positions -> WaiterRecord]]
        /\ CallOK'
        /\ \A d \in Clients \ {c} : call'[d] = call[d]
    BY <1>0, <1>2, <1>3, RecordedShape
  <1>5. TypeOK'
    <2>1. Extent[generation][r].shard \in Shards
      BY <1>0, <1>1, <1>2, OutcomeFacts
    <2>2. /\ clockHand' \in Slots
          /\ claims' \in [Slots -> [ChunkIds -> {"none", "pending", "ok", "failed"}]]
          /\ dropped' \subseteq Transfer
          /\ output' \in [Slots -> [ChunkIds -> Bytes]]
          /\ scratchUsed' \subseteq Scratches
          /\ scratchData' \in [Scratches -> Bytes]
          /\ bindFill' \in [Generations -> Int]
          /\ inFlight' \in Int
          /\ sleeping' \subseteq Threads
      BY <1>1, <1>2, <2>1, StartTypes
    <2> QED
      BY <1>2, <1>4, <2>2 DEF ShapeInv, TypeOK, PrefetchMiss
  <1>6. SlotOK' /\ FinOK'
    <2>1. \A d \in Clients : fin[d].pc # "idle" => call'[d].pc = "finish"
      BY <1>0, <1>4 DEF ShapeInv, FinOK
    <2> QED
      BY <1>0, <1>1, <2>1, StartPool
  <1>7. TicketOK'
    BY <1>0 DEF ShapeInv, TicketOK
  <1> QED
    BY <1>4, <1>5, <1>6, <1>7 DEF ShapeInv

\* Dropping a ticket nobody waits on keeps the invariant.
LEMMA DropTicketStep ==
  ASSUME ShapeInv, NEW c \in Clients, DropTicket(c)
  PROVE  ShapeInv'
  <1> USE DEF poolVars, fillVars, bindVars, ticketVars, sysVars
  <1> DEFINE k == tick[c].record
             T == [generation : Words, count : Nat, held : BOOLEAN]
  <1>0. /\ call[c].pc = "idle" /\ k \in Records /\ ~Waiting(k) /\ UNCHANGED <<call, waiters, out, slots, fin>>
        /\ tickets \in [Records -> T] /\ tickets[k].held /\ tickets[k].generation = tick[c].generation
        /\ tick \in [Clients -> [record : Records \cup {0}, generation : Words]]
        /\ tick' = [tick EXCEPT ![c] = NoTicket]
    BY DEF ShapeInv, TypeOK, TicketOK, DropTicket, MayCall
  <1>1. tickets' = [tickets EXCEPT ![k].held = FALSE] /\ UNCHANGED life
    BY <1>0 DEF DropTicket
  <1>2. /\ tickets' \in [Records -> T]
        /\ ~tickets'[k].held
        /\ \A m \in Records \ {k} : tickets'[m] = tickets[m]
    BY <1>0, <1>1
  <1>3. /\ tick' \in [Clients -> [record : Records \cup {0}, generation : Words]]
        /\ tick'[c].record = 0
        /\ \A d \in Clients \ {c} : tick'[d] = tick[d]
    BY <1>0, ConstantFacts DEF NoTicket, Words
  <1>4. TypeOK'
    BY <1>0, <1>1, <1>2, <1>3 DEF ShapeInv, TypeOK, DropTicket
  <1>5. TicketOK'
    <2>1. \A d \in Clients \ {c} : tick[d].record # 0 => tick[d].record \in Records \ {k}
      BY <1>0 DEF ShapeInv, TypeOK, TicketOK
    <2> QED
      BY <1>2, <1>3, <2>1 DEF ShapeInv, TicketOK
  <1>6. ASSUME NEW d \in Clients PROVE Shape(d)'
    <2>1. Shape(d)
      BY DEF ShapeInv, CallOK
    <2>2. CASE d = c
      BY <1>0, <2>2 DEF Shape
    <2>3. CASE d # c
      <3>1. call[d].op = "wait" /\ call[d].pc # "idle" => call[d].rec # k
        BY <1>0 DEF Waiting
      <3>2. call[d].op = "wait" /\ call[d].pc # "idle" /\ call[d].rec \in Records =>
              tickets'[call[d].rec] = tickets[call[d].rec]
        BY <1>2, <3>1
      <3> QED
        BY <1>0, <1>3, <2>1, <2>3, <3>2 DEF Shape, InRange
    <2> QED
      BY <2>2, <2>3
  <1>7. SlotOK' /\ FinOK'
    BY <1>0 DEF ShapeInv, SlotOK, FinOK
  <1> QED
    BY <1>4, <1>5, <1>6, <1>7 DEF ShapeInv, CallOK

\* Entering prefetch, which takes a record nobody holds, keeps the invariant.
LEMMA CallPrefetchStep ==
  ASSUME ShapeInv, NEW c \in Clients, CallPrefetch(c)
  PROVE  ShapeInv'
  <1> USE DEF tableVars, poolVars, fillVars, bindVars, ticketVars, sysVars
  <1> DEFINE T == [generation : Words, count : Nat, held : BOOLEAN]
             b0 == Begin("prefetch", "returned")
  <1>0. /\ fin[c].pc = "idle" /\ lock \in Clients \cup {NoThread} /\ sleeping \subseteq Threads
        /\ call \in [Clients -> CallRecord] /\ call[c].pc = "idle" /\ tick[c].record = 0
        /\ tickets \in [Records -> T]
        /\ tick \in [Clients -> [record : Records \cup {0}, generation : Words]]
    BY DEF ShapeInv, FinOK, TypeOK, CallPrefetch, MayCall
  <1>7. /\ \A d \in Clients : tick[d].record # 0 =>
              /\ tickets[tick[d].record].held
              /\ tickets[tick[d].record].generation = tick[d].generation
        /\ \A d, f \in Clients :
              tick[d].record # 0 /\ tick[d].record = tick[f].record => d = f
    BY DEF ShapeInv, TicketOK
  <1>1. b0 \in CallRecord /\ b0.pc = "returned" /\ b0.i = 1 /\ b0.op = "prefetch"
    BY BeginFacts DEF ShapeInv
  <1>8. PICK rows \in Requests :
        LET b == [b0 EXCEPT !.rows = rows]
            Reject(status) ==
                /\ call' = [call EXCEPT ![c] = [b EXCEPT !.status = status]]
                /\ UNCHANGED <<lock, tickets, tick>>
        IN  IF ArgumentError(rows) # "ok" THEN Reject(ArgumentError(rows))
            ELSE IF ~InRange(rows) THEN Reject("out_of_range")
            ELSE /\ lock = NoThread
                 /\ IF \A k \in Records : tickets[k].held THEN Reject("ticket_exhausted")
                    ELSE \E k \in Records :
                        LET n == (tickets[k].generation + 1) % WordModulus IN
                        /\ ~tickets[k].held
                        /\ \A j \in 1 .. k - 1 : tickets[j].held
                        /\ tickets' = [tickets EXCEPT ![k] = [generation |-> n, count |-> Len(rows),
                                                              held |-> TRUE]]
                        /\ tick' = [tick EXCEPT ![c] = [record |-> k, generation |-> n]]
                        /\ lock' = c
                        /\ call' = [call EXCEPT ![c] = [b EXCEPT !.pc = "prefetch", !.rec = k]]
    BY DEF CallPrefetch
  <1> DEFINE b == [b0 EXCEPT !.rows = rows]
             e == ArgumentError(rows)
  <1>2. e \in Statuses /\ (e = "ok" => Len(rows) \in 1 .. MaxBatch /\ Len(rows) \in Nat /\ 1 \in 1 .. Len(rows))
    BY ArgumentFacts
  <1>3. \/ \E st \in Statuses : /\ call' = [call EXCEPT ![c] = [b EXCEPT !.status = st]]
                                 /\ UNCHANGED <<lock, tickets, tick>>
        \/ /\ e = "ok" /\ InRange(rows)
           /\ \E k \in Records :
                LET n == (tickets[k].generation + 1) % WordModulus IN
                /\ ~tickets[k].held
                /\ tickets' = [tickets EXCEPT ![k] = [generation |-> n, count |-> Len(rows), held |-> TRUE]]
                /\ tick' = [tick EXCEPT ![c] = [record |-> k, generation |-> n]]
                /\ lock' = c
                /\ call' = [call EXCEPT ![c] = [b EXCEPT !.pc = "prefetch", !.rec = k]]
    <2>1. {"out_of_range", "ticket_exhausted"} \subseteq Statuses
      BY DEF Statuses
    <2> HIDE DEF b0, T
    <2> QED
      BY <1>2, <1>8, <2>1
  <1> HIDE DEF b0, e
  <1>4. /\ b \in CallRecord /\ b.pc = "returned" /\ b.i = 1 /\ b.op = "prefetch" /\ b.rows = rows
    BY <1>1 DEF CallRecord
  <1> HIDE DEF b
  <1>5. ASSUME NEW st \in Statuses, call' = [call EXCEPT ![c] = [b EXCEPT !.status = st]],
               UNCHANGED <<lock, tickets, tick>>
        PROVE  ShapeInv'
    <2> DEFINE k == [b EXCEPT !.status = st]
    <2>1. k \in CallRecord /\ k.pc = "returned"
      BY <1>4, FieldFacts
    <2>2. CallStep(c, k)
      BY <1>0, <1>5 DEF CallStep, CallPrefetch
    <2> HIDE DEF k
    <2> QED
      BY <1>0, <2>1, <2>2, RestShape
  <1>6. ASSUME e = "ok", InRange(rows), NEW k \in Records, ~tickets[k].held, NEW n,
               n = (tickets[k].generation + 1) % WordModulus,
               tickets' = [tickets EXCEPT ![k] = [generation |-> n, count |-> Len(rows), held |-> TRUE]],
               tick' = [tick EXCEPT ![c] = [record |-> k, generation |-> n]],
               lock' = c,
               call' = [call EXCEPT ![c] = [b EXCEPT !.pc = "prefetch", !.rec = k]]
        PROVE  ShapeInv'
    <2> DEFINE m == [b EXCEPT !.pc = "prefetch", !.rec = k]
    <2>0. n \in Words
      <3>1. tickets[k].generation \in Words
        BY <1>0
      <3> QED
        BY <1>6, <3>1, WordFacts
    <2>1. m \in CallRecord /\ m.pc = "prefetch" /\ m.i = 1 /\ m.rows = rows /\ m.rec = k
      BY <1>4 DEF CallRecord
    <2>2. call' = [call EXCEPT ![c] = m]
      BY <1>6
    <2> HIDE DEF m
    <2>3. /\ call' \in [Clients -> CallRecord] /\ call'[c] = m
          /\ \A d \in Clients \ {c} : call'[d] = call[d]
      BY <1>0, <2>1, <2>2
    <2>4. Len(rows) \in 1 .. MaxBatch /\ Len(rows) \in Nat /\ 1 \in 1 .. Len(rows)
      BY <1>2, <1>6
    <2>5. /\ tickets' \in [Records -> T]
          /\ tickets'[k].held /\ tickets'[k].count = Len(rows) /\ tickets'[k].generation = n
          /\ \A j \in Records \ {k} : tickets'[j] = tickets[j]
      BY <1>0, <1>6, <2>0, <2>4
    <2>6. /\ tick' \in [Clients -> [record : Records \cup {0}, generation : Words]]
          /\ tick'[c].record = k /\ tick'[c].generation = n
          /\ \A d \in Clients \ {c} : tick'[d] = tick[d]
      BY <1>0, <1>6, <2>0
    <2>7. TypeOK'
      BY <1>6, <2>3, <2>5, <2>6 DEF ShapeInv, TypeOK, CallPrefetch
    <2>8. TicketOK'
      <3>1. \A d \in Clients \ {c} : tick[d].record # 0 => tick[d].record \in Records \ {k}
        BY <1>6 DEF ShapeInv, TypeOK, TicketOK
      <3>2. \A j \in Records : tickets'[j].held => tickets'[j].count \in 1 .. MaxBatch
        BY <2>4, <2>5 DEF ShapeInv, TicketOK
      <3>3. \A d \in Clients : tick'[d].record # 0 =>
              /\ tickets'[tick'[d].record].held
              /\ tickets'[tick'[d].record].generation = tick'[d].generation
        <4>1. ASSUME NEW d \in Clients \ {c}, tick'[d].record # 0
              PROVE  /\ tickets'[tick'[d].record].held
                     /\ tickets'[tick'[d].record].generation = tick'[d].generation
          <5>1. tick'[d] = tick[d] /\ tick[d].record \in Records \ {k} /\ tick[d].record # 0
            BY <2>6, <3>1, <4>1
          <5>2. tickets'[tick[d].record] = tickets[tick[d].record]
            BY <2>5, <5>1
          <5> QED
            BY <1>7, <5>1, <5>2
        <4> QED
          BY <2>5, <2>6, <4>1
      <3>4. ASSUME NEW d \in Clients, NEW f \in Clients,
                   tick'[d].record # 0, tick'[d].record = tick'[f].record
            PROVE  d = f
        <4>1. CASE d = c /\ f # c
          BY <2>6, <3>1, <3>4, <4>1
        <4>2. CASE d # c /\ f = c
          BY <2>6, <3>1, <3>4, <4>2
        <4>3. CASE d # c /\ f # c
          BY <1>7, <2>6, <3>4, <4>3
        <4> QED
          BY <4>1, <4>2, <4>3
      <3> QED
        BY <3>2, <3>3, <3>4 DEF TicketOK
    <2>9. Shape(c)'
      BY <1>6, <2>1, <2>3, <2>4, <2>6 DEF Shape, InRange
    <2>10. ASSUME NEW d \in Clients \ {c} PROVE Shape(d)'
      <3>1. Shape(d) /\ call'[d] = call[d] /\ tick'[d] = tick[d] /\ UNCHANGED <<out, waiters>>
        BY <2>3, <2>6 DEF ShapeInv, CallOK, CallPrefetch
      <3>2. call[d].rec \in Records /\ tickets[call[d].rec].held =>
              call[d].rec # k /\ tickets'[call[d].rec] = tickets[call[d].rec]
        BY <1>6, <2>5
      <3>3. \A f \in Clients : call'[f].pc = "prefetch" =>
              \/ call[f].pc = "prefetch" /\ call'[f].rec = call[f].rec
              \/ call'[f].rec = k
        BY <2>1, <2>3
      <3> QED
        BY <3>1, <3>2, <3>3 DEF Shape, InRange
    <2>11. SlotOK' /\ FinOK'
      <3>1. UNCHANGED <<slots, fin>> /\ \A d \in Clients : fin[d].pc # "idle" => call'[d].pc = "finish"
        BY <1>0, <2>3 DEF ShapeInv, FinOK, CallPrefetch
      <3> QED
        BY <3>1, SamePool DEF SameSlot
    <2> QED
      BY <2>7, <2>8, <2>9, <2>10, <2>11 DEF ShapeInv, CallOK
  <1> QED
    BY <1>3, <1>5, <1>6

-----------------------------------------------------------------------------

\* Calls keep their shape when calls, leases, tickets and entries are unchanged.
LEMMA SameCalls ==
  ASSUME ShapeInv, UNCHANGED <<call, out, tick, tickets, waiters>>
  PROVE  CallOK' /\ TicketOK'
  BY DEF ShapeInv, CallOK, TicketOK, Shape, InRange

\* Setting or clearing a slot's finishing flag changes nothing else of it.
LEMMA FinishingEffect ==
  ASSUME slots \in [Slots -> SlotRecord], NEW s \in Slots, NEW b \in BOOLEAN,
         slots' = [slots EXCEPT ![s].finishing = b]
  PROVE  /\ slots' \in [Slots -> SlotRecord]
         /\ slots'[s].finishing = b
         /\ \A z \in Slots \ {s} : slots'[z] = slots[z]
         /\ \A z \in Slots : SameSlot(z) /\ slots'[z].pins = slots[z].pins
  <1> DEFINE r == slots[s]
             q == [r EXCEPT !.finishing = b]
  <1>1. slots' = [slots EXCEPT ![s] = q]
    OBVIOUS
  <1>2. r \in SlotRecord
    OBVIOUS
  <1>4. /\ q \in SlotRecord /\ q.pins = r.pins
        /\ q.row = r.row /\ q.gen = r.gen /\ q.epoch = r.epoch /\ q.state = r.state
        /\ q.indexed = r.indexed /\ q.binding = r.binding /\ q.scratch = r.scratch
        /\ q.finishing = b
    BY <1>2 DEF SlotRecord
  <1> HIDE DEF q
  <1>5. slots' \in [Slots -> SlotRecord] /\ slots'[s] = q /\ \A z \in Slots \ {s} : slots'[z] = slots[z]
    BY <1>1, <1>4
  <1> QED
    BY <1>4, <1>5 DEF SameSlot

\* A thread that takes an unclaimed fill becomes its only finisher.
LEMMA ClaimEffect ==
  ASSUME ShapeInv, NEW t \in Threads, fin[t].pc = "idle", NEW s \in Slots,
         slots[s].state = "filling", ~slots[s].finishing,
         slots' = [slots EXCEPT ![s].finishing = TRUE],
         NEW f \in FinishRecord, f.pc = "begin", f.slot = s, fin' = [fin EXCEPT ![t] = f],
         \A c \in Clients : fin'[c].pc # "idle" => call'[c].pc = "finish"
  PROVE  slots' \in [Slots -> SlotRecord] /\ fin' \in [Threads -> FinishRecord] /\ SlotOK' /\ FinOK'
  <1>0. slots \in [Slots -> SlotRecord] /\ fin \in [Threads -> FinishRecord]
    BY DEF ShapeInv, TypeOK
  <1>1. /\ slots' \in [Slots -> SlotRecord] /\ slots'[s].finishing
        /\ \A z \in Slots \ {s} : slots'[z] = slots[z]
        /\ \A z \in Slots : SameSlot(z)
    BY <1>0, FinishingEffect
  <1>2. /\ fin' \in [Threads -> FinishRecord] /\ fin'[t] = f
        /\ \A u \in Threads \ {t} : fin'[u] = fin[u]
    BY <1>0
  <1>3. \A u \in Threads \ {t} : fin[u].pc # "idle" => fin[u].slot \in Slots \ {s}
    BY DEF ShapeInv, FinOK
  <1>4. SlotOK'
    BY <1>1 DEF ShapeInv, SlotOK, SameSlot
  <1>5. \A u \in Threads : fin'[u].pc # "idle" =>
          fin'[u].slot \in Slots /\ slots'[fin'[u].slot].state = "filling" /\ slots'[fin'[u].slot].finishing
    <2>1. slots'[s].state = "filling"
      BY <1>1 DEF SameSlot
    <2> QED
      BY <1>1, <1>2, <1>3, <2>1 DEF ShapeInv, FinOK
  <1>6. \A u, v \in Threads :
          fin'[u].pc # "idle" /\ fin'[v].pc # "idle" /\ fin'[u].slot = fin'[v].slot => u = v
    BY <1>2, <1>3 DEF ShapeInv, FinOK
  <1> QED
    BY <1>1, <1>2, <1>4, <1>5, <1>6 DEF FinOK

\* A thread that leaves finish_fill leaves the other finishers their slots.
LEMMA EndEffect ==
  ASSUME ShapeInv, NEW t \in Threads, fin[t].pc # "idle", fin' = [fin EXCEPT ![t] = NoFinish],
         \A z \in Slots \ {fin[t].slot} : slots'[z] = slots[z], UNCHANGED call
  PROVE  fin' \in [Threads -> FinishRecord] /\ FinOK'
  <1>0. fin \in [Threads -> FinishRecord]
    BY DEF ShapeInv, TypeOK
  <1>1. /\ fin' \in [Threads -> FinishRecord] /\ fin'[t].pc = "idle"
        /\ \A u \in Threads \ {t} : fin'[u] = fin[u]
    BY <1>0, RecordFacts DEF NoFinish
  <1>2. \A u \in Threads \ {t} : fin[u].pc # "idle" => fin[u].slot \in Slots \ {fin[t].slot}
    BY DEF ShapeInv, FinOK
  <1>3. \A c \in Clients : c \in Threads
    BY DEF Threads
  <1> QED
    BY <1>1, <1>2, <1>3 DEF ShapeInv, FinOK

\* A caller becoming a finisher keeps the invariant.
LEMMA ClaimFillStep ==
  ASSUME ShapeInv, NEW c \in Clients, ClaimFill(c)
  PROVE  ShapeInv'
  <1> USE DEF fillVars, bindVars, ticketVars, sysVars
  <1> DEFINE s == Target(c).slot
             k == [call[c] EXCEPT !.pc = "finish"]
             timed == call[c].timed
             f == [NoFinish EXCEPT !.pc = "begin", !.slot = s, !.timed = timed]
  <1>0. /\ call[c].pc = "drive" /\ fin[c].pc = "idle" /\ c \in Threads
        /\ call \in [Clients -> CallRecord] /\ call[c] \in CallRecord /\ timed \in BOOLEAN
        /\ fin \in [Threads -> FinishRecord]
    BY DEF ShapeInv, TypeOK, FinOK, ClaimFill, Threads, CallRecord
  <1>1. s \in Slots
    BY <1>0, TargetFacts DEF ClaimFill
  <1>2. /\ slots[s].state = "filling" /\ ~slots[s].finishing
        /\ slots' = [slots EXCEPT ![s].finishing = TRUE]
        /\ fin' = [fin EXCEPT ![c] = f] /\ call' = [call EXCEPT ![c] = k]
    BY DEF ClaimFill, StillFilling
  <1>3. call[c].op = "wait" => waiters[call[c].rec][call[c].i].slot # NONE
    BY <1>0 DEF ClaimFill, Target
  <1> HIDE DEF s, timed
  <1>4. f \in FinishRecord /\ f.pc = "begin" /\ f.slot = s
    BY <1>0, <1>1, RecordFacts DEF FinishRecord, NoFinish
  <1> HIDE DEF f
  <1>5. /\ k \in CallRecord /\ k.pc = "finish" /\ k.op = call[c].op /\ k.rows = call[c].rows
        /\ k.i = call[c].i /\ k.rec = call[c].rec
    BY <1>0, PcFacts
  <1> HIDE DEF k
  <1>6. /\ call' \in [Clients -> CallRecord] /\ call'[c] = k
        /\ \A d \in Clients \ {c} : call'[d] = call[d]
    BY <1>0, <1>2, <1>5
  <1>7. \A d \in Clients : fin'[d].pc # "idle" => call'[d].pc = "finish"
    <2>1. \A d \in Clients \ {c} : fin'[d] = fin[d]
      BY <1>0, <1>2 DEF Threads
    <2> QED
      BY <1>5, <1>6, <2>1 DEF ShapeInv, FinOK
  <1>8. slots' \in [Slots -> SlotRecord] /\ fin' \in [Threads -> FinishRecord] /\ SlotOK' /\ FinOK'
    BY <1>0, <1>1, <1>2, <1>4, <1>7, ClaimEffect
  <1>9. TypeOK'
    BY <1>6, <1>8 DEF ShapeInv, TypeOK, ClaimFill
  <1>10. \A d \in Clients : call'[d].pc = "prefetch" => call[d].pc = "prefetch" /\ call'[d].rec = call[d].rec
    BY <1>5, <1>6
  <1>11. Shape(c)'
    <2>1. Shape(c) /\ UNCHANGED <<out, tickets, waiters>>
      BY DEF ShapeInv, CallOK, ClaimFill
    <2> QED
      BY <1>0, <1>3, <1>5, <1>6, <1>10, <2>1 DEF Shape
  <1>12. \A d \in Clients \ {c} : Shape(d)'
    BY <1>6, <1>10, OtherShape DEF ClaimFill
  <1>13. TicketOK'
    BY DEF ShapeInv, TicketOK, ClaimFill
  <1> QED
    BY <1>8, <1>9, <1>11, <1>12, <1>13 DEF ShapeInv, CallOK

\* The worker becoming a finisher keeps the invariant.
LEMMA WorkerClaimsStep ==
  ASSUME ShapeInv, WorkerClaims
  PROVE  ShapeInv'
  <1> USE DEF fillVars, bindVars, ticketVars, sysVars
  <1>0. /\ fin[Worker].pc = "idle" /\ Worker \in Threads /\ Worker \notin Clients /\ UNCHANGED <<call, out, tick, tickets, waiters>>
        /\ fin \in [Threads -> FinishRecord]
    BY ThreadAssumption DEF ShapeInv, TypeOK, WorkerClaims, Threads
  <1>1. PICK s \in Slots :
          /\ slots[s].state = "filling" /\ ~slots[s].finishing
          /\ slots' = [slots EXCEPT ![s].finishing = TRUE]
          /\ fin' = [fin EXCEPT ![Worker] = [NoFinish EXCEPT !.pc = "begin", !.slot = s]]
    BY DEF WorkerClaims, Unclaimed
  <1> DEFINE f == [NoFinish EXCEPT !.pc = "begin", !.slot = s]
  <1>2. f \in FinishRecord /\ f.pc = "begin" /\ f.slot = s
    BY RecordFacts DEF FinishRecord, NoFinish
  <1>3. fin' = [fin EXCEPT ![Worker] = f]
    BY <1>1
  <1> HIDE DEF f
  <1>4. \A d \in Clients : fin'[d].pc # "idle" => call'[d].pc = "finish"
    BY <1>0, <1>3 DEF ShapeInv, FinOK, Threads
  <1>5. slots' \in [Slots -> SlotRecord] /\ fin' \in [Threads -> FinishRecord] /\ SlotOK' /\ FinOK'
    <2>1. /\ slots[s].state = "filling" /\ ~slots[s].finishing
          /\ slots' = [slots EXCEPT ![s].finishing = TRUE]
      BY <1>1
    <2> QED
      BY <1>0, <1>2, <1>3, <1>4, <2>1, ClaimEffect
  <1>6. TypeOK'
    BY <1>5 DEF ShapeInv, TypeOK, WorkerClaims
  <1>7. CallOK' /\ TicketOK'
    BY <1>0, SameCalls
  <1> QED
    BY <1>5, <1>6, <1>7 DEF ShapeInv

\* Giving a fill back at the deadline keeps the invariant.
LEMMA RelinquishStep ==
  ASSUME ShapeInv, NEW t \in Threads, Relinquish(t)
  PROVE  ShapeInv'
  <1> USE DEF fillVars, bindVars, ticketVars, sysVars
  <1> DEFINE s == fin[t].slot
  <1>0. /\ fin[t].pc # "idle" /\ s \in Slots /\ UNCHANGED <<call, out, tick, tickets, waiters>>
        /\ slots \in [Slots -> SlotRecord] /\ fin' = [fin EXCEPT ![t] = NoFinish]
        /\ slots' = [slots EXCEPT ![s].finishing = FALSE]
    BY DEF ShapeInv, TypeOK, FinOK, Relinquish
  <1> HIDE DEF s
  <1>1. /\ slots' \in [Slots -> SlotRecord]
        /\ \A z \in Slots \ {s} : slots'[z] = slots[z]
        /\ \A z \in Slots : SameSlot(z)
    BY <1>0, FinishingEffect
  <1>2. fin' \in [Threads -> FinishRecord] /\ FinOK'
    BY <1>0, <1>1, EndEffect DEF s
  <1>3. SlotOK'
    BY <1>1 DEF ShapeInv, SlotOK, SameSlot
  <1>4. TypeOK'
    BY <1>1, <1>2 DEF ShapeInv, TypeOK, Relinquish, NotifyAll
  <1>5. CallOK' /\ TicketOK'
    BY <1>0, SameCalls
  <1> QED
    BY <1>2, <1>3, <1>4, <1>5 DEF ShapeInv

\* Moving on inside finish_fill keeps what a finisher owns.
LEMMA FinPcEffect ==
  ASSUME ShapeInv, NEW t \in Threads, fin[t].pc # "idle", NEW f \in FinishRecord, f.pc # "idle",
         f.slot = fin[t].slot, fin' = [fin EXCEPT ![t] = f], UNCHANGED <<slots, call>>
  PROVE  fin' \in [Threads -> FinishRecord] /\ SlotOK' /\ FinOK'
  <1>0. fin \in [Threads -> FinishRecord]
    BY DEF ShapeInv, TypeOK
  <1>1. /\ fin' \in [Threads -> FinishRecord]
        /\ \A u \in Threads : fin'[u].slot = fin[u].slot /\ (fin'[u].pc # "idle" <=> fin[u].pc # "idle")
    BY <1>0
  <1>2. \A c \in Clients : c \in Threads
    BY DEF Threads
  <1> QED
    BY <1>1, <1>2 DEF ShapeInv, SlotOK, FinOK

\* The first critical section of finish_fill keeps the invariant.
LEMMA BeginFinishStep ==
  ASSUME ShapeInv, NEW t \in Threads, BeginFinish(t)
  PROVE  ShapeInv'
  <1> USE DEF tableVars, poolVars, fillVars, bindVars, ticketVars, sysVars
  <1> DEFINE f == [fin[t] EXCEPT !.pc = "wait"]
  <1>0. /\ fin[t].pc # "idle" /\ fin[t] \in FinishRecord
        /\ UNCHANGED <<slots, call, out, tick, tickets, waiters>>
    BY DEF ShapeInv, TypeOK, BeginFinish
  <1>1. fin' = [fin EXCEPT ![t] = f]
    BY DEF BeginFinish, ShapeInv, FinOK
  <1>2. f \in FinishRecord /\ f.pc = "wait" /\ f.slot = fin[t].slot
    BY <1>0 DEF FinishRecord
  <1> HIDE DEF f
  <1>3. fin' \in [Threads -> FinishRecord] /\ SlotOK' /\ FinOK'
    BY <1>0, <1>1, <1>2, FinPcEffect
  <1>4. TypeOK'
    BY <1>3 DEF ShapeInv, TypeOK, BeginFinish
  <1>5. CallOK' /\ TicketOK'
    BY <1>0, SameCalls
  <1> QED
    BY <1>3, <1>4, <1>5 DEF ShapeInv

\* Running the codec keeps the invariant.
LEMMA ConvertStep ==
  ASSUME ShapeInv, NEW t \in Threads, Convert(t)
  PROVE  ShapeInv'
  <1> USE DEF bindVars, ticketVars, sysVars
  <1> DEFINE s == fin[t].slot
             k == slots[s].scratch
  <1>0. /\ fin[t].pc # "idle" /\ fin[t] \in FinishRecord /\ s \in Slots /\ k \in Scratches
        /\ UNCHANGED <<slots, call, out, tick, tickets, waiters>>
        /\ output \in [Slots -> [ChunkIds -> Bytes]] /\ scratchData \in [Scratches -> Bytes]
    BY DEF ShapeInv, TypeOK, FinOK, SlotOK, Convert
  <1>1. PICK status \in {"ok", "codec_failed"} :
        /\ output' = [output EXCEPT ![s][1] = IF status = "ok" THEN scratchData[k] ELSE Garbage]
        /\ fin' = [fin EXCEPT ![t].pc = "publish", ![t].status = status]
    BY DEF Convert
  <1> DEFINE f == [fin[t] EXCEPT !.pc = "publish", !.status = status]
  <1>2. f \in FinishRecord /\ f.pc = "publish" /\ f.slot = s
    BY <1>0 DEF FinishRecord, Statuses
  <1>3. fin' = [fin EXCEPT ![t] = f]
    BY <1>1
  <1> HIDE DEF f
  <1>4. fin' \in [Threads -> FinishRecord] /\ SlotOK' /\ FinOK'
    BY <1>0, <1>2, <1>3, FinPcEffect
  <1>5. output' \in [Slots -> [ChunkIds -> Bytes]]
    BY <1>0, <1>1, RecordFacts
  <1>6. TypeOK'
    BY <1>4, <1>5 DEF ShapeInv, TypeOK, Convert
  <1>7. CallOK' /\ TicketOK'
    BY <1>0, SameCalls
  <1> QED
    BY <1>4, <1>6, <1>7 DEF ShapeInv

\* A published slot is a slot record, ready and indexed or failed and not.
LEMMA PublishedFacts ==
  ASSUME slots \in [Slots -> SlotRecord], NEW s \in Slots, NEW status \in Statuses
  PROVE  LET q == Published(s, status) IN
         /\ q \in SlotRecord
         /\ q.row = slots[s].row /\ q.gen = slots[s].gen /\ q.epoch = slots[s].epoch
         /\ q.pins = slots[s].pins
         /\ q.state = IF status = "ok" THEN "ready" ELSE "failed"
         /\ q.indexed <=> (slots[s].indexed /\ status = "ok")
         /\ ~q.finishing /\ q.binding = NoBinding /\ q.scratch = NONE
         /\ q.failure = IF status = "ok" THEN slots[s].failure ELSE status
  <1> DEFINE r == slots[s]
             ix == r.indexed /\ status = "ok"
             fl == IF status = "ok" THEN r.failure ELSE status
             st == IF status = "ok" THEN "ready" ELSE "failed"
             q == [r EXCEPT !.state = st, !.failure = fl, !.indexed = ix, !.finishing = FALSE,
                            !.binding = NoBinding, !.scratch = NONE]
  <1>1. r \in SlotRecord
    OBVIOUS
  <1>2. Published(s, status) = q
    BY DEF Published
  <1>3. fl \in Statuses /\ ix \in BOOLEAN /\ st \in {"ready", "failed"}
    BY <1>1 DEF SlotRecord
  <1> HIDE DEF fl, ix, st, r
  <1>4. /\ q \in SlotRecord
        /\ q.row = r.row /\ q.gen = r.gen /\ q.epoch = r.epoch /\ q.pins = r.pins
        /\ q.state = st /\ q.indexed = ix
        /\ q.finishing = FALSE /\ q.binding = NoBinding /\ q.scratch = NONE /\ q.failure = fl
    BY <1>1, <1>3 DEF SlotRecord
  <1> HIDE DEF q
  <1> QED
    BY <1>2, <1>4 DEF ix, st, fl, r

\* Publishing the end of a fill keeps the invariant.
LEMMA PublishStep ==
  ASSUME ShapeInv, NEW t \in Threads, Publish(t)
  PROVE  ShapeInv'
  <1> USE DEF bindVars, ticketVars, sysVars
  <1> DEFINE s == fin[t].slot
             g == slots[s].binding
             r == slots[s].row
             h == slots[s].gen
             status == IF fin[t].pc = "wait" /\ FailedFirst(s) THEN "io_error" ELSE fin[t].status
             q == Published(s, status)
  <1>0. /\ fin[t].pc # "idle" /\ s \in Slots /\ fin[t] \in FinishRecord
        /\ slots \in [Slots -> SlotRecord] /\ slots[s].state = "filling"
        /\ UNCHANGED <<call, out, tick, tickets, waiters>>
        /\ fin' = [fin EXCEPT ![t] = NoFinish]
        /\ slots' = [slots EXCEPT ![s] = q]
    BY DEF ShapeInv, TypeOK, FinOK, Publish, Publishes
  <1>1. status \in Statuses
    BY <1>0 DEF FinishRecord, Statuses
  <1>2. g \in Generations /\ r \in Rows /\ h \in Generations
    BY <1>0 DEF ShapeInv, SlotOK, SlotRecord
  <1>3. dropped' \subseteq Transfer
    <2>1. Extent[h][r].shard \in Shards
      BY <1>2, ConstantFacts
    <2>2. /\ dropped \subseteq Transfer
          /\ dropped' = dropped \cup
               {[binding |-> g, shard |-> Extent[h][r].shard, slot |-> s, chunk |-> c, row |-> r] :
                   c \in {d \in ChunkIds : claims[s][d] = "pending"}}
      BY DEF ShapeInv, TypeOK, Publish
    <2> DEFINE m(c) == [binding |-> g, shard |-> Extent[h][r].shard, slot |-> s, chunk |-> c, row |-> r]
    <2>3. s \in Slots /\ \A c \in ChunkIds : m(c) \in Transfer
      <3>1. s \in Slots
        BY <1>0
      <3> HIDE DEF s, g, r, h
      <3> QED
        BY <1>2, <2>1, <3>1 DEF Transfer
    <2> HIDE DEF s, g, r, h
    <2>4. {m(c) : c \in {d \in ChunkIds : claims[s][d] = "pending"}} \subseteq Transfer
      BY <2>3
    <2> QED
      BY <2>2, <2>4
  <1>4. /\ claims' \in [Slots -> [ChunkIds -> {"none", "pending", "ok", "failed"}]]
        /\ scratchUsed' \subseteq Scratches
    BY DEF ShapeInv, TypeOK, Publish
  <1>5. inFlight' \in Int
    <2>1. inFlight \in Int /\ inFlight' = inFlight - 1
      BY DEF ShapeInv, TypeOK, Publish
    <2> QED
      BY <2>1
  <1>6. bindFill' \in [Generations -> Int]
    <2>1. /\ bindFill \in [Generations -> Int]
          /\ bindFill' = IF g = NoBinding THEN bindFill ELSE [bindFill EXCEPT ![g] = @ - 1]
      BY DEF ShapeInv, TypeOK, Publish
    <2> HIDE DEF g
    <2>2. bindFill[g] - 1 \in Int
      BY <1>2, <2>1
    <2> QED
      BY <1>2, <2>1, <2>2
  <1> HIDE DEF s, status
  <1>7. /\ q \in SlotRecord /\ q.state # "filling" /\ (q.indexed => q.state = "ready")
    BY <1>0, <1>1, PublishedFacts
  <1> HIDE DEF q
  <1>8. /\ slots' \in [Slots -> SlotRecord] /\ slots'[s] = q
        /\ \A z \in Slots \ {s} : slots'[z] = slots[z]
    BY <1>0, <1>7
  <1>9. SlotOK'
    BY <1>7, <1>8 DEF ShapeInv, SlotOK
  <1>10. fin' \in [Threads -> FinishRecord] /\ FinOK'
    BY <1>0, <1>8, EndEffect DEF s
  <1>11. TypeOK'
    BY <1>3, <1>4, <1>5, <1>6, <1>8, <1>10 DEF ShapeInv, TypeOK, Publish, NotifyAll
  <1>12. CallOK' /\ TicketOK'
    BY <1>0, SameCalls
  <1> QED
    BY <1>9, <1>10, <1>11, <1>12 DEF ShapeInv

\* invalidate keeps the invariant.
LEMMA InvalidateStep ==
  ASSUME ShapeInv, NEW c \in Clients, Invalidate(c)
  PROVE  ShapeInv'
  <1> USE DEF poolVars, fillVars, ticketVars, sysVars
  <1> DEFINE b == Begin("invalidate", "returned")
  <1>0. /\ call[c].pc = "idle" /\ fin[c].pc = "idle" /\ call \in [Clients -> CallRecord]
        /\ generation \in Generations /\ UNCHANGED <<slots, fin, out, tick, tickets, waiters>>
        /\ generation < MaxGeneration
    BY DEF ShapeInv, TypeOK, FinOK, Invalidate, MayCall
  <1>1. PICK status \in {"ok", "invalid_argument"} :
          /\ retiring' = IF status = "ok" THEN generation ELSE NoBinding
          /\ generation' = IF status = "ok" THEN generation + 1 ELSE generation
          /\ call' = [call EXCEPT ![c] = [b EXCEPT !.status = status]]
    BY DEF Invalidate
  <1>2. generation' \in Generations /\ retiring' \in Generations \cup {NoBinding}
    BY <1>0, <1>1, ConstantFacts DEF Generations
  <1>3. b \in CallRecord /\ b.pc = "returned"
    BY BeginFacts DEF ShapeInv
  <1> HIDE DEF b
  <1> DEFINE k == [b EXCEPT !.status = status]
  <1>4. k \in CallRecord /\ k.pc = "returned"
    <2>1. status \in Statuses
      BY DEF Statuses
    <2> QED
      BY <1>3, <2>1, FieldFacts
  <1>5. call' = [call EXCEPT ![c] = k]
    BY <1>1
  <1> HIDE DEF k
  <1>6. /\ call' \in [Clients -> CallRecord] /\ call'[c] = k
        /\ \A d \in Clients \ {c} : call'[d] = call[d]
    BY <1>0, <1>4, <1>5
  <1>7. TypeOK'
    BY <1>2, <1>6 DEF ShapeInv, TypeOK, Invalidate
  <1>8. Shape(c)'
    BY <1>4, <1>6 DEF Shape
  <1>9. \A d \in Clients \ {c} : Shape(d)'
    BY <1>0, <1>4, <1>6, OtherShape
  <1>10. SlotOK' /\ FinOK'
    <2>1. \A d \in Clients : fin[d].pc # "idle" => call'[d].pc = "finish"
      BY <1>0, <1>6 DEF ShapeInv, FinOK
    <2> QED
      BY <1>0, <2>1, SamePool DEF SameSlot
  <1>11. TicketOK'
    BY <1>0 DEF ShapeInv, TicketOK
  <1> QED
    BY <1>7, <1>8, <1>9, <1>10, <1>11 DEF ShapeInv, CallOK

\* A transfer that ends, claimed or dropped, keeps the invariant.
LEMMA CompleteSteps ==
  ASSUME ShapeInv,
         \/ \E s \in Slots, c \in ChunkIds : Complete(s, c)
         \/ \E d \in dropped : CompleteDropped(d)
  PROVE  ShapeInv'
  <1> USE DEF bindVars, ticketVars, sysVars
  <1>0. /\ slots \in [Slots -> SlotRecord] /\ output \in [Slots -> [ChunkIds -> Bytes]]
        /\ scratchData \in [Scratches -> Bytes] /\ dropped \subseteq Transfer
        /\ claims \in [Slots -> [ChunkIds -> {"none", "pending", "ok", "failed"}]]
    BY DEF ShapeInv, TypeOK
  <1> DEFINE Typed ==
        /\ claims' \in [Slots -> [ChunkIds -> {"none", "pending", "ok", "failed"}]]
        /\ dropped' \subseteq Transfer
        /\ output' \in [Slots -> [ChunkIds -> Bytes]]
        /\ scratchData' \in [Scratches -> Bytes]
        /\ UNCHANGED <<slots, fin, call, out, tick, tickets, waiters>>
  <1>1. Typed
    <2>1. ASSUME NEW s \in Slots, NEW c \in ChunkIds, Complete(s, c)
          PROVE  Typed
      <3>1. PICK result \in {"ok", "failed"} :
              LET bytes == IF result = "ok" THEN <<slots[s].gen, slots[s].row>> ELSE Garbage IN
              /\ claims' = [claims EXCEPT ![s][c] = result]
              /\ IF Converting
                 THEN scratchData' = [scratchData EXCEPT ![slots[s].scratch] = bytes] /\ UNCHANGED output
                 ELSE output' = [output EXCEPT ![s][c] = bytes] /\ UNCHANGED scratchData
        BY <2>1 DEF Complete
      <3> DEFINE bytes == IF result = "ok" THEN <<slots[s].gen, slots[s].row>> ELSE Garbage
      <3>2. bytes \in Bytes
        <4>1. slots[s].gen \in Generations /\ slots[s].row \in Rows
          BY <1>0 DEF SlotRecord
        <4> QED
          BY <4>1 DEF Bytes
      <3>3. /\ claims' = [claims EXCEPT ![s][c] = result]
            /\ \/ scratchData' = [scratchData EXCEPT ![slots[s].scratch] = bytes] /\ UNCHANGED output
               \/ output' = [output EXCEPT ![s][c] = bytes] /\ UNCHANGED scratchData
        BY <3>1
      <3> HIDE DEF bytes
      <3>4. claims' \in [Slots -> [ChunkIds -> {"none", "pending", "ok", "failed"}]]
        BY <1>0, <3>3
      <3>5. output' \in [Slots -> [ChunkIds -> Bytes]] /\ scratchData' \in [Scratches -> Bytes]
        <4>1. CASE scratchData' = [scratchData EXCEPT ![slots[s].scratch] = bytes] /\ UNCHANGED output
          BY <1>0, <3>2, <4>1
        <4>2. CASE output' = [output EXCEPT ![s][c] = bytes] /\ UNCHANGED scratchData
          BY <1>0, <3>2, <4>2
        <4> QED
          BY <3>3, <4>1, <4>2
      <3>6. UNCHANGED <<dropped, slots, fin, call, out, tick, tickets, waiters>>
        BY <2>1 DEF Complete
      <3> QED
        BY <1>0, <3>4, <3>5, <3>6
    <2>2. ASSUME NEW d \in dropped, CompleteDropped(d)
          PROVE  Typed
      <3>1. d.slot \in Slots /\ d.chunk \in ChunkIds /\ <<d.binding, d.row>> \in Bytes /\ Garbage \in Bytes
        BY <1>0, RecordFacts DEF Transfer, Bytes
      <3>2. PICK bytes \in Bytes : output' = [output EXCEPT ![d.slot][d.chunk] = bytes]
        BY <2>2, <3>1 DEF CompleteDropped
      <3>3. output' \in [Slots -> [ChunkIds -> Bytes]]
        BY <1>0, <3>2
      <3>4. /\ dropped' \subseteq dropped
            /\ UNCHANGED <<claims, scratchData, slots, fin, call, out, tick, tickets, waiters>>
        BY <2>2 DEF CompleteDropped
      <3> QED
        BY <1>0, <3>3, <3>4
    <2> QED
      BY <2>1, <2>2
  <1>2. TypeOK'
    BY <1>1 DEF ShapeInv, TypeOK, Complete, CompleteDropped
  <1>3. CallOK' /\ TicketOK'
    BY <1>1, SameCalls
  <1>4. SlotOK' /\ FinOK'
    BY <1>1 DEF ShapeInv, SlotOK, FinOK
  <1> QED
    BY <1>2, <1>3, <1>4 DEF ShapeInv

\* Wake-ups, the idle worker and destruction keep the invariant.
LEMMA SystemSteps ==
  ASSUME ShapeInv,
         WorkerIdles \/ Destroy \/ Destroyed \/ \E t \in Threads : SpuriousWake(t)
  PROVE  ShapeInv'
  <1> USE DEF tableVars, poolVars, fillVars, bindVars, ticketVars, sysVars
  <1>0. UNCHANGED <<lock, tableVars, out, call, fin>>
    BY DEF WorkerIdles, Destroy, Destroyed, SpuriousWake
  <1>1. /\ sleeping' \subseteq Threads
        /\ worker' \in {"running", "exited"}
        /\ life' \in {"live", "stopping", "destroyed", "terminated"}
    BY DEF ShapeInv, TypeOK, WorkerIdles, Destroy, Destroyed, SpuriousWake, NotifyAll, Threads
  <1>2. TypeOK'
    BY <1>0, <1>1 DEF ShapeInv, TypeOK
  <1>3. CallOK' /\ TicketOK'
    BY <1>0, SameCalls
  <1>4. SlotOK' /\ FinOK'
    BY <1>0 DEF ShapeInv, SlotOK, FinOK
  <1> QED
    BY <1>2, <1>3, <1>4 DEF ShapeInv

\* Every step of Table keeps the inductive invariant: one case for each action.
THEOREM ShapeInductive == ShapeInv /\ [Next]_vars => ShapeInv'
  <1> SUFFICES ASSUME ShapeInv, [Next]_vars PROVE ShapeInv'
    OBVIOUS
  <1>1. CASE UNCHANGED vars
    <2> USE <1>1 DEF vars, tableVars, poolVars, fillVars, bindVars, ticketVars, sysVars
    <2>1. TypeOK'
      BY DEF ShapeInv, TypeOK
    <2>2. CallOK' /\ TicketOK'
      BY SameCalls
    <2>3. SlotOK' /\ FinOK'
      BY DEF ShapeInv, SlotOK, FinOK
    <2> QED
      BY <2>1, <2>2, <2>3 DEF ShapeInv
  <1>2. ASSUME NEW c \in Clients, Start(c) PROVE ShapeInv'
    BY <1>2, CallResolveStep, CallPrefetchStep, CallWaitStep, QuietSteps, TryGetStep, InvalidateStep
       DEF Start
  <1>3. ASSUME NEW c \in Clients, Continue(c) PROVE ShapeInv'
    BY <1>3, ReleaseSteps, QuietSteps, LockStep, AdmitHitStep, AdmitMissStep, ExhaustedStep,
       ClaimFillStep, AwaitStep, SettleRowStep, WaitSteps, PrefetchHitSteps, PrefetchMissStep
       DEF Continue
  <1>4. ASSUME NEW c \in Clients, Drop(c) \/ Deadline(c) PROVE ShapeInv'
    <2>1. c \in Threads
      BY DEF Threads
    <2> QED
      BY <1>4, <2>1, ReleaseSteps, DropTicketStep, WaitSteps, QuietSteps, RelinquishStep
         DEF Drop, Deadline
  <1>5. ASSUME NEW t \in Threads, Finish(t) \/ SpuriousWake(t) PROVE ShapeInv'
    BY <1>5, BeginFinishStep, ConvertStep, PublishStep, SystemSteps DEF Finish
  <1>6. CASE WorkerStep \/ Destroy \/ Destroyed
    BY <1>6, WorkerClaimsStep, SystemSteps DEF WorkerStep
  <1>7. CASE \/ \E s \in Slots, c \in ChunkIds : Complete(s, c)
             \/ \E d \in dropped : CompleteDropped(d)
    BY <1>7, CompleteSteps
  <1> QED
    BY <1>1, <1>2, <1>3, <1>4, <1>5, <1>6, <1>7 DEF Next, Progress

\* Every reachable state of Table is well typed, for every value of the constants: pins never go below
\* zero, the CLOCK hand stays in the pool, and every position, record, slot and scratch slot a call or a
\* finisher uses exists.
THEOREM TypeCorrect == Spec => []TypeOK
  <1>1. Init => ShapeInv
    BY InitShape
  <1>2. ShapeInv /\ [Next]_vars => ShapeInv'
    BY ShapeInductive
  <1>3. ShapeInv => TypeOK
    BY DEF ShapeInv
  <1> QED
    BY <1>1, <1>2, <1>3, PTL DEF Spec
=============================================================================
