-------------------------- MODULE TableFillProofs --------------------------
(***************************************************************************)
(* More about the class Table, for every value of the constants:           *)
(*  - fills are accounted for (FillInv): one finisher, exact counts and    *)
(*    scratch slots, a binding that exists;                                *)
(*  - the process is never terminated (LifeInv) and nobody sleeps past     *)
(*    the event it waits for (WakeInv);                                    *)
(*  - a batch is all or nothing and of one generation (BatchInv), and the  *)
(*    report of wait adds up (WaitInv);                                    *)
(*  - an entry of a ticket is about its row (EntryInv), while no epoch     *)
(*    wraps around;                                                        *)
(*  - a ready row has its own bytes (BytesInv), when a row is one read.    *)
(* As far as fills go, every step is one of six kinds (FillKinds), and     *)
(* the invariants are shown for each kind.                                 *)
(***************************************************************************)
EXTENDS TableSafetyProofs

\* A slot whose finishing flag is set has a thread inside finish_fill.
FlagOK == \A s \in Slots : slots[s].finishing => Finishers(s) # {}

\* The counts of fills, all and by binding.
FillCountOK ==
    /\ inFlight = Cardinality(Filling)
    /\ \A g \in Generations : bindFill[g] = Cardinality(FillingUnder(g))

\* A fill's binding is the current or the retiring one.
BindOK == \A s \in Filling : Alive(slots[s].binding)

\* The scratch slots in use are those of the slots, each of one; a slot that is not filling has none.
ScratchOK ==
    /\ \A s \in Slots : slots[s].state # "filling" => slots[s].scratch = NONE
    /\ \A s \in Slots : slots[s].scratch # NONE => slots[s].scratch \in scratchUsed
    /\ \A s, z \in Slots : slots[s].scratch # NONE /\ slots[s].scratch = slots[z].scratch => s = z
    /\ \A k \in scratchUsed : \E s \in Slots : slots[s].scratch = k

\* The inductive invariant: the counts are kept because only the finisher of a filling slot ends its
\* fill, and bindings because the retiring one is given up only when its count is zero.
FillInv == SafeInv /\ FlagOK /\ FillCountOK /\ BindOK /\ ScratchOK

-----------------------------------------------------------------------------
(* What a step can do to fills *)

\* Nothing a fill depends on changes.
SameFills ==
    /\ \A s \in Slots : SameSlot(s) /\ slots'[s].finishing = slots[s].finishing
    /\ \A t \in Threads : (fin'[t].pc = "idle" <=> fin[t].pc = "idle") /\ fin'[t].slot = fin[t].slot
    /\ UNCHANGED <<inFlight, bindFill, scratchUsed, generation, retiring>>

\* A victim slot is given to a row.
StartsFill(k, r, o, pin) ==
    /\ ClaimsAt(k)
    /\ StartFill(k, At(k), r, o, pin)
    /\ UNCHANGED <<fin, generation, retiring>>

\* Thread t becomes the finisher of slot s, or gives it back.
TakesFill(t, s) ==
    /\ fin[t].pc = "idle"
    /\ slots[s].state = "filling"
    /\ slots' = [slots EXCEPT ![s].finishing = TRUE]
    /\ \E f \in FinishRecord : f.pc = "begin" /\ f.slot = s /\ fin' = [fin EXCEPT ![t] = f]
    /\ UNCHANGED <<inFlight, bindFill, scratchUsed, generation, retiring>>
GivesBack(t) ==
    /\ fin[t].pc # "idle"
    /\ slots' = [slots EXCEPT ![fin[t].slot].finishing = FALSE]
    /\ fin' = [fin EXCEPT ![t] = NoFinish]
    /\ sleeping' = NotifyAll
    /\ UNCHANGED <<inFlight, bindFill, scratchUsed, generation, retiring>>

\* The bindings change, the retiring one being drained.
Rebinds ==
    /\ ~RetiringInUse
    /\ \/ UNCHANGED generation /\ retiring' = NoBinding
       \/ retiring' = generation
    /\ UNCHANGED <<slots, fin, inFlight, bindFill, scratchUsed>>

\* The kinds of steps.
FillKinds ==
    \/ SameFills
    \/ \E k \in Steps, r \in Rows : \E o \in FillOutcomes(At(k), r), pin \in {0, 1} : StartsFill(k, r, o, pin)
    \/ \E t \in Threads, s \in Slots : TakesFill(t, s)
    \/ \E t \in Threads : GivesBack(t)
    \/ \E t \in Threads : Publish(t)
    \/ Rebinds

\* A step that changes none of these variables.
LEMMA UnchangedFills ==
  ASSUME UNCHANGED <<slots, fin, inFlight, bindFill, scratchUsed, generation, retiring>>
  PROVE  FillKinds
  BY DEF FillKinds, SameFills, SameSlot

\* Handing out or dropping a lease is nothing to the fills.
LEMMA PinFills ==
  ASSUME SafeInv, UNCHANGED <<fin, inFlight, bindFill, scratchUsed, generation, retiring>>,
         \/ \E c \in Clients, i \in Positions, s \in Slots, ready \in BOOLEAN : Grants(c, i, s, ready)
         \/ \E c \in Clients, i \in Positions : ReleaseLease(c, i)
  PROVE  SameFills
  <1>0. slots \in [Slots -> SlotRecord]
    BY DEF SafeInv, ShapeInv, TypeOK
  <1>1. ASSUME NEW c \in Clients, NEW i \in Positions, NEW s \in Slots, NEW ready \in BOOLEAN,
               Grants(c, i, s, ready)
        PROVE  SameFills
    <2>1. \A z \in Slots : SameSlot(z) /\ slots'[z].finishing = slots[z].finishing
      BY <1>0, <1>1, PinEffect DEF Grants
    <2> QED
      BY <2>1 DEF SameFills
  <1>2. ASSUME NEW c \in Clients, NEW i \in Positions, ReleaseLease(c, i)
        PROVE  SameFills
    <2>1. PICK s \in Slots : s = out[c][i].slot
      BY <1>2, LeaseSlot DEF SafeInv, ReleaseLease
    <2>2. slots[s].pins # 0 /\ slots[s].epoch = out[c][i].epoch
      BY <1>2, <2>1, PinnedFacts DEF SafeInv, LeaseOK, Names, ReleaseLease
    <2>3. slots' = [slots EXCEPT ![s].pins = @ - 1]
      BY <1>2, <2>1, <2>2 DEF ReleaseLease
    <2>4. \A z \in Slots : SameSlot(z) /\ slots'[z].finishing = slots[z].finishing
      BY <1>0, <2>2, <2>3, UnpinEffect
    <2> QED
      BY <2>4 DEF SameFills
  <1> QED
    BY <1>1, <1>2

\* The steps of client calls are of these kinds.
LEMMA ClientFills ==
  ASSUME SafeInv, NEW c \in Clients, Start(c) \/ Continue(c) \/ Drop(c) \/ Deadline(c)
  PROVE  FillKinds
  <1> USE DEF tableVars, poolVars, fillVars, bindVars, ticketVars, sysVars
  <1>0. ShapeInv /\ c \in Threads
    BY DEF SafeInv, Threads
  <1>1. CASE \/ CallResolve(c) \/ CallPrefetch(c) \/ CallWait(c) \/ CallDrain(c) \/ InvalidateRefused(c)
    BY <1>1, UnchangedFills DEF CallResolve, CallPrefetch, CallWait, CallDrain, InvalidateRefused
  <1>2. CASE \/ ResolveOutOfRange(c) \/ LockResolve(c) \/ AdmitExhausted(c) \/ Unwound(c)
             \/ AwaitFill(c) \/ SettleRow(c) \/ SettleEntry(c) \/ SkipEntry(c) \/ PrefetchHit(c)
             \/ PrefetchExhausted(c) \/ DrainTests(c) \/ Return(c)
             \/ DropTicket(c) \/ TimeoutEntry(c) \/ DrainTimesOut(c)
    BY <1>2, UnchangedFills DEF ResolveOutOfRange, LockResolve, AdmitExhausted, Unwound, AwaitFill,
       SettleRow, SettleEntry, SkipEntry, PrefetchHit, PrefetchExhausted, DrainTests, Return, DropTicket,
       TimeoutEntry, DrainTimesOut
  <1>3. CASE TryGet(c)
    <2>1. \E i \in Positions, s \in Slots : Grants(c, i, s, TRUE)
      BY <1>3 DEF TryGet, Grants, Indexed
    <2> QED
      BY <1>3, <2>1, PinFills DEF FillKinds, TryGet
  <1>4. CASE Release(c) \/ ResetOut(c)
    <2>1. PICK i \in Positions : ReleaseLease(c, i)
      BY <1>0, <1>4, PlaceFacts DEF Release, ResetOut
    <2> QED
      BY <2>1, PinFills DEF FillKinds, ReleaseLease
  <1>5. CASE AdmitHit(c)
    <2>0. call[c].i \in Positions /\ out[c][call[c].i].slot = NONE
      BY <1>0, <1>5, PlaceFacts DEF AdmitHit
    <2>1. \E s \in Slots : Grants(c, call[c].i, s, FALSE)
      BY <1>5, <2>0 DEF AdmitHit, Grants, Indexed
    <2> QED
      BY <1>5, <2>0, <2>1, PinFills DEF FillKinds, AdmitHit
  <1>6. CASE AdmitMiss(c)
    <2>1. PICK r \in Rows : r = call[c].rows[call[c].i]
      BY <1>0, <1>6, PlaceFacts DEF AdmitMiss
    <2>2. PICK k \in Steps : ClaimsAt(k) /\ \E o \in FillOutcomes(At(k), r) : StartFill(k, At(k), r, o, 1)
      BY <1>6, <2>1 DEF AdmitMiss
    <2>3. UNCHANGED <<fin, generation, retiring>>
      BY <1>6 DEF AdmitMiss
    <2>4. \E o \in FillOutcomes(At(k), r) : StartsFill(k, r, o, 1)
      BY <2>2, <2>3 DEF StartsFill
    <2> QED
      BY <2>4 DEF FillKinds
  <1>7. CASE PrefetchMiss(c)
    <2>1. PICK r \in Rows : r = call[c].rows[call[c].i]
      BY <1>0, <1>7, PlaceFacts DEF PrefetchMiss
    <2>2. PICK k \in Steps : ClaimsAt(k) /\ \E o \in FillOutcomes(At(k), r) : StartFill(k, At(k), r, o, 0)
      BY <1>7, <2>1 DEF PrefetchMiss
    <2>3. UNCHANGED <<fin, generation, retiring>>
      BY <1>7 DEF PrefetchMiss
    <2>4. \E o \in FillOutcomes(At(k), r) : StartsFill(k, r, o, 0)
      BY <2>2, <2>3 DEF StartsFill
    <2> QED
      BY <2>4 DEF FillKinds
  <1>8. CASE ClaimFill(c)
    <2>1. PICK s \in Slots : s = Target(c).slot
      BY <1>0, <1>8, TargetFacts DEF ClaimFill
    <2>2. PICK timed \in BOOLEAN : timed = call[c].timed
      BY <1>0 DEF ShapeInv, TypeOK, CallRecord
    <2>3. PICK g : g = [NoFinish EXCEPT !.pc = "begin", !.slot = s, !.timed = timed]
      OBVIOUS
    <2>4. g \in FinishRecord /\ g.pc = "begin" /\ g.slot = s
      BY <2>3, RecordFacts DEF FinishRecord, NoFinish
    <2>5. fin' = [fin EXCEPT ![c] = g]
      BY <1>8, <2>1, <2>2, <2>3 DEF ClaimFill
    <2>6. /\ fin[c].pc = "idle" /\ slots[s].state = "filling"
          /\ slots' = [slots EXCEPT ![s].finishing = TRUE]
          /\ UNCHANGED <<inFlight, bindFill, scratchUsed, generation, retiring>>
      BY <1>0, <1>8, <2>1 DEF ClaimFill, StillFilling, ShapeInv, FinOK
    <2>7. TakesFill(c, s)
      BY <2>4, <2>5, <2>6 DEF TakesFill
    <2> QED
      BY <1>0, <2>7 DEF FillKinds
  <1>9. CASE Relinquish(c)
    BY <1>0, <1>9 DEF FillKinds, GivesBack, Relinquish
  <1>10. CASE Invalidate(c)
    BY <1>10 DEF FillKinds, Rebinds, Invalidate
  <1> QED
    BY <1>1, <1>2, <1>3, <1>4, <1>5, <1>6, <1>7, <1>8, <1>9, <1>10 DEF Start, Continue, Drop, Deadline

\* Moving on inside finish_fill is nothing to the fills.
LEMMA FinishFills ==
  ASSUME SafeInv, NEW t \in Threads, BeginFinish(t) \/ Convert(t)
  PROVE  SameFills
  <1> USE DEF tableVars, poolVars, fillVars, bindVars, ticketVars, sysVars
  <1>0. fin \in [Threads -> FinishRecord] /\ FinOK
    BY DEF SafeInv, ShapeInv, TypeOK
  <1>1. PICK h \in FinishRecord : h = fin[t]
    BY <1>0
  <1>2. h.pc # "idle" /\ slots[h.slot].state = "filling"
    BY <1>0, <1>1 DEF FinOK, BeginFinish, Convert
  <1>3. \E pc \in {"wait", "publish"}, status \in Statuses :
          fin' = [fin EXCEPT ![t] = [h EXCEPT !.pc = pc, !.status = status]]
    <2>1. CASE BeginFinish(t)
      <3>1. fin' = [fin EXCEPT ![t] = [h EXCEPT !.pc = "wait"]]
        BY <1>1, <1>2, <2>1 DEF BeginFinish
      <3>2. [h EXCEPT !.pc = "wait"] = [h EXCEPT !.pc = "wait", !.status = h.status] /\ h.status \in Statuses
        BY DEF FinishRecord
      <3> QED
        BY <3>1, <3>2
    <2>2. CASE Convert(t)
      <3>1. PICK status \in {"ok", "codec_failed"} :
              fin' = [fin EXCEPT ![t].pc = "publish", ![t].status = status]
        BY <2>2 DEF Convert
      <3>2. fin' = [fin EXCEPT ![t] = [h EXCEPT !.pc = "publish", !.status = status]]
        BY <1>0, <1>1, <3>1
      <3>3. status \in Statuses
        BY DEF Statuses
      <3> QED
        BY <3>2, <3>3
    <2> QED
      BY <2>1, <2>2
  <1>4. PICK pc \in {"wait", "publish"}, status \in Statuses :
          fin' = [fin EXCEPT ![t] = [h EXCEPT !.pc = pc, !.status = status]]
    BY <1>3
  <1>5. PICK g : g = [h EXCEPT !.pc = pc, !.status = status]
    OBVIOUS
  <1>6. g.pc = pc /\ g.slot = h.slot
    BY <1>5 DEF FinishRecord
  <1>7. fin'[t] = g /\ \A u \in Threads \ {t} : fin'[u] = fin[u]
    BY <1>0, <1>4, <1>5
  <1>8. \A u \in Threads : (fin'[u].pc = "idle" <=> fin[u].pc = "idle") /\ fin'[u].slot = fin[u].slot
    BY <1>1, <1>2, <1>6, <1>7
  <1>9. UNCHANGED <<slots, inFlight, bindFill, scratchUsed, generation, retiring>>
    BY DEF BeginFinish, Convert
  <1> QED
    BY <1>8, <1>9 DEF SameFills, SameSlot

\* Every step is of these kinds.
LEMMA StepFills ==
  ASSUME SafeInv, [Next]_vars
  PROVE  FillKinds
  <1> USE DEF vars, tableVars, poolVars, fillVars, bindVars, ticketVars, sysVars
  <1>1. CASE UNCHANGED vars
    BY <1>1, UnchangedFills
  <1>2. ASSUME NEW c \in Clients, Start(c) \/ Continue(c) \/ Drop(c) \/ Deadline(c) PROVE FillKinds
    BY <1>2, ClientFills
  <1>3. ASSUME NEW t \in Threads, Finish(t) PROVE FillKinds
    BY <1>3, FinishFills DEF FillKinds, Finish
  <1>4. CASE \/ WorkerIdles \/ Destroy \/ Destroyed
             \/ \E t \in Threads : SpuriousWake(t)
             \/ \E s \in Slots, c \in ChunkIds : Complete(s, c)
             \/ \E d \in dropped : CompleteDropped(d)
    BY <1>4, UnchangedFills DEF WorkerIdles, Destroy, Destroyed, SpuriousWake, Complete, CompleteDropped
  <1>5. CASE WorkerClaims
    <2>1. PICK s \in Slots :
            /\ slots[s].state = "filling" /\ slots' = [slots EXCEPT ![s].finishing = TRUE]
            /\ fin' = [fin EXCEPT ![Worker] = [NoFinish EXCEPT !.pc = "begin", !.slot = s]]
      BY <1>5 DEF WorkerClaims, Unclaimed
    <2>2. PICK g : g = [NoFinish EXCEPT !.pc = "begin", !.slot = s]
      OBVIOUS
    <2>3. g \in FinishRecord /\ g.pc = "begin" /\ g.slot = s
      BY <2>2, RecordFacts DEF FinishRecord, NoFinish
    <2>4. fin' = [fin EXCEPT ![Worker] = g]
      BY <2>1, <2>2
    <2>5. fin[Worker].pc = "idle" /\ UNCHANGED <<inFlight, bindFill, scratchUsed, generation, retiring>>
      BY <1>5 DEF WorkerClaims
    <2>6. TakesFill(Worker, s) /\ Worker \in Threads
      BY <2>1, <2>3, <2>4, <2>5 DEF TakesFill, Threads
    <2> QED
      BY <2>6 DEF FillKinds
  <1> QED
    BY <1>1, <1>2, <1>3, <1>4, <1>5 DEF Next, Progress, WorkerStep

-----------------------------------------------------------------------------
(* Each kind of step keeps FillInv *)

\* What each kind of step is shown to do.
Filled == FlagOK' /\ FillCountOK' /\ BindOK' /\ ScratchOK'

\* Sets of slots are finite.
LEMMA SlotsFinite == \A T \in SUBSET Slots : IsFiniteSet(T) /\ Cardinality(T) \in Nat
  <1>1. IsFiniteSet(Slots)
    BY ConstantFacts, FS_Interval DEF Slots
  <1> QED
    BY <1>1, FS_Subset, FS_CardinalityType

\* The sets of filling slots are sets of slots.
LEMMA FillingSets ==
  /\ Filling \in SUBSET Slots /\ \A g : FillingUnder(g) \in SUBSET Slots
  /\ \A s \in Slots : s \in Filling <=> slots[s].state = "filling"
  /\ \A g : \A s \in Slots : s \in FillingUnder(g) <=> slots[s].state = "filling" /\ slots[s].binding = g
  BY DEF Filling, FillingUnder

\* The fills keep their slots and the counts.
LEMMA SameFillCounts ==
  ASSUME FillCountOK, UNCHANGED <<inFlight, bindFill>>,
         \A s \in Slots : slots'[s].state = slots[s].state /\ slots'[s].binding = slots[s].binding
  PROVE  FillCountOK' /\ Filling' = Filling
  <1>1. Filling' = Filling
    BY DEF Filling
  <1>2. \A g : FillingUnder(g)' = FillingUnder(g)
    BY <1>1 DEF FillingUnder, Filling
  <1> QED
    BY <1>1, <1>2 DEF FillCountOK

\* The scratch slots stay with their slots.
LEMMA SameScratch ==
  ASSUME ScratchOK, UNCHANGED scratchUsed,
         \A s \in Slots : slots'[s].state = slots[s].state /\ slots'[s].scratch = slots[s].scratch
  PROVE  ScratchOK'
  <1>1. \A s \in Slots : slots'[s].state # "filling" => slots'[s].scratch = NONE
    BY DEF ScratchOK
  <1>2. \A s \in Slots : slots'[s].scratch # NONE => slots'[s].scratch \in scratchUsed'
    BY DEF ScratchOK
  <1>3. \A s, z \in Slots : slots'[s].scratch # NONE /\ slots'[s].scratch = slots'[z].scratch => s = z
    BY DEF ScratchOK
  <1>4. \A k \in scratchUsed' : \E s \in Slots : slots'[s].scratch = k
    BY DEF ScratchOK
  <1> QED
    BY <1>1, <1>2, <1>3, <1>4 DEF ScratchOK

\* A step that leaves the fills and the bindings alone keeps all but the finishing flags.
LEMMA SameSlotsFilled ==
  ASSUME FillInv, \A s \in Slots : SameSlot(s),
         UNCHANGED <<inFlight, bindFill, scratchUsed, generation, retiring>>
  PROVE  FillCountOK' /\ BindOK' /\ ScratchOK'
  <1>1. FillCountOK' /\ Filling' = Filling
    BY SameFillCounts DEF FillInv, SameSlot
  <1>2. ScratchOK'
    BY SameScratch DEF FillInv, SameSlot
  <1>3. BindOK'
    BY <1>1 DEF FillInv, BindOK, Alive, SameSlot, Filling
  <1> QED
    BY <1>1, <1>2, <1>3

\* A step that is nothing to the fills.
LEMMA SameFilled ==
  ASSUME FillInv, SameFills
  PROVE  Filled
  <1>1. FillCountOK' /\ BindOK' /\ ScratchOK'
    BY SameSlotsFilled DEF SameFills
  <1>2. FlagOK'
    <2>1. \A s \in Slots : Finishers(s)' = Finishers(s)
      BY DEF SameFills, Finishers
    <2> QED
      BY <2>1 DEF FillInv, FlagOK, SameFills
  <1> QED
    BY <1>1, <1>2 DEF Filled

\* A thread takes a fill.
LEMMA TakeFilled ==
  ASSUME FillInv, NEW t \in Threads, NEW s \in Slots, TakesFill(t, s)
  PROVE  Filled
  <1>0. slots \in [Slots -> SlotRecord] /\ fin \in [Threads -> FinishRecord]
    BY DEF FillInv, SafeInv, ShapeInv, TypeOK
  <1>1. /\ \A z \in Slots : SameSlot(z)
        /\ \A z \in Slots \ {s} : slots'[z] = slots[z]
    BY <1>0, FinishingEffect DEF TakesFill
  <1>2. FillCountOK' /\ BindOK' /\ ScratchOK'
    BY <1>1, SameSlotsFilled DEF TakesFill
  <1>3. PICK f \in FinishRecord : f.pc = "begin" /\ f.slot = s /\ fin' = [fin EXCEPT ![t] = f]
    BY DEF TakesFill
  <1>4. fin'[t] = f /\ \A u \in Threads \ {t} : fin'[u] = fin[u]
    BY <1>0, <1>3
  <1>5. FlagOK'
    <2>1. t \in Finishers(s)'
      BY <1>3, <1>4 DEF Finishers
    <2>2. \A z \in Slots \ {s} : Finishers(z) \subseteq Finishers(z)'
      BY <1>3, <1>4 DEF Finishers, TakesFill
    <2> QED
      BY <1>1, <2>1, <2>2 DEF FillInv, FlagOK
  <1> QED
    BY <1>2, <1>5 DEF Filled

\* When a thread leaves finish_fill, the other finishers stay.
LEMMA OtherFinishers ==
  ASSUME SafeInv, NEW t \in Threads, fin[t].pc # "idle", fin' = [fin EXCEPT ![t] = NoFinish]
  PROVE  \A z \in Slots \ {fin[t].slot} : Finishers(z) \subseteq Finishers(z)'
  <1>1. fin \in [Threads -> FinishRecord]
    BY DEF SafeInv, ShapeInv, TypeOK
  <1>2. \A u \in Threads \ {t} : fin'[u] = fin[u]
    BY <1>1
  <1> QED
    BY <1>2 DEF Finishers

\* A thread gives a fill back.
LEMMA GiveBackFilled ==
  ASSUME FillInv, NEW t \in Threads, GivesBack(t)
  PROVE  Filled
  <1>0. slots \in [Slots -> SlotRecord] /\ SafeInv
    BY DEF FillInv, SafeInv, ShapeInv, TypeOK
  <1>1. PICK s \in Slots : s = fin[t].slot
    BY <1>0 DEF SafeInv, ShapeInv, FinOK, GivesBack
  <1>2. slots' = [slots EXCEPT ![s].finishing = FALSE]
    BY <1>1 DEF GivesBack
  <1>3. /\ \A z \in Slots : SameSlot(z)
        /\ \A z \in Slots \ {s} : slots'[z] = slots[z]
        /\ slots'[s].finishing = FALSE
    BY <1>0, <1>2, FinishingEffect
  <1>4. FillCountOK' /\ BindOK' /\ ScratchOK'
    BY <1>3, SameSlotsFilled DEF GivesBack
  <1>5. \A z \in Slots \ {s} : Finishers(z) \subseteq Finishers(z)'
    BY <1>0, <1>1, OtherFinishers DEF GivesBack
  <1>6. FlagOK'
    BY <1>3, <1>5 DEF FillInv, FlagOK
  <1> QED
    BY <1>4, <1>6 DEF Filled

\* The bindings change: no fill is under the binding that is given up.
LEMMA RebindFilled ==
  ASSUME FillInv, Rebinds
  PROVE  Filled
  <1>0. generation \in Generations /\ retiring \in Generations \cup {NoBinding} /\ SlotOK
    BY DEF FillInv, SafeInv, ShapeInv, TypeOK
  <1>1. Filling' = Filling /\ FillCountOK' /\ ScratchOK'
    BY SameFillCounts, SameScratch DEF FillInv, Rebinds
  <1>2. FlagOK'
    BY DEF FillInv, FlagOK, Finishers, Rebinds
  <1>3. \A s \in Filling : slots[s].binding = generation
    <2> SUFFICES ASSUME NEW s \in Filling, slots[s].binding # generation PROVE FALSE
      OBVIOUS
    <2>0. s \in Slots /\ slots[s].state = "filling"
      BY DEF Filling
    <2>1. slots[s].binding = retiring /\ retiring \in Generations
      BY <1>0, <2>0 DEF FillInv, BindOK, Alive, SlotOK
    <2>2. retiring # NoBinding
      BY <2>1, ConstantFacts DEF Generations, NoBinding
    <2>3. Cardinality(FillingUnder(retiring)) = 0
      BY <2>1, <2>2 DEF FillInv, FillCountOK, Rebinds, RetiringInUse
    <2>4. PICK T : T = FillingUnder(retiring)
      OBVIOUS
    <2>5. IsFiniteSet(T) /\ Cardinality(T) = 0
      BY <2>3, <2>4, SlotsFinite, FillingSets
    <2>6. T = {}
      BY <2>5, FS_EmptySet
    <2> QED
      BY <2>0, <2>1, <2>4, <2>6, FillingSets
  <1>4. BindOK'
    BY <1>1, <1>3 DEF BindOK, Alive, Rebinds
  <1> QED
    BY <1>1, <1>2, <1>4 DEF Filled

\* What publishing a fill does to slots: the finisher's slot stops filling, the others stay as they are.
LEMMA PublishEffect ==
  ASSUME SafeInv, NEW t \in Threads, Publish(t)
  PROVE  /\ fin[t].slot \in Slots /\ fin[t].pc # "idle" /\ slots[fin[t].slot].state = "filling"
         /\ slots'[fin[t].slot].state \in {"ready", "failed"} /\ ~slots'[fin[t].slot].finishing
         /\ slots'[fin[t].slot].scratch = NONE
         /\ \A z \in Slots \ {fin[t].slot} : slots'[z] = slots[z]
  <1> DEFINE s == fin[t].slot
             status == IF fin[t].pc = "wait" /\ FailedFirst(s) THEN "io_error" ELSE fin[t].status
             q == Published(s, status)
  <1>0. /\ slots \in [Slots -> SlotRecord] /\ fin[t] \in FinishRecord
        /\ s \in Slots /\ fin[t].pc # "idle" /\ slots[s].state = "filling"
    BY DEF SafeInv, ShapeInv, TypeOK, FinOK, Publish, Publishes
  <1>1. status \in Statuses
    BY <1>0 DEF FinishRecord, Statuses
  <1>2. slots' = [slots EXCEPT ![s] = q]
    BY DEF Publish
  <1> HIDE DEF status
  <1>3. q.state \in {"ready", "failed"} /\ ~q.finishing /\ q.scratch = NONE
    BY <1>0, <1>1, PublishedFacts
  <1> HIDE DEF q
  <1>4. slots'[s] = q /\ \A z \in Slots \ {s} : slots'[z] = slots[z]
    BY <1>0, <1>2
  <1> QED
    BY <1>0, <1>3, <1>4

\* Removing a slot from a set of slots.
LEMMA RemoveSlot ==
  ASSUME NEW T \in SUBSET Slots, NEW s \in T
  PROVE  Cardinality(T \ {s}) = Cardinality(T) - 1
  BY SlotsFinite, FS_RemoveElement

\* Adding a slot to a set of slots.
LEMMA AddSlot ==
  ASSUME NEW T \in SUBSET Slots, NEW s \in Slots \ T
  PROVE  Cardinality(T \cup {s}) = Cardinality(T) + 1
  BY SlotsFinite, FS_AddElement

\* A fill is published: it leaves the counts and gives its scratch slot back.
LEMMA PublishFilled ==
  ASSUME FillInv, NEW t \in Threads, Publish(t)
  PROVE  Filled
  <1>0. SafeInv /\ SlotOK /\ bindFill \in [Generations -> Int] /\ inFlight \in Int
    BY DEF FillInv, SafeInv, ShapeInv, TypeOK
  <1>1. PICK s \in Slots : s = fin[t].slot
    BY <1>0, PublishEffect
  <1>2. /\ fin[t].pc # "idle" /\ slots[s].state = "filling"
        /\ slots'[s].state \in {"ready", "failed"} /\ ~slots'[s].finishing /\ slots'[s].scratch = NONE
        /\ \A z \in Slots \ {s} : slots'[z] = slots[z]
    BY <1>0, <1>1, PublishEffect
  <1>3. PICK g \in Generations : g = slots[s].binding
    BY <1>0, <1>2 DEF SlotOK
  <1>4. g # NoBinding
    BY ConstantFacts DEF Generations, NoBinding
  <1>5. /\ scratchUsed' = scratchUsed \ {slots[s].scratch} /\ inFlight' = inFlight - 1
        /\ bindFill' = [bindFill EXCEPT ![g] = @ - 1]
        /\ fin' = [fin EXCEPT ![t] = NoFinish]
        /\ UNCHANGED <<generation, retiring>>
    BY <1>1, <1>3, <1>4 DEF Publish, bindVars
  <1>6. Filling' = Filling \ {s} /\ s \in Filling
    BY <1>2 DEF Filling
  <1>7. /\ FillingUnder(g)' = FillingUnder(g) \ {s} /\ s \in FillingUnder(g)
        /\ \A h \in Generations \ {g} : FillingUnder(h)' = FillingUnder(h)
    BY <1>2, <1>3, <1>6 DEF FillingUnder, Filling
  <1>8. FillCountOK'
    <2>1. Cardinality(Filling') = Cardinality(Filling) - 1
      BY <1>6, FillingSets, RemoveSlot
    <2>2. Cardinality(FillingUnder(g)') = Cardinality(FillingUnder(g)) - 1
      BY <1>7, FillingSets, RemoveSlot
    <2>3. \A h \in Generations : bindFill'[h] = Cardinality(FillingUnder(h)')
      BY <1>0, <1>5, <1>7, <2>2 DEF FillInv, FillCountOK
    <2>4. inFlight' = Cardinality(Filling')
      BY <1>5, <2>1 DEF FillInv, FillCountOK
    <2> QED
      BY <2>3, <2>4 DEF FillCountOK
  <1>9. BindOK'
    BY <1>2, <1>5, <1>6 DEF FillInv, BindOK, Alive, Filling
  <1>10. FlagOK'
    <2>1. \A z \in Slots \ {s} : Finishers(z) \subseteq Finishers(z)'
      BY <1>0, <1>1, <1>2, <1>5, OtherFinishers
    <2> QED
      BY <1>2, <2>1 DEF FillInv, FlagOK
  <1>11. ScratchOK'
    <2>1. \A z \in Slots : slots'[z].state # "filling" => slots'[z].scratch = NONE
      BY <1>2 DEF FillInv, ScratchOK
    <2>2. \A z \in Slots : slots'[z].scratch # NONE => slots'[z].scratch \in scratchUsed'
      <3> SUFFICES ASSUME NEW z \in Slots, slots'[z].scratch # NONE
                   PROVE  slots'[z].scratch \in scratchUsed'
        OBVIOUS
      <3>1. z # s /\ slots'[z] = slots[z]
        BY <1>2
      <3>2. slots[z].scratch \in scratchUsed /\ slots[z].scratch # slots[s].scratch
        BY <3>1 DEF FillInv, ScratchOK
      <3> QED
        BY <1>5, <3>1, <3>2
    <2>3. \A y, z \in Slots : slots'[y].scratch # NONE /\ slots'[y].scratch = slots'[z].scratch => y = z
      BY <1>2 DEF FillInv, ScratchOK
    <2>4. \A k \in scratchUsed' : \E z \in Slots : slots'[z].scratch = k
      <3> SUFFICES ASSUME NEW k \in scratchUsed, k # slots[s].scratch
                   PROVE  \E z \in Slots : slots'[z].scratch = k
        BY <1>5
      <3>1. PICK z \in Slots : slots[z].scratch = k
        BY DEF FillInv, ScratchOK
      <3> QED
        BY <1>2, <3>1
    <2> QED
      BY <2>1, <2>2, <2>3, <2>4 DEF ScratchOK
  <1> QED
    BY <1>8, <1>9, <1>10, <1>11 DEF Filled

\* A fill that starts takes a scratch slot nobody uses, if the table converts, and otherwise none.
LEMMA ScratchTaken ==
  ASSUME FillInv, NEW s \in Slots, NEW r \in Rows, NEW o \in FillOutcomes(s, r)
  PROVE  /\ o.scratch = NONE \/ o.scratch \in Scratches \ scratchUsed
         /\ o.status # "ok" => o.scratch = NONE
  <1>1. \A k \in ScratchFor : k = NONE \/ k \in Scratches \ scratchUsed
    BY DEF ScratchFor
  <1>2. o.status # "ok" => o.scratch = NONE
    BY OutcomeFacts DEF FillInv, SafeInv, ShapeInv, TypeOK
  <1>3. o.scratch = NONE \/ o.scratch \in ScratchFor
    BY DEF FillOutcomes
  <1> QED
    BY <1>1, <1>2, <1>3

\* A row is given a victim slot: a fill that starts is counted.
LEMMA StartFilled ==
  ASSUME FillInv, NEW k \in Steps, NEW r \in Rows, NEW o \in FillOutcomes(At(k), r), NEW pin \in {0, 1},
         StartsFill(k, r, o, pin)
  PROVE  Filled
  <1>0. /\ ShapeInv /\ slots \in [Slots -> SlotRecord] /\ clockHand \in Slots /\ generation \in Generations
        /\ bindFill \in [Generations -> Int] /\ inFlight \in Int /\ scratchUsed \subseteq Scratches
    BY DEF FillInv, SafeInv, ShapeInv, TypeOK
  <1>1. PICK s \in Slots : s = At(k)
    BY <1>0, HandFacts
  <1> DEFINE q == AdmittedSlot(s, r, o, pin)
             ok == o.status = "ok"
  <1>2. /\ slots'[s] = q
        /\ \A z \in Slots \ {s} : SameSlot(z) /\ slots'[z].finishing = slots[z].finishing
    BY <1>0, <1>1, StartEffect DEF StartsFill
  <1>3. slots[s].state # "filling"
    BY <1>0, <1>1, VictimFacts DEF StartsFill
  <1>4. /\ q.state = IF ok THEN "filling" ELSE "failed"
        /\ q.binding = IF ok THEN generation ELSE NoBinding
        /\ q.scratch = o.scratch /\ q.finishing = FALSE
    BY DEF AdmittedSlot
  <1>5. /\ scratchUsed' = scratchUsed \cup ({o.scratch} \ {NONE})
        /\ inFlight' = IF ok THEN inFlight + 1 ELSE inFlight
        /\ bindFill' = IF ok THEN [bindFill EXCEPT ![generation] = @ + 1] ELSE bindFill
        /\ UNCHANGED <<fin, generation, retiring>>
    BY DEF StartsFill, StartFill
  <1>6. /\ o.scratch = NONE \/ o.scratch \in Scratches \ scratchUsed
        /\ ~ok => o.scratch = NONE
    BY <1>1, ScratchTaken
  <1> HIDE DEF q, ok
  <1>7. FillCountOK'
    <2>1. CASE ok
      <3>1. Filling' = Filling \cup {s} /\ s \notin Filling
        BY <1>2, <1>3, <1>4, <2>1 DEF Filling, SameSlot
      <3>2. /\ FillingUnder(generation)' = FillingUnder(generation) \cup {s}
            /\ s \notin FillingUnder(generation)
            /\ \A h \in Generations \ {generation} : FillingUnder(h)' = FillingUnder(h)
        BY <1>2, <1>3, <1>4, <1>5, <2>1, <3>1 DEF FillingUnder, Filling, SameSlot
      <3>3. Cardinality(Filling') = Cardinality(Filling) + 1
        BY <3>1, FillingSets, AddSlot
      <3>4. Cardinality(FillingUnder(generation)') = Cardinality(FillingUnder(generation)) + 1
        BY <3>2, FillingSets, AddSlot
      <3>5. \A h \in Generations : bindFill'[h] = Cardinality(FillingUnder(h)')
        BY <1>0, <1>5, <2>1, <3>2, <3>4 DEF FillInv, FillCountOK
      <3>6. inFlight' = Cardinality(Filling')
        BY <1>5, <2>1, <3>3 DEF FillInv, FillCountOK
      <3> QED
        BY <3>5, <3>6 DEF FillCountOK
    <2>2. CASE ~ok
      <3>1. Filling' = Filling
        BY <1>2, <1>3, <1>4, <2>2 DEF Filling, SameSlot
      <3>2. \A h \in Generations : FillingUnder(h)' = FillingUnder(h)
        BY <1>2, <1>3, <3>1 DEF FillingUnder, Filling, SameSlot
      <3> QED
        BY <1>5, <2>2, <3>1, <3>2 DEF FillInv, FillCountOK
    <2> QED
      BY <2>1, <2>2
  <1>8. BindOK'
    <2> SUFFICES ASSUME NEW z \in Filling' PROVE Alive(slots[z].binding)'
      BY DEF BindOK
    <2>0. z \in Slots /\ slots'[z].state = "filling"
      BY DEF Filling
    <2>1. CASE z = s
      BY <1>2, <1>4, <1>5, <2>0, <2>1 DEF Alive
    <2>2. CASE z # s
      <3>1. z \in Filling /\ slots'[z].binding = slots[z].binding
        BY <1>2, <2>0, <2>2 DEF Filling, SameSlot
      <3> QED
        BY <1>5, <3>1 DEF FillInv, BindOK, Alive
    <2> QED
      BY <2>1, <2>2
  <1>9. FlagOK'
    <2>1. \A z \in Slots : Finishers(z)' = Finishers(z)
      BY <1>5 DEF Finishers
    <2> QED
      BY <1>2, <1>4, <2>1 DEF FillInv, FlagOK
  <1>10. ScratchOK'
    <2>0. slots[s].scratch = NONE /\ slots'[s].scratch = o.scratch
      BY <1>2, <1>3, <1>4 DEF FillInv, ScratchOK
    <2>1. \A z \in Slots : slots'[z].state # "filling" => slots'[z].scratch = NONE
      BY <1>2, <1>4, <1>6, <2>0 DEF FillInv, ScratchOK, SameSlot
    <2>2. \A z \in Slots : slots'[z].scratch # NONE => slots'[z].scratch \in scratchUsed'
      BY <1>2, <1>5, <2>0 DEF FillInv, ScratchOK, SameSlot
    <2>3. \A y, z \in Slots : slots'[y].scratch # NONE /\ slots'[y].scratch = slots'[z].scratch => y = z
      <3>1. \A z \in Slots \ {s} : slots'[z].scratch # NONE => slots'[z].scratch # o.scratch
        BY <1>2, <1>6 DEF FillInv, ScratchOK, SameSlot
      <3> QED
        BY <1>2, <2>0, <3>1 DEF FillInv, ScratchOK, SameSlot
    <2>4. \A j \in scratchUsed' : \E z \in Slots : slots'[z].scratch = j
      <3> SUFFICES ASSUME NEW j \in scratchUsed' PROVE \E z \in Slots : slots'[z].scratch = j
        OBVIOUS
      <3>1. CASE j = o.scratch
        BY <2>0, <3>1
      <3>2. CASE j # o.scratch
        <4>1. j \in scratchUsed
          BY <1>5, <3>2
        <4>2. PICK z \in Slots : slots[z].scratch = j
          BY <4>1 DEF FillInv, ScratchOK
        <4>3. j # NONE
          BY <1>0, <4>1, ConstantFacts DEF Scratches, NONE
        <4> QED
          BY <1>2, <2>0, <4>2, <4>3 DEF SameSlot
      <3> QED
        BY <3>1, <3>2
    <2> QED
      BY <2>1, <2>2, <2>3, <2>4 DEF ScratchOK
  <1> QED
    BY <1>7, <1>8, <1>9, <1>10 DEF Filled

-----------------------------------------------------------------------------
(* The theorems about fills *)

\* The constructor establishes the invariant.
LEMMA InitFill == Init => FillInv
  <1> SUFFICES ASSUME Init PROVE FillInv
    OBVIOUS
  <1>1. SafeInv
    BY InitSafe
  <1>2. \A s \in Slots : slots[s].state = "free" /\ ~slots[s].finishing /\ slots[s].scratch = NONE
    BY DEF Init, FreeSlot
  <1>3. Filling = {} /\ \A g : FillingUnder(g) = {}
    BY <1>2 DEF Filling, FillingUnder
  <1>4. FillCountOK
    BY <1>3, FS_EmptySet DEF Init, FillCountOK
  <1>5. FlagOK /\ BindOK
    BY <1>2, <1>3 DEF FlagOK, BindOK
  <1>6. ScratchOK
    BY <1>2 DEF Init, ScratchOK
  <1> QED
    BY <1>1, <1>4, <1>5, <1>6 DEF FillInv

\* Every step keeps the invariant.
THEOREM FillInductive == FillInv /\ [Next]_vars => FillInv'
  <1> SUFFICES ASSUME FillInv, [Next]_vars PROVE FillInv'
    OBVIOUS
  <1>1. SafeInv /\ SafeInv'
    BY SafeInductive DEF FillInv
  <1>2. FillKinds
    BY <1>1, StepFills
  <1>3. Filled
    BY <1>2, SameFilled, StartFilled, TakeFilled, GiveBackFilled, PublishFilled, RebindFilled DEF FillKinds
  <1> QED
    BY <1>1, <1>3 DEF FillInv, Filled

\* Every reachable state satisfies the invariant.
THEOREM FillAlways == Spec => []FillInv
  <1>1. FillInv /\ [Next]_vars => FillInv'
    BY FillInductive
  <1> QED
    BY <1>1, InitFill, PTL DEF Spec

\* in_flight_ and Binding::in_flight count the filling slots exactly, and invalidate never destroys a
\* binding that a fill still points at.
THEOREM FillCountsExact == Spec => []FillsAreCounted
  <1>1. FillInv => FillsAreCounted
    BY DEF FillInv, FillCountOK, BindOK, FillsAreCounted
  <1> QED
    BY <1>1, FillAlways, PTL

\* A set with at most one member has cardinality one or zero.
LEMMA AtMostOne ==
  ASSUME NEW T, \A x, y \in T : x = y
  PROVE  Cardinality(T) = IF T = {} THEN 0 ELSE 1
  <1>1. CASE T = {}
    BY <1>1, FS_EmptySet
  <1>2. CASE T # {}
    <2>1. PICK x : T = {x}
      BY <1>2
    <2> QED
      BY <1>2, <2>1, FS_Singleton
  <1> QED
    BY <1>1, <1>2

\* Slot::finishing is held by exactly one thread inside finish_fill, while the slot fills.
THEOREM FinishersUnique == Spec => []OneFinisher
  <1>1. FillInv => OneFinisher
    <2> SUFFICES ASSUME FillInv PROVE OneFinisher
      OBVIOUS
    <2>0. FinOK /\ FlagOK
      BY DEF FillInv, SafeInv, ShapeInv
    <2>1. \A t \in Threads : fin[t].pc # "idle" => slots[fin[t].slot].state = "filling"
      BY <2>0 DEF FinOK
    <2>2. ASSUME NEW s \in Slots
          PROVE  Cardinality(Finishers(s)) = IF slots[s].finishing THEN 1 ELSE 0
      <3>1. \A t, u \in Finishers(s) : t = u
        BY <2>0 DEF FinOK, Finishers
      <3>2. PICK T : T = Finishers(s)
        OBVIOUS
      <3>3. Cardinality(T) = IF T = {} THEN 0 ELSE 1
        BY <3>1, <3>2, AtMostOne
      <3>4. slots[s].finishing <=> T # {}
        BY <2>0, <3>2 DEF FinOK, FlagOK, Finishers
      <3> QED
        BY <3>2, <3>3, <3>4
    <2> QED
      BY <2>1, <2>2 DEF OneFinisher
  <1> QED
    BY <1>1, FillAlways, PTL

\* A scratch slot is in use by exactly one filling slot, and free otherwise.
THEOREM ScratchExact == Spec => []ScratchIsOwned
  <1>1. FillInv => ScratchIsOwned
    <2> SUFFICES ASSUME FillInv, NEW k \in Scratches
                 PROVE  Cardinality({s \in Slots : slots[s].scratch = k}) =
                          IF k \in scratchUsed THEN 1 ELSE 0
      BY DEF ScratchIsOwned
    <2>0. k # NONE
      BY ConstantFacts DEF Scratches, NONE
    <2>1. PICK T : T = {s \in Slots : slots[s].scratch = k}
      OBVIOUS
    <2>2. \A s, z \in T : s = z
      BY <2>0, <2>1 DEF FillInv, ScratchOK
    <2>3. Cardinality(T) = IF T = {} THEN 0 ELSE 1
      BY <2>2, AtMostOne
    <2>4. k \in scratchUsed <=> T # {}
      BY <2>0, <2>1 DEF FillInv, ScratchOK
    <2> QED
      BY <2>1, <2>3, <2>4
  <1> QED
    BY <1>1, FillAlways, PTL

-----------------------------------------------------------------------------
(* The end of the table *)

\* A held ticket record belongs to some client's PrefetchTicket.
HeldOK == \A k \in Records : tickets[k].held => \E c \in Clients : tick[c].record = k

\* The destructor runs with no client inside a call and no lease or ticket held.
ClosedOK ==
    life # "live" =>
        /\ \A c \in Clients : call[c].pc = "idle" /\ tick[c].record = 0
        /\ Leases = {}

\* The worker leaves its loop once the destructor has begun and no fill is left.
ExitOK == worker = "exited" => life # "live" /\ Filling = {}

\* The inductive invariant: the destructor's checks look at what ClosedOK and ExitOK keep empty.
LifeInv == FillInv /\ life # "terminated" /\ HeldOK /\ ClosedOK /\ ExitOK

\* What each step is shown to do.
Lives == life' # "terminated" /\ HeldOK' /\ ClosedOK' /\ ExitOK'

\* A client step is of a live table.
LEMMA OnlyLive ==
  ASSUME LifeInv, NEW c \in Clients, Start(c) \/ Continue(c) \/ Drop(c) \/ Deadline(c)
  PROVE  life = "live" /\ worker = "running"
  <1>0. FinOK /\ worker \in {"running", "exited"}
    BY DEF LifeInv, FillInv, SafeInv, ShapeInv, TypeOK
  <1>1. life = "live"
    <2>1. CASE Start(c) \/ Drop(c)
      BY <2>1 DEF Start, Drop, CallResolve, CallPrefetch, CallWait, CallDrain, TryGet, Invalidate,
         InvalidateRefused, Release, DropTicket, MayCall
    <2>2. CASE Relinquish(c)
      <3>1. call[c].pc = "finish"
        BY <1>0, <2>2 DEF Relinquish, FinOK
      <3> QED
        BY <3>1 DEF LifeInv, ClosedOK
    <2>3. CASE Continue(c) \/ TimeoutEntry(c) \/ DrainTimesOut(c)
      <3>1. call[c].pc # "idle"
        BY <2>3 DEF Continue, TimeoutEntry, DrainTimesOut, ResetOut, ResolveOutOfRange, LockResolve,
           AdmitHit, AdmitMiss, AdmitExhausted, Unwound, ClaimFill, AwaitFill, SettleRow, SettleEntry,
           SkipEntry, Settles, PrefetchHit, PrefetchMiss, PrefetchExhausted, DrainTests, Return
      <3> QED
        BY <3>1 DEF LifeInv, ClosedOK
    <2> QED
      BY <2>1, <2>2, <2>3 DEF Deadline
  <1> QED
    BY <1>0, <1>1 DEF LifeInv, ExitOK

\* A client step leaves the table alive and the worker running.
LEMMA StaysLive ==
  ASSUME SafeInv, NEW c \in Clients, Start(c) \/ Continue(c) \/ Drop(c) \/ Deadline(c)
  PROVE  UNCHANGED <<life, worker>>
  <1> USE DEF sysVars
  <1>0. ShapeInv
    BY DEF SafeInv
  <1>1. CASE Start(c)
    BY <1>1 DEF Start, CallResolve, CallPrefetch, CallWait, CallDrain, TryGet, Invalidate, InvalidateRefused
  <1>2. CASE Release(c) \/ ResetOut(c)
    <2>1. PICK i \in Positions : ReleaseLease(c, i)
      BY <1>0, <1>2, PlaceFacts DEF Release, ResetOut
    <2> QED
      BY <2>1, DropKind DEF ReleaseLease
  <1>3. CASE DropTicket(c)
    BY <1>0, <1>3 DEF DropTicket, ShapeInv, TicketOK
  <1>4. CASE Deadline(c)
    BY <1>4 DEF Deadline, TimeoutEntry, DrainTimesOut, Relinquish
  <1>5. CASE Continue(c) /\ ~ResetOut(c)
    BY <1>5 DEF Continue, ResolveOutOfRange, LockResolve,
         AdmitHit, AdmitMiss, AdmitExhausted, Unwound, ClaimFill, AwaitFill, SettleRow, SettleEntry,
         SkipEntry, PrefetchHit, PrefetchMiss, PrefetchExhausted, DrainTests, Return
  <1> QED
    BY <1>1, <1>2, <1>3, <1>4, <1>5 DEF Drop

\* What a client step does to tickets: nothing, or it takes a free record, or it gives one up.
LEMMA TicketKinds ==
  ASSUME NEW c \in Clients, Start(c) \/ Continue(c) \/ Drop(c) \/ Deadline(c)
  PROVE  \/ UNCHANGED <<tickets, tick>>
         \/ CallPrefetch(c)
         \/ DropTicket(c)
  <1> USE DEF tableVars, ticketVars
  <1>1. CASE Start(c) /\ ~CallPrefetch(c)
    BY <1>1 DEF Start, CallResolve, CallWait, CallDrain, TryGet, Invalidate, InvalidateRefused
  <1>2. CASE Release(c) \/ ResetOut(c)
    BY <1>2 DEF Release, ResetOut, ReleaseLease
  <1>3. CASE Deadline(c)
    BY <1>3 DEF Deadline, TimeoutEntry, DrainTimesOut, Relinquish
  <1>4. CASE Continue(c) /\ ~ResetOut(c)
    BY <1>4 DEF Continue, ResolveOutOfRange, LockResolve,
         AdmitHit, AdmitMiss, AdmitExhausted, Unwound, ClaimFill, AwaitFill, SettleRow, SettleEntry,
         SkipEntry, PrefetchHit, PrefetchMiss, PrefetchExhausted, DrainTests, Return
  <1> QED
    BY <1>1, <1>2, <1>3, <1>4 DEF Drop

\* Held records keep their owners.
LEMMA ClientHeld ==
  ASSUME LifeInv, NEW c \in Clients, Start(c) \/ Continue(c) \/ Drop(c) \/ Deadline(c)
  PROVE  HeldOK'
  <1>0. /\ tickets \in [Records -> [generation : Words, count : Nat, held : BOOLEAN]]
        /\ tick \in [Clients -> [record : Records \cup {0}, generation : Words]]
        /\ TicketOK /\ HeldOK
    BY DEF LifeInv, FillInv, SafeInv, ShapeInv, TypeOK
  <1>1. CASE UNCHANGED <<tickets, tick>>
    BY <1>0, <1>1 DEF HeldOK
  <1>2. CASE CallPrefetch(c)
    <2>1. \/ UNCHANGED <<tickets, tick>>
          \/ \E n, m : \E k \in Records :
               /\ tickets' = [tickets EXCEPT ![k] = [generation |-> n, count |-> m, held |-> TRUE]]
               /\ tick' = [tick EXCEPT ![c] = [record |-> k, generation |-> n]]
      BY <1>2 DEF CallPrefetch
    <2>2. ASSUME NEW k \in Records, NEW n, NEW m,
                 tickets' = [tickets EXCEPT ![k] = [generation |-> n, count |-> m, held |-> TRUE]],
                 tick' = [tick EXCEPT ![c] = [record |-> k, generation |-> n]]
          PROVE  HeldOK'
      <3>2. tick[c].record = 0
        BY <1>2 DEF CallPrefetch
      <3>3. tick'[c].record = k /\ \A d \in Clients \ {c} : tick'[d] = tick[d]
        BY <1>0, <2>2
      <3>4. \A j \in Records \ {k} : tickets'[j] = tickets[j]
        BY <1>0, <2>2
      <3> SUFFICES ASSUME NEW j \in Records, tickets'[j].held PROVE \E d \in Clients : tick'[d].record = j
        BY DEF HeldOK
      <3>5. CASE j # k
        <4>1. PICK d \in Clients : tick[d].record = j
          BY <1>0, <3>4, <3>5 DEF HeldOK
        <4>2. d # c
          BY <3>2, <4>1, ConstantFacts DEF Records
        <4> QED
          BY <3>3, <4>1, <4>2
      <3> QED
        BY <3>3, <3>5
    <2> QED
      BY <1>1, <2>1, <2>2
  <1>3. CASE DropTicket(c)
    <2>1. PICK k \in Records : k = tick[c].record
      BY <1>0, <1>3 DEF DropTicket
    <2>2. /\ tickets' = [tickets EXCEPT ![k].held = FALSE] /\ tick' = [tick EXCEPT ![c] = NoTicket]
      BY <1>0, <1>3, <2>1 DEF DropTicket, TicketOK
    <2>3. \A d \in Clients \ {c} : tick'[d] = tick[d]
      BY <1>0, <2>2
    <2>4. ~tickets'[k].held /\ \A j \in Records \ {k} : tickets'[j] = tickets[j]
      BY <1>0, <2>2
    <2> SUFFICES ASSUME NEW j \in Records, tickets'[j].held PROVE \E d \in Clients : tick'[d].record = j
      BY DEF HeldOK
    <2>5. j # k /\ tickets[j].held
      BY <2>4
    <2>6. PICK d \in Clients : tick[d].record = j
      BY <1>0, <2>5 DEF HeldOK
    <2>7. d # c
      BY <2>1, <2>5, <2>6
    <2> QED
      BY <2>3, <2>6, <2>7
  <1> QED
    BY <1>1, <1>2, <1>3, TicketKinds

\* A step that starts no fill and changes no call, ticket or lease keeps a closing table closing.
LEMMA QuietLives ==
  ASSUME LifeInv, UNCHANGED <<life, worker, call, tick, tickets, out>>, Filling' \subseteq Filling
  PROVE  Lives
  BY DEF LifeInv, HeldOK, ClosedOK, ExitOK, Lives, Leases

\* Nobody is inside finish_fill but the worker once the destructor runs.
LEMMA ClosedFills ==
  ASSUME LifeInv, life # "live", fin[Worker].pc = "idle", \A s \in Slots : ~Unclaimed(s)
  PROVE  Filling = {}
  <1>1. \A t \in Threads : fin[t].pc = "idle"
    BY DEF LifeInv, FillInv, SafeInv, ShapeInv, FinOK, ClosedOK, Threads
  <1>2. \A s \in Slots : ~slots[s].finishing
    BY <1>1 DEF LifeInv, FillInv, FlagOK, Finishers
  <1> QED
    BY <1>2 DEF Filling, Unclaimed

\* Every step keeps the invariant.
LEMMA LifeStep ==
  ASSUME LifeInv, [Next]_vars
  PROVE  Lives
  <1> USE DEF vars, tableVars, poolVars, fillVars, bindVars, ticketVars, sysVars
  <1>0. FillInv /\ SafeInv /\ slots \in [Slots -> SlotRecord]
    BY DEF LifeInv, FillInv, SafeInv, ShapeInv, TypeOK
  <1>1. CASE UNCHANGED vars
    BY <1>1, QuietLives DEF Filling
  <1>2. ASSUME NEW c \in Clients, Start(c) \/ Continue(c) \/ Drop(c) \/ Deadline(c) PROVE Lives
    BY <1>0, <1>2, OnlyLive, StaysLive, ClientHeld DEF Lives, LifeInv, ClosedOK, ExitOK
  <1>3. ASSUME NEW t \in Threads, BeginFinish(t) \/ Convert(t) PROVE Lives
    <2>1. UNCHANGED <<slots, life, worker, call, tick, tickets, out>>
      BY <1>3 DEF BeginFinish, Convert
    <2> QED
      BY <2>1, QuietLives DEF Filling
  <1>4. ASSUME NEW t \in Threads, Publish(t) PROVE Lives
    <2>1. UNCHANGED <<life, worker, call, tick, tickets, out>>
      BY <1>4 DEF Publish
    <2>2. Filling' \subseteq Filling
      BY <1>0, <1>4, PublishEffect DEF Filling
    <2> QED
      BY <2>1, <2>2, QuietLives
  <1>5. CASE \/ \E t \in Threads : SpuriousWake(t)
             \/ \E s \in Slots, c \in ChunkIds : Complete(s, c)
             \/ \E d \in dropped : CompleteDropped(d)
    <2>1. UNCHANGED <<slots, life, worker, call, tick, tickets, out>>
      BY <1>5 DEF SpuriousWake, Complete, CompleteDropped
    <2> QED
      BY <2>1, QuietLives DEF Filling
  <1>6. CASE WorkerClaims
    <2>1. PICK s \in Slots : slots' = [slots EXCEPT ![s].finishing = TRUE]
      BY <1>6 DEF WorkerClaims
    <2>2. \A z \in Slots : SameSlot(z)
      BY <1>0, <2>1, FinishingEffect
    <2>3. UNCHANGED <<life, worker, call, tick, tickets, out>>
      BY <1>6 DEF WorkerClaims
    <2> QED
      BY <2>2, <2>3, QuietLives DEF Filling, SameSlot
  <1>7. CASE WorkerIdles
    <2>1. UNCHANGED <<slots, life, call, tick, tickets, out>>
      BY <1>7 DEF WorkerIdles
    <2>2. HeldOK' /\ ClosedOK' /\ life' # "terminated"
      BY <2>1 DEF LifeInv, HeldOK, ClosedOK, Leases
    <2>3. ExitOK'
      <3>1. UNCHANGED worker \/ life = "stopping"
        BY <1>7 DEF WorkerIdles
      <3>2. life = "stopping" => Filling = {}
        BY <1>7, ClosedFills DEF WorkerIdles
      <3> QED
        BY <2>1, <3>1, <3>2 DEF LifeInv, ExitOK, Filling
    <2> QED
      BY <2>2, <2>3 DEF Lives
  <1>8. CASE Destroy
    BY <1>8 DEF Destroy, Lives, LifeInv, HeldOK, ClosedOK, ExitOK, Filling, Leases
  <1>9. CASE Destroyed
    <2>1. life # "live" /\ Filling = {} /\ Leases = {} /\ \A c \in Clients : tick[c].record = 0
      BY <1>9 DEF Destroyed, LifeInv, ClosedOK, ExitOK
    <2>2. inFlight = 0 /\ pinsTotal = 0
      BY <1>0, <2>1, FS_EmptySet DEF FillInv, FillCountOK, SafeInv, CountOK
    <2>3. \A k \in Records : ~tickets[k].held
      BY <2>1, ConstantFacts DEF LifeInv, HeldOK, Records
    <2>4. life' = "destroyed" /\ UNCHANGED <<slots, worker, call, tick, tickets, out>>
      BY <1>9, <2>2, <2>3 DEF Destroyed
    <2>5. HeldOK'
      BY <2>4 DEF LifeInv, HeldOK
    <2>6. ClosedOK'
      BY <2>1, <2>4 DEF LifeInv, ClosedOK, Leases
    <2>7. ExitOK'
      BY <2>1, <2>4 DEF ExitOK, Filling
    <2> QED
      BY <2>4, <2>5, <2>6, <2>7 DEF Lives
  <1> QED
    BY <1>1, <1>2, <1>3, <1>4, <1>5, <1>6, <1>7, <1>8, <1>9 DEF Next, Progress, WorkerStep, Finish

\* The constructor establishes the invariant.
LEMMA InitLife == Init => LifeInv
  <1> SUFFICES ASSUME Init PROVE LifeInv
    OBVIOUS
  <1>1. FillInv
    BY InitFill
  <1>2. life = "live" /\ worker = "running" /\ \A k \in Records : ~tickets[k].held
    BY DEF Init
  <1> QED
    BY <1>1, <1>2 DEF LifeInv, HeldOK, ClosedOK, ExitOK

\* Every reachable state satisfies the invariant.
THEOREM LifeAlways == Spec => []LifeInv
  <1>1. LifeInv /\ [Next]_vars => LifeInv'
    <2> SUFFICES ASSUME LifeInv, [Next]_vars PROVE LifeInv'
      OBVIOUS
    <2>1. FillInv'
      BY FillInductive DEF LifeInv
    <2>2. Lives
      BY LifeStep
    <2> QED
      BY <2>1, <2>2 DEF LifeInv, Lives
  <1> QED
    BY <1>1, InitLife, PTL DEF Spec

\* None of the std::terminate calls of release_lease, discard_ticket and ~Table is ever reached.
THEOREM ProcessSurvives == Spec => []NeverTerminates
  <1>1. LifeInv => NeverTerminates
    BY DEF LifeInv, NeverTerminates
  <1> QED
    BY <1>1, LifeAlways, PTL

-----------------------------------------------------------------------------
(* Sleeping on progress_ *)

\* Who sleeps has something to wait for.
AsleepOK ==
    /\ Worker \in sleeping => \A s \in Slots : ~Unclaimed(s)
    /\ \A c \in Clients : c \in sleeping =>
         \/ call[c].pc = "drain" /\ inFlight # 0
         \/ call[c].pc = "blocked" /\ StillFilling(c)

\* The inductive invariant.
WakeInv == FillInv /\ AsleepOK

\* A step of client c leaves the other clients' calls, leases, finishing and entries alone.
Frame(c) ==
    /\ \A d \in Clients \ {c} : call'[d] = call[d] /\ out'[d] = out[d] /\ fin'[d] = fin[d]
    /\ \A k \in Records : waiters'[k] = waiters[k] \/ (call[c].pc = "prefetch" /\ call[c].rec = k)

\* Every step of a client has this frame.
LEMMA ClientFrame ==
  ASSUME TypeOK, NEW c \in Clients, Start(c) \/ Continue(c) \/ Drop(c) \/ Deadline(c)
  PROVE  Frame(c)
  <1> USE DEF tableVars, poolVars, fillVars, bindVars, ticketVars, sysVars
  <1>0. /\ call \in [Clients -> CallRecord] /\ out \in [Clients -> [Positions -> LeaseRecord]]
        /\ fin \in [Threads -> FinishRecord] /\ Clients \subseteq Threads
        /\ waiters \in [Records -> [Positions -> WaiterRecord]]
    BY DEF TypeOK, Threads
  <1>1. \A d \in Clients \ {c} : call'[d] = call[d]
    <2>1. CASE Start(c)
      BY <1>0, <2>1 DEF Start, CallResolve, CallPrefetch, CallWait, CallDrain, TryGet, Invalidate,
         InvalidateRefused
    <2>2. CASE Drop(c) \/ Deadline(c)
      BY <1>0, <2>2 DEF Drop, Deadline, Release, DropTicket, TimeoutEntry, Count, DrainTimesOut, Relinquish
    <2>3. CASE \/ ResetOut(c) \/ ResolveOutOfRange(c) \/ LockResolve(c) \/ AdmitHit(c) \/ AdmitMiss(c)
               \/ AdmitExhausted(c) \/ Unwound(c)
      BY <1>0, <2>3 DEF ResetOut, ResolveOutOfRange, LockResolve, AdmitHit, AdmitMiss, AdmitExhausted,
         Admitted, AdmitFails, Unwound
    <2>4. CASE \/ ClaimFill(c) \/ AwaitFill(c) \/ SettleRow(c) \/ SettleEntry(c) \/ SkipEntry(c)
      BY <1>0, <2>4 DEF ClaimFill, AwaitFill, SettleRow, SettleEntry, SkipEntry, Count
    <2>5. CASE \/ PrefetchHit(c) \/ PrefetchMiss(c) \/ PrefetchExhausted(c) \/ DrainTests(c) \/ Return(c)
      BY <1>0, <2>5 DEF PrefetchHit, PrefetchMiss, PrefetchExhausted, Recorded, DrainTests, Return
    <2> QED
      BY <2>1, <2>2, <2>3, <2>4, <2>5 DEF Continue
  <1>2. \A d \in Clients \ {c} : out'[d] = out[d]
    <2>1. CASE Start(c)
      BY <1>0, <2>1 DEF Start, CallResolve, CallPrefetch, CallWait, CallDrain, TryGet, Invalidate,
         InvalidateRefused
    <2>2. CASE Drop(c) \/ Deadline(c)
      BY <1>0, <2>2 DEF Drop, Deadline, Release, ReleaseLease, DropTicket, TimeoutEntry, DrainTimesOut,
         Relinquish
    <2>3. CASE \/ ResetOut(c) \/ ResolveOutOfRange(c) \/ LockResolve(c) \/ AdmitHit(c) \/ AdmitMiss(c)
               \/ AdmitExhausted(c) \/ Unwound(c)
      BY <1>0, <2>3 DEF ResetOut, ReleaseLease, ResolveOutOfRange, LockResolve, AdmitHit, AdmitMiss,
         AdmitExhausted, Unwound
    <2>4. CASE \/ ClaimFill(c) \/ AwaitFill(c) \/ SettleRow(c) \/ SettleEntry(c) \/ SkipEntry(c)
      BY <1>0, <2>4 DEF ClaimFill, AwaitFill, SettleRow, SettleEntry, SkipEntry
    <2>5. CASE \/ PrefetchHit(c) \/ PrefetchMiss(c) \/ PrefetchExhausted(c) \/ DrainTests(c) \/ Return(c)
      BY <1>0, <2>5 DEF PrefetchHit, PrefetchMiss, PrefetchExhausted, DrainTests, Return
    <2> QED
      BY <2>1, <2>2, <2>3, <2>4, <2>5 DEF Continue
  <1>3. \A d \in Clients \ {c} : fin'[d] = fin[d]
    <2>1. CASE Start(c)
      BY <1>0, <2>1 DEF Start, CallResolve, CallPrefetch, CallWait, CallDrain, TryGet, Invalidate,
         InvalidateRefused
    <2>2. CASE Drop(c) \/ Deadline(c)
      BY <1>0, <2>2 DEF Drop, Deadline, Release, ReleaseLease, DropTicket, TimeoutEntry, DrainTimesOut,
         Relinquish
    <2>3. CASE Continue(c)
      BY <1>0, <2>3 DEF Continue, ResetOut, ReleaseLease, ResolveOutOfRange, LockResolve, AdmitHit,
         AdmitMiss, AdmitExhausted, Unwound, ClaimFill, AwaitFill, SettleRow, SettleEntry, SkipEntry,
         PrefetchHit, PrefetchMiss, PrefetchExhausted, DrainTests, Return
    <2> QED
      BY <2>1, <2>2, <2>3
  <1>4. \A k \in Records : waiters'[k] = waiters[k] \/ (call[c].pc = "prefetch" /\ call[c].rec = k)
    <2>1. CASE Start(c)
      BY <1>0, <2>1 DEF Start, CallResolve, CallPrefetch, CallWait, CallDrain, TryGet, Invalidate,
         InvalidateRefused
    <2>2. CASE Drop(c) \/ Deadline(c)
      BY <1>0, <2>2 DEF Drop, Deadline, Release, ReleaseLease, DropTicket, TimeoutEntry, DrainTimesOut,
         Relinquish
    <2>3. CASE \/ ResetOut(c) \/ ResolveOutOfRange(c) \/ LockResolve(c) \/ AdmitHit(c) \/ AdmitMiss(c)
               \/ AdmitExhausted(c) \/ Unwound(c) \/ ClaimFill(c) \/ AwaitFill(c) \/ SettleRow(c)
               \/ SettleEntry(c) \/ SkipEntry(c) \/ DrainTests(c) \/ Return(c)
      BY <1>0, <2>3 DEF ResetOut, ReleaseLease, ResolveOutOfRange, LockResolve, AdmitHit,
         AdmitMiss, AdmitExhausted, Unwound, ClaimFill, AwaitFill, SettleRow, SettleEntry, SkipEntry,
         DrainTests, Return
    <2>4. CASE PrefetchHit(c) \/ PrefetchMiss(c) \/ PrefetchExhausted(c)
      BY <1>0, <2>4 DEF PrefetchHit, PrefetchMiss, PrefetchExhausted, Recorded
    <2> QED
      BY <2>1, <2>2, <2>3, <2>4 DEF Continue
  <1> QED
    BY <1>1, <1>2, <1>3, <1>4 DEF Frame

\* A step of nobody's call.
Background ==
    \/ UNCHANGED vars
    \/ \E t \in Threads : Finish(t) \/ SpuriousWake(t)
    \/ WorkerStep
    \/ \E s \in Slots, c \in ChunkIds : Complete(s, c)
    \/ \E d \in dropped : CompleteDropped(d)
    \/ Destroy
    \/ Destroyed

\* Every step is a client's or the background's.
LEMMA WhoSteps ==
  ASSUME [Next]_vars
  PROVE  \/ \E c \in Clients : Start(c) \/ Continue(c) \/ Drop(c) \/ Deadline(c)
         \/ Background
  BY DEF Next, Progress, Background

\* The background leaves calls, leases, tickets, entries and lock_ alone.
LEMMA BackgroundFrame ==
  ASSUME Background
  PROVE  UNCHANGED <<call, out, tick, tickets, waiters, lock, generation>>
  BY DEF Background, vars, tableVars, poolVars, fillVars, bindVars, ticketVars, sysVars, Finish, BeginFinish,
     Convert, Publish, SpuriousWake, WorkerStep, WorkerClaims, WorkerIdles, Complete, CompleteDropped,
     Destroy, Destroyed

\* The row or entry a client drives stays the same in the steps of others.
LEMMA OtherTarget ==
  ASSUME ShapeInv, NEW c \in Clients, Frame(c), NEW d \in Clients \ {c}, call[d].pc = "blocked"
  PROVE  call'[d] = call[d] /\ Target(d)' = Target(d)
  <1>1. call'[d] = call[d] /\ out'[d] = out[d]
    BY DEF Frame
  <1>2. CASE call[d].op = "resolve"
    BY <1>1, <1>2 DEF Target
  <1>3. CASE call[d].op # "resolve"
    <2>1. call[d].rec \in Records /\ (call[c].pc = "prefetch" => call[c].rec # call[d].rec)
      BY <1>3 DEF ShapeInv, CallOK, Shape
    <2>2. waiters'[call[d].rec] = waiters[call[d].rec]
      BY <2>1 DEF Frame
    <2> QED
      BY <1>1, <1>3, <2>2 DEF Target
  <1> QED
    BY <1>2, <1>3

\* A client that takes a step is awake after it, unless the step is to go to sleep.
LEMMA AwakeClient ==
  ASSUME WakeInv, NEW c \in Clients, Start(c) \/ Continue(c) \/ Drop(c) \/ Deadline(c)
  PROVE  \/ sleeping' \subseteq sleeping \ {c}
         \/ AwaitFill(c) /\ sleeping' = sleeping \cup {c}
         \/ DrainTests(c) /\ inFlight # 0 /\ sleeping' = sleeping \cup {c} /\ call' = call
  <1> USE DEF tableVars, poolVars, fillVars, bindVars, ticketVars, sysVars
  <1>0. c \in sleeping => call[c].pc \in {"drain", "blocked"}
    BY DEF WakeInv, AsleepOK
  <1>1. CASE Start(c) \/ Drop(c)
    <2>1. call[c].pc = "idle" /\ UNCHANGED sleeping
      BY <1>1 DEF Start, Drop, CallResolve, CallPrefetch, CallWait, CallDrain, TryGet, Invalidate,
         InvalidateRefused, Release, ReleaseLease, DropTicket, MayCall
    <2> QED
      BY <1>0, <2>1
  <1>2. CASE Deadline(c)
    BY <1>2 DEF Deadline, TimeoutEntry, DrainTimesOut, Relinquish, NotifyAll
  <1>3. CASE \/ ResetOut(c) \/ ResolveOutOfRange(c) \/ LockResolve(c) \/ AdmitHit(c)
             \/ AdmitExhausted(c) \/ Unwound(c) \/ ClaimFill(c) \/ SkipEntry(c)
             \/ PrefetchHit(c) \/ PrefetchExhausted(c) \/ Return(c)
    <2>1. call[c].pc \notin {"drain", "blocked"} /\ UNCHANGED sleeping
      BY <1>3 DEF ResetOut, ReleaseLease, ResolveOutOfRange, LockResolve, AdmitHit, AdmitExhausted, Unwound,
         ClaimFill, SkipEntry, PrefetchHit, PrefetchExhausted, Return
    <2> QED
      BY <1>0, <2>1
  <1>4. CASE AdmitMiss(c) \/ PrefetchMiss(c)
    <2>1. call[c].pc \notin {"drain", "blocked"} /\ (UNCHANGED sleeping \/ sleeping' = {})
      BY <1>4 DEF AdmitMiss, PrefetchMiss, StartFill, NotifyAll
    <2> QED
      BY <1>0, <2>1
  <1>5. CASE SettleRow(c) \/ SettleEntry(c)
    <2>1. c \notin sleeping \/ call[c].pc \notin {"drain", "blocked"}
      BY <1>5 DEF SettleRow, SettleEntry, Settles
    <2>2. UNCHANGED sleeping
      BY <1>5 DEF SettleRow, SettleEntry
    <2> QED
      BY <1>0, <2>1, <2>2
  <1>6. CASE AwaitFill(c)
    BY <1>6 DEF AwaitFill
  <1>7. CASE DrainTests(c)
    BY <1>7 DEF DrainTests, Drained
  <1> QED
    BY <1>1, <1>2, <1>3, <1>4, <1>5, <1>6, <1>7 DEF Continue

\* Nobody's fill ends or is given up, and none starts.
QuietPool ==
    /\ UNCHANGED inFlight
    /\ \A s \in Slots :
         /\ slots'[s].state = "filling" <=> slots[s].state = "filling"
         /\ slots[s].state = "filling" => slots'[s].epoch = slots[s].epoch
         /\ slots'[s].state = "filling" /\ ~slots'[s].finishing => ~slots[s].finishing

\* A step wakes every sleeper or leaves what they wait for alone.
LEMMA WakesOrQuiet ==
  ASSUME FillInv, [Next]_vars
  PROVE  sleeping' = {} \/ QuietPool
  <1>0. SafeInv /\ ShapeInv /\ slots \in [Slots -> SlotRecord] /\ clockHand \in Slots
    BY DEF FillInv, SafeInv, ShapeInv, TypeOK
  <1>1. FillKinds
    BY <1>0, StepFills
  <1>2. CASE SameFills
    BY <1>2 DEF SameFills, QuietPool, SameSlot
  <1>3. ASSUME NEW k \in Steps, NEW r \in Rows, NEW o \in FillOutcomes(At(k), r), NEW pin \in {0, 1},
               StartsFill(k, r, o, pin), o.status # "ok"
        PROVE  QuietPool
    <2>1. PICK s \in Slots : s = At(k)
      BY <1>0, HandFacts
    <2>2. /\ slots'[s] = AdmittedSlot(s, r, o, pin)
          /\ \A z \in Slots \ {s} : SameSlot(z) /\ slots'[z].finishing = slots[z].finishing
      BY <1>0, <1>3, <2>1, StartEffect DEF StartsFill
    <2>3. slots[s].state # "filling" /\ slots'[s].state # "filling"
      BY <1>0, <1>3, <2>1, <2>2, VictimFacts DEF StartsFill, AdmittedSlot
    <2>4. UNCHANGED inFlight
      BY <1>3 DEF StartsFill, StartFill
    <2> QED
      BY <2>2, <2>3, <2>4 DEF QuietPool, SameSlot
  <1>4. ASSUME NEW k \in Steps, NEW r \in Rows, NEW o \in FillOutcomes(At(k), r), NEW pin \in {0, 1},
               StartsFill(k, r, o, pin), o.status = "ok"
        PROVE  sleeping' = {}
    BY <1>4 DEF StartsFill, StartFill, NotifyAll
  <1>5. ASSUME NEW t \in Threads, NEW s \in Slots, TakesFill(t, s) PROVE QuietPool
    <2>1. /\ \A z \in Slots : SameSlot(z)
          /\ \A z \in Slots \ {s} : slots'[z] = slots[z]
          /\ slots'[s].finishing
      BY <1>0, <1>5, FinishingEffect DEF TakesFill
    <2> QED
      BY <1>5, <2>1 DEF QuietPool, SameSlot, TakesFill
  <1>6. ASSUME NEW t \in Threads, GivesBack(t) \/ Publish(t) PROVE sleeping' = {}
    BY <1>6 DEF GivesBack, Publish, NotifyAll
  <1>7. CASE Rebinds
    BY <1>7 DEF Rebinds, QuietPool
  <1> QED
    BY <1>1, <1>2, <1>3, <1>4, <1>5, <1>6, <1>7 DEF FillKinds

\* The worker sleeps only when there is nothing to claim.
LEMMA BackgroundSleepers ==
  ASSUME Background
  PROVE  \/ sleeping' \subseteq sleeping
         \/ sleeping' = sleeping \cup {Worker} /\ UNCHANGED slots /\ \A s \in Slots : ~Unclaimed(s)
  BY DEF Background, vars, tableVars, poolVars, Finish, BeginFinish, Convert, Publish, NotifyAll,
     SpuriousWake, WorkerStep, WorkerClaims, WorkerIdles, Complete, CompleteDropped, Destroy, Destroyed

\* Every step keeps the invariant.
LEMMA WakeStep ==
  ASSUME WakeInv, [Next]_vars
  PROVE  AsleepOK'
  <1>0. FillInv /\ ShapeInv /\ TypeOK /\ Worker \notin Clients
    BY ThreadAssumption DEF WakeInv, FillInv, SafeInv, ShapeInv
  <1>1. CASE sleeping' = {}
    BY <1>1 DEF AsleepOK
  <1>2. CASE QuietPool
    <2>1. ASSUME NEW d \in Clients, d \in sleeping, call'[d] = call[d],
                 call[d].pc = "blocked" => Target(d)' = Target(d)
          PROVE  \/ call'[d].pc = "drain" /\ inFlight' # 0
                 \/ call'[d].pc = "blocked" /\ StillFilling(d)'
      <3>1. CASE call[d].pc = "drain" /\ inFlight # 0
        BY <1>2, <2>1, <3>1 DEF QuietPool
      <3>2. CASE call[d].pc = "blocked" /\ StillFilling(d)
        <4>1. Target(d).slot \in Slots
          BY <1>0, <3>2, TargetFacts
        <4> QED
          BY <1>2, <2>1, <3>2, <4>1 DEF QuietPool, StillFilling
      <3> QED
        BY <2>1, <3>1, <3>2 DEF WakeInv, AsleepOK
    <2>2. (\A s \in Slots : ~Unclaimed(s)) => \A s \in Slots : ~Unclaimed(s)'
      BY <1>2 DEF QuietPool, Unclaimed
    <2>3. ASSUME NEW c \in Clients, Start(c) \/ Continue(c) \/ Drop(c) \/ Deadline(c)
          PROVE  AsleepOK'
      <3>1. Frame(c)
        BY <1>0, <2>3, ClientFrame
      <3>2. \/ sleeping' \subseteq sleeping \ {c}
            \/ AwaitFill(c) /\ sleeping' = sleeping \cup {c}
            \/ DrainTests(c) /\ inFlight # 0 /\ sleeping' = sleeping \cup {c} /\ call' = call
        BY <2>3, AwakeClient
      <3>3. Worker \in sleeping' => \A s \in Slots : ~Unclaimed(s)'
        BY <1>0, <2>2, <3>2 DEF WakeInv, AsleepOK
      <3>4. ASSUME NEW d \in Clients \ {c}, d \in sleeping'
            PROVE  \/ call'[d].pc = "drain" /\ inFlight' # 0
                   \/ call'[d].pc = "blocked" /\ StillFilling(d)'
        <4>1. d \in sleeping
          BY <3>2, <3>4
        <4>2. call'[d] = call[d] /\ (call[d].pc = "blocked" => Target(d)' = Target(d))
          BY <1>0, <3>1, OtherTarget DEF Frame
        <4> QED
          BY <2>1, <4>1, <4>2
      <3>5. ASSUME c \in sleeping'
            PROVE  \/ call'[c].pc = "drain" /\ inFlight' # 0
                   \/ call'[c].pc = "blocked" /\ StillFilling(c)'
        <4>1. CASE DrainTests(c) /\ inFlight # 0 /\ call' = call
          BY <1>2, <4>1 DEF DrainTests, QuietPool
        <4>2. CASE AwaitFill(c)
          <5>1. call[c] \in CallRecord /\ call[c].pc \in {"drive", "blocked"} /\ StillFilling(c)
            BY <1>0, <4>2 DEF TypeOK, AwaitFill
          <5>2. PICK k \in CallRecord : k = call[c]
            BY <5>1
          <5>3. call' = [call EXCEPT ![c] = [k EXCEPT !.pc = "blocked"]]
            BY <4>2, <5>2 DEF AwaitFill
          <5>4. PICK h : h = [k EXCEPT !.pc = "blocked"]
            OBVIOUS
          <5>5. h.pc = "blocked" /\ h.op = k.op /\ h.i = k.i /\ h.rec = k.rec
            BY <5>4, PcFacts
          <5>6. call'[c] = h
            BY <1>0, <5>3, <5>4 DEF TypeOK
          <5>7. UNCHANGED <<out, waiters, slots>>
            BY <4>2 DEF AwaitFill, tableVars, poolVars, ticketVars
          <5>8. Target(c)' = Target(c)
            BY <5>2, <5>5, <5>6, <5>7 DEF Target
          <5> QED
            BY <5>1, <5>5, <5>6, <5>7, <5>8 DEF StillFilling
        <4> QED
          BY <3>2, <3>5, <4>1, <4>2
      <3> QED
        BY <3>3, <3>4, <3>5 DEF AsleepOK
    <2>4. CASE Background
      <3>1. UNCHANGED <<call, out, waiters>>
        BY <2>4, BackgroundFrame
      <3>2. \A d \in Clients : Target(d)' = Target(d)
        BY <3>1 DEF Target
      <3>3. \/ sleeping' \subseteq sleeping
            \/ sleeping' = sleeping \cup {Worker} /\ UNCHANGED slots /\ \A s \in Slots : ~Unclaimed(s)
        BY <2>4, BackgroundSleepers
      <3>4. Worker \in sleeping' => \A s \in Slots : ~Unclaimed(s)'
        BY <2>2, <3>3 DEF WakeInv, AsleepOK
      <3>5. \A d \in Clients : d \in sleeping' => d \in sleeping
        BY <1>0, <3>3
      <3>6. \A d \in Clients : d \in sleeping' =>
              \/ call'[d].pc = "drain" /\ inFlight' # 0
              \/ call'[d].pc = "blocked" /\ StillFilling(d)'
        BY <2>1, <3>1, <3>2, <3>5
      <3> QED
        BY <3>4, <3>6 DEF AsleepOK
    <2> QED
      BY <2>3, <2>4, WhoSteps
  <1> QED
    BY <1>0, <1>1, <1>2, WakesOrQuiet

\* Every reachable state satisfies the invariant.
THEOREM WakeAlways == Spec => []WakeInv
  <1>1. Init => WakeInv
    BY InitFill DEF Init, WakeInv, AsleepOK
  <1>2. WakeInv /\ [Next]_vars => WakeInv'
    BY FillInductive, WakeStep DEF WakeInv
  <1> QED
    BY <1>1, <1>2, PTL DEF Spec

\* No wake-up on progress_ is lost: who sleeps there still has something to wait for.
THEOREM NoLostWakeUp == Spec => []NobodySleepsTooLong
  <1>1. WakeInv => NobodySleepsTooLong
    BY DEF WakeInv, AsleepOK, NobodySleepsTooLong
  <1> QED
    BY <1>1, WakeAlways, PTL

-----------------------------------------------------------------------------
(* What a step does to the fields of a call *)

\* A call that returns keeps its operation, rows, record, tally and start.
LEMMA EndedCall ==
  ASSUME TypeOK, NEW c \in Clients, NEW status \in Statuses,
         call' = [call EXCEPT ![c] = Ended(c, status)]
  PROVE  /\ call'[c].pc = "returned" /\ call'[c].status = status /\ ~call'[c].timed
         /\ call'[c].op = call[c].op /\ call'[c].rows = call[c].rows /\ call'[c].since = call[c].since
         /\ call'[c].rec = call[c].rec /\ call'[c].tally = call[c].tally
  <1>1. PICK k \in CallRecord : k = call[c]
    BY DEF TypeOK
  <1>2. PICK h : h = [k EXCEPT !.pc = "returned", !.status = status, !.i = 1, !.timed = FALSE]
    OBVIOUS
  <1>3. /\ h.pc = "returned" /\ h.status = status /\ ~h.timed
        /\ h.op = k.op /\ h.rows = k.rows /\ h.since = k.since /\ h.rec = k.rec /\ h.tally = k.tally
    BY <1>2 DEF CallRecord
  <1>4. call'[c] = h
    BY <1>1, <1>2 DEF Ended, TypeOK
  <1> QED
    BY <1>1, <1>3, <1>4

\* A call that moves to another place keeps everything else.
LEMMA MovedCall ==
  ASSUME TypeOK, NEW c \in Clients, NEW pc,
         call' = [call EXCEPT ![c].pc = pc]
  PROVE  /\ call'[c].pc = pc /\ call'[c].i = call[c].i
         /\ call'[c].status = call[c].status /\ call'[c].timed = call[c].timed
         /\ call'[c].op = call[c].op /\ call'[c].rows = call[c].rows /\ call'[c].since = call[c].since
         /\ call'[c].rec = call[c].rec /\ call'[c].tally = call[c].tally
  <1>1. PICK k \in CallRecord : k = call[c]
    BY DEF TypeOK
  <1>2. PICK h : h = [k EXCEPT !.pc = pc]
    OBVIOUS
  <1>3. /\ h.pc = pc /\ h.i = k.i /\ h.status = k.status /\ h.timed = k.timed
        /\ h.op = k.op /\ h.rows = k.rows /\ h.since = k.since /\ h.rec = k.rec /\ h.tally = k.tally
    BY <1>2 DEF CallRecord
  <1>4. call'[c] = h
    BY <1>1, <1>2 DEF TypeOK
  <1> QED
    BY <1>1, <1>3, <1>4

\* A call that gives up on its batch keeps the batch.
LEMMA UnwindCall ==
  ASSUME TypeOK, NEW c \in Clients, NEW status,
         call' = [call EXCEPT ![c].pc = "unwind", ![c].status = status]
  PROVE  /\ call'[c].pc = "unwind" /\ call'[c].status = status /\ call'[c].timed = call[c].timed
         /\ call'[c].op = call[c].op /\ call'[c].rows = call[c].rows /\ call'[c].since = call[c].since
  <1>1. PICK k \in CallRecord : k = call[c]
    BY DEF TypeOK
  <1>2. PICK h : h = [k EXCEPT !.pc = "unwind", !.status = status]
    OBVIOUS
  <1>3. /\ h.pc = "unwind" /\ h.status = status /\ h.timed = k.timed
        /\ h.op = k.op /\ h.rows = k.rows /\ h.since = k.since
    BY <1>2 DEF CallRecord
  <1>4. call'[c] = h
    BY <1>1, <1>2 DEF TypeOK
  <1> QED
    BY <1>1, <1>3, <1>4

\* A call that goes to position n.
MovedTo(k, pc, n) == [k EXCEPT !.pc = pc, !.i = n]

LEMMA MovedToFields ==
  ASSUME NEW k \in CallRecord, NEW pc, NEW n
  PROVE  /\ MovedTo(k, pc, n).pc = pc /\ MovedTo(k, pc, n).i = n
         /\ MovedTo(k, pc, n).timed = k.timed /\ MovedTo(k, pc, n).op = k.op
         /\ MovedTo(k, pc, n).rows = k.rows /\ MovedTo(k, pc, n).since = k.since
  <1>1. PICK h : h = [k EXCEPT !.pc = pc, !.i = n]
    OBVIOUS
  <1>2. /\ h.pc = pc /\ h.i = n /\ h.timed = k.timed
        /\ h.op = k.op /\ h.rows = k.rows /\ h.since = k.since
    BY <1>1 DEF CallRecord
  <1> QED
    BY <1>1, <1>2 DEF MovedTo

\* After a row of phase A, the call is at the next row or drives the first.
LEMMA AdmittedCall ==
  ASSUME TypeOK, NEW c \in Clients, Admitted(c)
  PROVE  /\ call'[c].pc = IF call[c].i = Len(call[c].rows) THEN "drive" ELSE "admit"
         /\ call'[c].i = IF call[c].i = Len(call[c].rows) THEN 1 ELSE call[c].i + 1
         /\ lock' = IF call[c].i = Len(call[c].rows) THEN NoThread ELSE c
         /\ call'[c].timed = call[c].timed /\ call'[c].op = call[c].op /\ call'[c].rows = call[c].rows
         /\ call'[c].since = call[c].since
  <1>1. PICK pc, n :
          /\ pc = IF call[c].i = Len(call[c].rows) THEN "drive" ELSE "admit"
          /\ n = IF call[c].i = Len(call[c].rows) THEN 1 ELSE call[c].i + 1
    OBVIOUS
  <1>2. call'[c] = MovedTo(call[c], pc, n)
    BY <1>1 DEF Admitted, TypeOK, MovedTo
  <1>3. lock' = IF call[c].i = Len(call[c].rows) THEN NoThread ELSE c
    BY DEF Admitted
  <1>4. /\ call'[c].pc = pc /\ call'[c].i = n
        /\ call'[c].timed = call[c].timed /\ call'[c].op = call[c].op
        /\ call'[c].rows = call[c].rows /\ call'[c].since = call[c].since
    <2>1. call[c] \in CallRecord
      BY DEF TypeOK
    <2> QED
      BY <1>2, <2>1, MovedToFields
  <1> QED
    BY <1>1, <1>3, <1>4

\* A call that begins is of its operation, at its first place, and starts in the current generation.
LEMMA BegunCall ==
  ASSUME TypeOK, NEW op, NEW pc
  PROVE  /\ DOMAIN Begin(op, pc) = {"op", "pc", "rows", "i", "rec", "timed", "status", "tally", "since"}
         /\ Begin(op, pc).op = op /\ Begin(op, pc).pc = pc /\ Begin(op, pc).rec = 0
         /\ Begin(op, pc).status = "ok" /\ ~Begin(op, pc).timed /\ Begin(op, pc).since = generation
         /\ Begin(op, pc).tally = NoTally /\ Begin(op, pc).i = 1
  BY DEF Begin, Idle

\* A call of resolve_into begins at its reset loop, or is rejected for its arguments.
LEMMA CallResolveCall ==
  ASSUME TypeOK, NEW c \in Clients, CallResolve(c)
  PROVE  /\ call'[c].op = "resolve" /\ ~call'[c].timed /\ call'[c].since = generation
         /\ \/ call'[c].pc = "reset"
            \/ /\ call'[c].pc = "returned" /\ call'[c].status # "ok"
               /\ ArgumentError(call'[c].rows) # "ok"
  <1>1. PICK rows \in Requests :
          call' = [call EXCEPT ![c] =
                     IF ArgumentError(rows) = "ok" THEN [Begin("resolve", "reset") EXCEPT !.rows = rows]
                     ELSE [[Begin("resolve", "reset") EXCEPT !.rows = rows]
                             EXCEPT !.pc = "returned", !.status = ArgumentError(rows)]]
    BY DEF CallResolve
  <1>2. PICK b : b = Begin("resolve", "reset")
    OBVIOUS
  <1>3. b \in CallRecord /\ b.op = "resolve" /\ b.pc = "reset" /\ ~b.timed /\ b.since = generation
    BY <1>2, BegunCall, BeginFacts
  <1>4. PICK h : h = [b EXCEPT !.rows = rows]
    OBVIOUS
  <1>5. h \in CallRecord /\ h.op = "resolve" /\ h.pc = "reset" /\ ~h.timed /\ h.since = generation
        /\ h.rows = rows
    BY <1>3, <1>4 DEF CallRecord
  <1>6. CASE ArgumentError(rows) = "ok"
    <2>1. call'[c] = h
      BY <1>1, <1>2, <1>4, <1>6 DEF TypeOK
    <2> QED
      BY <1>5, <2>1
  <1>7. CASE ArgumentError(rows) # "ok"
    <2>1. PICK e \in Statuses : e = ArgumentError(rows)
      BY ArgumentFacts
    <2>2. PICK q : q = [h EXCEPT !.pc = "returned", !.status = e]
      OBVIOUS
    <2>3. /\ q.op = "resolve" /\ q.pc = "returned" /\ ~q.timed /\ q.since = generation
          /\ q.rows = rows /\ q.status = e
      BY <1>5, <2>2 DEF CallRecord
    <2>4. call'[c] = q
      BY <1>1, <1>2, <1>4, <1>7, <2>1, <2>2 DEF TypeOK
    <2> QED
      BY <1>7, <2>1, <2>3, <2>4
  <1> QED
    BY <1>6, <1>7

\* An entry of a wait is counted: the call is at the next entry, or returns.
LEMMA CountedCall ==
  ASSUME TypeOK, NEW c \in Clients, NEW kind, NEW status, Count(c, kind, status)
  PROVE  LET last == call[c].i = tickets[call[c].rec].count IN
         /\ call'[c].pc = IF last THEN "returned" ELSE "drive"
         /\ call'[c].i = IF last THEN 1 ELSE call[c].i + 1
         /\ call'[c].status = status /\ call'[c].tally = [call[c].tally EXCEPT ![kind] = @ + 1]
         /\ call'[c].op = call[c].op /\ call'[c].rec = call[c].rec
  <1>1. PICK k \in CallRecord : k = call[c]
    BY DEF TypeOK
  <1>2. PICK t : t = [k.tally EXCEPT ![kind] = @ + 1]
    OBVIOUS
  <1>3. PICK last : last = (k.i = tickets[k.rec].count)
    OBVIOUS
  <1>4. PICK g : g = [k EXCEPT !.tally = t, !.status = status]
    OBVIOUS
  <1>5. PICK h : h = IF last THEN [g EXCEPT !.pc = "returned", !.i = 1, !.timed = FALSE]
                     ELSE [g EXCEPT !.pc = "drive", !.i = g.i + 1]
    OBVIOUS
  <1>6. /\ DOMAIN g = {"op", "pc", "rows", "i", "rec", "timed", "status", "tally", "since"}
        /\ g.i = k.i /\ g.op = k.op /\ g.rec = k.rec /\ g.status = status /\ g.tally = t
    BY <1>4 DEF CallRecord
  <1>7. /\ h.pc = IF last THEN "returned" ELSE "drive"
        /\ h.i = IF last THEN 1 ELSE g.i + 1
        /\ h.op = g.op /\ h.rec = g.rec /\ h.status = g.status /\ h.tally = g.tally
    BY <1>5, <1>6
  <1>8. call' = [call EXCEPT ![c] = h]
    BY <1>1, <1>2, <1>3, <1>4, <1>5 DEF Count
  <1>9. call'[c] = h
    BY <1>8 DEF TypeOK
  <1> QED
    BY <1>1, <1>2, <1>3, <1>6, <1>7, <1>9

\* A row of prefetch is recorded: the call is at the next row with lock_ held, or returns.
LEMMA RecordedCall ==
  ASSUME TypeOK, NEW c \in Clients, NEW s, NEW epoch, Recorded(c, s, epoch), call[c].pc = "prefetch"
  PROVE  /\ call'[c].op = call[c].op /\ call'[c].pc \in {"returned", "prefetch"}
         /\ call'[c].pc = "prefetch" => lock' = c
  <1>1. CASE call[c].i = Len(call[c].rows)
    <2>1. call' = [call EXCEPT ![c] = Ended(c, "ok")]
      BY <1>1 DEF Recorded
    <2> QED
      BY <2>1, EndedCall DEF Statuses
  <1>2. CASE call[c].i # Len(call[c].rows)
    <2>1. PICK k \in CallRecord : k = call[c]
      BY DEF TypeOK
    <2>2. PICK h : h = [k EXCEPT !.i = k.i + 1]
      OBVIOUS
    <2>3. h.op = k.op /\ h.pc = k.pc
      BY <2>2 DEF CallRecord
    <2>4. call' = [call EXCEPT ![c] = h]
      BY <1>2, <2>1, <2>2 DEF Recorded
    <2>5. call'[c] = h
      BY <2>4 DEF TypeOK
    <2>6. lock' = c
      BY <1>2 DEF Recorded
    <2> QED
      BY <2>1, <2>3, <2>5, <2>6
  <1> QED
    BY <1>1, <1>2

\* A call that begins, with its rows, record, deadline or result.
LEMMA BegunFields ==
  ASSUME TypeOK, NEW op, NEW pc, NEW rows, NEW rec, NEW timed, NEW status, NEW pc2
  PROVE  LET b == Begin(op, pc)
             r == [b EXCEPT !.rows = rows] IN
         /\ [b EXCEPT !.status = status].op = op /\ [b EXCEPT !.status = status].pc = pc
         /\ [b EXCEPT !.timed = timed].op = op /\ [b EXCEPT !.timed = timed].pc = pc
         /\ [b EXCEPT !.rec = rec, !.timed = timed].op = op /\ [b EXCEPT !.rec = rec, !.timed = timed].pc = pc
         /\ [r EXCEPT !.status = status].op = op /\ [r EXCEPT !.status = status].pc = pc
         /\ [r EXCEPT !.pc = pc2, !.rec = rec].op = op /\ [r EXCEPT !.pc = pc2, !.rec = rec].pc = pc2
  <1>1. PICK b : b = Begin(op, pc)
    OBVIOUS
  <1>2. /\ DOMAIN b = {"op", "pc", "rows", "i", "rec", "timed", "status", "tally", "since"}
        /\ b.op = op /\ b.pc = pc
    BY <1>1, BegunCall
  <1>3. PICK r : r = [b EXCEPT !.rows = rows]
    OBVIOUS
  <1>4. /\ DOMAIN r = {"op", "pc", "rows", "i", "rec", "timed", "status", "tally", "since"}
        /\ r.op = op /\ r.pc = pc
    BY <1>2, <1>3
  <1>5. /\ [b EXCEPT !.status = status].op = op /\ [b EXCEPT !.status = status].pc = pc
        /\ [b EXCEPT !.timed = timed].op = op /\ [b EXCEPT !.timed = timed].pc = pc
        /\ [b EXCEPT !.rec = rec, !.timed = timed].op = op /\ [b EXCEPT !.rec = rec, !.timed = timed].pc = pc
    BY <1>2
  <1>6. /\ [r EXCEPT !.status = status].op = op /\ [r EXCEPT !.status = status].pc = pc
        /\ [r EXCEPT !.pc = pc2, !.rec = rec].op = op /\ [r EXCEPT !.pc = pc2, !.rec = rec].pc = pc2
    BY <1>4
  <1> QED
    BY <1>1, <1>3, <1>5, <1>6

-----------------------------------------------------------------------------
(* Why a row failed *)

\* No resolver answers "timeout": that status is the one of a deadline that passed.
TimeoutFree == \A g \in Generations, r \in Rows : Extent[g][r].status # "timeout"

\* A slot that has failed has a failure to report, which is not that of a deadline.
FailOK ==
    /\ \A s \in Slots : slots[s].state = "failed" =>
         slots[s].failure # "ok" /\ (TimeoutFree => slots[s].failure # "timeout")
    /\ \A t \in Threads : fin[t].status # "timeout"

\* A thread that enters or goes on with finish_fill has not met a deadline.
LEMMA FinStatus ==
  ASSUME ShapeInv, FailOK, [Next]_vars
  PROVE  \A t \in Threads : fin'[t].status # "timeout"
  <1> USE DEF tableVars, poolVars, fillVars, bindVars, ticketVars, sysVars
  <1>0. fin \in [Threads -> FinishRecord] /\ Clients \subseteq Threads /\ Worker \in Threads
    BY DEF ShapeInv, TypeOK, Threads
  <1>1. ASSUME NEW t \in Threads, NEW f, f.status # "timeout", fin' = [fin EXCEPT ![t] = f]
        PROVE  \A u \in Threads : fin'[u].status # "timeout"
    BY <1>0, <1>1 DEF FailOK
  <1>2. ASSUME NEW f \in FinishRecord, NEW pc, NEW s, NEW timed, NEW status
        PROVE  /\ [f EXCEPT !.pc = pc].status = f.status
               /\ [f EXCEPT !.pc = pc, !.slot = s].status = f.status
               /\ [f EXCEPT !.pc = pc, !.slot = s, !.timed = timed].status = f.status
               /\ [f EXCEPT !.pc = pc, !.status = status].status = status
    BY DEF FinishRecord
  <1>3. NoFinish \in FinishRecord /\ NoFinish.status # "timeout"
    BY RecordFacts DEF NoFinish
  <1>4. ASSUME NEW t \in Threads, fin' = [fin EXCEPT ![t] = NoFinish]
        PROVE  \A u \in Threads : fin'[u].status # "timeout"
    BY <1>1, <1>3, <1>4
  <1>5. CASE UNCHANGED fin
    BY <1>5 DEF FailOK
  <1>6. ASSUME NEW c \in Clients, ClaimFill(c) PROVE \A u \in Threads : fin'[u].status # "timeout"
    <2>1. PICK f : f = [NoFinish EXCEPT !.pc = "begin", !.slot = Target(c).slot, !.timed = call[c].timed]
      OBVIOUS
    <2>2. f.status # "timeout"
      BY <1>2, <1>3, <2>1
    <2>3. fin' = [fin EXCEPT ![c] = f]
      BY <1>6, <2>1 DEF ClaimFill
    <2> QED
      BY <1>0, <1>1, <2>2, <2>3
  <1>7. ASSUME NEW c \in Clients, Relinquish(c) PROVE \A u \in Threads : fin'[u].status # "timeout"
    BY <1>0, <1>4, <1>7 DEF Relinquish
  <1>8. ASSUME NEW c \in Clients, Start(c) \/ Continue(c) \/ Drop(c) \/ Deadline(c)
        PROVE  UNCHANGED fin \/ ClaimFill(c) \/ Relinquish(c)
    <2>1. CASE Start(c)
      BY <2>1 DEF Start, CallResolve, CallPrefetch, CallWait, CallDrain, TryGet, Invalidate,
         InvalidateRefused
    <2>2. CASE Drop(c) \/ Deadline(c)
      BY <2>2 DEF Drop, Deadline, Release, ReleaseLease, DropTicket, TimeoutEntry, DrainTimesOut
    <2>3. CASE Continue(c)
      BY <2>3 DEF Continue, ResetOut, ReleaseLease, ResolveOutOfRange, LockResolve, AdmitHit,
         AdmitMiss, AdmitExhausted, Unwound, AwaitFill, SettleRow, SettleEntry, SkipEntry,
         PrefetchHit, PrefetchMiss, PrefetchExhausted, DrainTests, Return
    <2> QED
      BY <1>8, <2>1, <2>2, <2>3
  <1>9. ASSUME NEW t \in Threads, BeginFinish(t) PROVE \A u \in Threads : fin'[u].status # "timeout"
    <2>1. PICK h \in FinishRecord : h = fin[t]
      BY <1>0
    <2>2. PICK f : f = IF slots[h.slot].state # "filling" THEN NoFinish ELSE [h EXCEPT !.pc = "wait"]
      OBVIOUS
    <2>3. f.status # "timeout"
      <3>1. h.status # "timeout"
        BY <2>1 DEF FailOK
      <3>2. [h EXCEPT !.pc = "wait"].status # "timeout"
        BY <1>2, <3>1
      <3> QED
        BY <1>3, <2>2, <3>2
    <2>4. fin' = [fin EXCEPT ![t] = f]
      BY <1>9, <2>1, <2>2 DEF BeginFinish
    <2> QED
      BY <1>1, <2>3, <2>4
  <1>10. ASSUME NEW t \in Threads, Convert(t) PROVE \A u \in Threads : fin'[u].status # "timeout"
    <2>1. PICK status \in {"ok", "codec_failed"} :
            fin' = [fin EXCEPT ![t].pc = "publish", ![t].status = status]
      BY <1>10 DEF Convert
    <2>2. PICK h \in FinishRecord : h = fin[t]
      BY <1>0
    <2>3. PICK f : f = [h EXCEPT !.pc = "publish", !.status = status]
      OBVIOUS
    <2>4. f.status # "timeout"
      BY <1>2, <2>3
    <2>5. fin' = [fin EXCEPT ![t] = f]
      BY <1>0, <2>1, <2>2, <2>3
    <2> QED
      BY <1>1, <2>4, <2>5
  <1>11. ASSUME NEW t \in Threads, Publish(t) PROVE \A u \in Threads : fin'[u].status # "timeout"
    BY <1>4, <1>11 DEF Publish
  <1>12. ASSUME WorkerClaims PROVE \A u \in Threads : fin'[u].status # "timeout"
    <2>1. PICK s \in Slots : fin' = [fin EXCEPT ![Worker] = [NoFinish EXCEPT !.pc = "begin", !.slot = s]]
      BY <1>12 DEF WorkerClaims
    <2>2. PICK f : f = [NoFinish EXCEPT !.pc = "begin", !.slot = s]
      OBVIOUS
    <2>3. f.status # "timeout"
      BY <1>2, <1>3, <2>2
    <2> QED
      BY <1>0, <1>1, <2>1, <2>2, <2>3
  <1>13. ASSUME Background
         PROVE  \/ UNCHANGED fin \/ WorkerClaims
                \/ \E t \in Threads : BeginFinish(t) \/ Convert(t) \/ Publish(t)
    BY <1>13 DEF Background, vars, Finish, SpuriousWake, WorkerStep, WorkerIdles, Complete, CompleteDropped,
       Destroy, Destroyed
  <1> QED
    BY <1>5, <1>6, <1>7, <1>8, <1>9, <1>10, <1>11, <1>12, <1>13, WhoSteps

\* The outcome of a fill that does not start is a failure of the resolver, the scratch pool or submit.
LEMMA OutcomeStatus ==
  ASSUME generation \in Generations, NEW s \in Slots, NEW r \in Rows, NEW o \in FillOutcomes(s, r),
         TimeoutFree
  PROVE  o.status # "timeout"
  <1>1. Extent[generation][r].status # "timeout"
    BY DEF TimeoutFree
  <1> QED
    BY <1>1 DEF FillOutcomes

\* A slot fails only with a failure.
LEMMA FailStep ==
  ASSUME SafeInv, FailOK, [Next]_vars
  PROVE  FailOK'
  <1> DEFINE Sound(r) == r.state = "failed" =>
                           r.failure # "ok" /\ (TimeoutFree => r.failure # "timeout")
  <1>0. /\ ShapeInv /\ slots \in [Slots -> SlotRecord] /\ clockHand \in Slots
        /\ generation \in Generations /\ fin \in [Threads -> FinishRecord]
    BY DEF SafeInv, ShapeInv, TypeOK
  <1>a. \A z \in Slots : Sound(slots[z])
    BY DEF FailOK
  <1>1. ASSUME \A z \in Slots : slots'[z].state = slots[z].state /\ slots'[z].failure = slots[z].failure
        PROVE  \A z \in Slots : Sound(slots'[z])
    BY <1>a, <1>1
  <1>b. ASSUME NEW s \in Slots, NEW q, slots' = [slots EXCEPT ![s] = q],
               q.state = slots[s].state, q.failure = slots[s].failure
        PROVE  \A z \in Slots : Sound(slots'[z])
    <2>1. slots'[s] = q /\ \A z \in Slots \ {s} : slots'[z] = slots[z]
      BY <1>0, <1>b
    <2> QED
      BY <1>1, <1>b, <2>1
  <1> HIDE DEF Sound
  <1>2. ASSUME UNCHANGED slots PROVE \A z \in Slots : Sound(slots'[z])
    BY <1>a, <1>2
  <1>3. ASSUME NEW c \in Clients, NEW i \in Positions, NEW s \in Slots, NEW ready \in BOOLEAN,
               Grants(c, i, s, ready)
        PROVE  \A z \in Slots : Sound(slots'[z])
    <2>1. PICK r \in SlotRecord : r = slots[s]
      BY <1>0
    <2>2. PICK q : q = [r EXCEPT !.pins = r.pins + 1, !.referenced = TRUE]
      OBVIOUS
    <2>3. q.state = r.state /\ q.failure = r.failure
      BY <2>2 DEF SlotRecord
    <2>4. slots' = [slots EXCEPT ![s] = q]
      BY <1>0, <1>3, <2>1, <2>2 DEF Grants
    <2> QED
      BY <1>b, <2>1, <2>3, <2>4
  <1>4. ASSUME NEW c \in Clients, NEW i \in Positions, ReleaseLease(c, i)
        PROVE  \A z \in Slots : Sound(slots'[z])
    <2>1. PICK s \in Slots : s = out[c][i].slot
      BY <1>0, <1>4, LeaseSlot DEF ReleaseLease
    <2>2. PICK r \in SlotRecord : r = slots[s]
      BY <1>0
    <2>3. PICK q : q = [r EXCEPT !.pins = r.pins - 1]
      OBVIOUS
    <2>4. q.state = r.state /\ q.failure = r.failure
      BY <2>3 DEF SlotRecord
    <2>5. UNCHANGED slots \/ slots' = [slots EXCEPT ![s] = q]
      BY <1>0, <1>4, <2>1, <2>2, <2>3 DEF ReleaseLease
    <2> QED
      BY <1>a, <1>b, <2>2, <2>4, <2>5
  <1>5. ASSUME NEW s \in Slots, NEW b \in BOOLEAN, Flags(s, b)
        PROVE  \A z \in Slots : Sound(slots'[z])
    <2>1. PICK r \in SlotRecord : r = slots[s]
      BY <1>0
    <2>2. PICK q : q = [r EXCEPT !.finishing = b]
      OBVIOUS
    <2>3. q.state = r.state /\ q.failure = r.failure
      BY <2>2 DEF SlotRecord
    <2>4. slots' = [slots EXCEPT ![s] = q]
      BY <1>0, <1>5, <2>1, <2>2 DEF Flags
    <2> QED
      BY <1>b, <2>1, <2>3, <2>4
  <1>6. ASSUME NEW k \in Steps, NEW r \in Rows, NEW o \in FillOutcomes(At(k), r), NEW pin \in {0, 1},
               Admits(k, r, o, pin)
        PROVE  \A z \in Slots : Sound(slots'[z])
    <2>1. PICK s \in Slots : s = At(k)
      BY <1>0, HandFacts
    <2>2. PICK W : W = Swept(k)
      OBVIOUS
    <2>3. W \in [Slots -> SlotRecord]
      BY <1>0, <2>2, SweptFacts
    <2>4. \A z \in Slots : W[z].state = slots[z].state /\ W[z].failure = slots[z].failure
      <3> SUFFICES ASSUME NEW z \in Slots PROVE W[z].state = slots[z].state /\ W[z].failure = slots[z].failure
        OBVIOUS
      <3>1. PICK g \in SlotRecord : g = slots[z]
        BY <1>0
      <3>2. PICK q : q = [g EXCEPT !.referenced = FALSE]
        OBVIOUS
      <3>3. q.state = g.state /\ q.failure = g.failure
        BY <3>2 DEF SlotRecord
      <3>4. W[z] = q \/ W[z] = g
        BY <2>2, <3>1, <3>2 DEF Swept
      <3> QED
        BY <3>1, <3>3, <3>4
    <2>5. PICK q : q = AdmittedSlot(s, r, o, pin)
      OBVIOUS
    <2>6. q.state = (IF o.status = "ok" THEN "filling" ELSE "failed") /\ q.failure = o.status
      BY <2>5 DEF AdmittedSlot
    <2>7. TimeoutFree => o.status # "timeout"
      BY <1>0, <2>1, OutcomeStatus
    <2>8. Sound(q)
      BY <2>6, <2>7 DEF Sound
    <2>9. slots' = [W EXCEPT ![s] = q]
      BY <1>6, <2>1, <2>2, <2>5 DEF Admits, StartFill
    <2>10. \A z \in Slots : Sound(W[z])
      BY <1>a, <2>4 DEF Sound
    <2> QED
      BY <2>3, <2>8, <2>9, <2>10
  <1>7. ASSUME NEW t \in Threads, Publish(t)
        PROVE  \A z \in Slots : Sound(slots'[z])
    <2>1. PICK s \in Slots : s = fin[t].slot
      BY <1>7, PublishEffect
    <2>2. PICK status \in Statuses :
            status = IF fin[t].pc = "wait" /\ FailedFirst(s) THEN "io_error" ELSE fin[t].status
      BY <1>0 DEF FinishRecord, Statuses
    <2>3. status # "timeout"
      BY <2>2 DEF FailOK
    <2>4. PICK q : q = Published(s, status)
      OBVIOUS
    <2>5. /\ q.state = IF status = "ok" THEN "ready" ELSE "failed"
          /\ q.failure = IF status = "ok" THEN slots[s].failure ELSE status
      BY <1>0, <2>4, PublishedFacts
    <2>6. Sound(q)
      BY <2>3, <2>5 DEF Sound
    <2>7. slots' = [slots EXCEPT ![s] = q]
      BY <1>7, <2>1, <2>2, <2>4 DEF Publish
    <2> QED
      BY <1>0, <1>a, <2>6, <2>7
  <1>8. ASSUME NEW c \in Clients, NEW i \in Positions, Settled(c, i)
        PROVE  \A z \in Slots : Sound(slots'[z])
    BY <1>a, <1>8 DEF Settled
  <1>9. \A z \in Slots : Sound(slots'[z])
    BY <1>0, <1>2, <1>3, <1>4, <1>5, <1>6, <1>7, <1>8, StepKinds DEF Kinds
  <1>10. \A t \in Threads : fin'[t].status # "timeout"
    BY <1>0, FinStatus
  <1> QED
    BY <1>9, <1>10 DEF FailOK, Sound

-----------------------------------------------------------------------------
(* Batches: who steps, and what the others may rely on *)

\* The places of a resolve_into call.
ResolvePlaces == {"reset", "admit", "drive", "finish", "blocked", "unwind", "returned"}

\* The steps of the other operations, the calls that do not last being left out.
OtherCall(c) ==
    \/ CallPrefetch(c) \/ CallWait(c) \/ CallDrain(c) \/ Invalidate(c) \/ InvalidateRefused(c)
    \/ SettleEntry(c) \/ SkipEntry(c) \/ TimeoutEntry(c)
    \/ PrefetchHit(c) \/ PrefetchMiss(c) \/ PrefetchExhausted(c)
    \/ DrainTests(c) \/ DrainTimesOut(c) \/ Return(c)

WaitCall(c) == CallWait(c) \/ SettleEntry(c) \/ SkipEntry(c) \/ TimeoutEntry(c)

\* They stay with their operation, and hold lock_ across steps only in prefetch.
LEMMA OtherCalls ==
  ASSUME ShapeInv, NEW c \in Clients, OtherCall(c), NEW op \in {"resolve", "wait"},
         call[c].op = op => call[c].pc \notin {"prefetch", "drain"}
  PROVE  /\ call'[c].op # op \/ (op = "wait" /\ WaitCall(c))
         /\ call'[c].pc \in {"idle", "returned", "drive", "drain"} \/ (call'[c].pc = "prefetch" /\ lock' = c)
  <1>0. TypeOK /\ call \in [Clients -> CallRecord]
    BY DEF ShapeInv, TypeOK
  <1>a. ASSUME NEW h, call' = [call EXCEPT ![c] = h] PROVE call'[c] = h
    BY <1>0, <1>a
  <1>1. CASE CallPrefetch(c)
    <2>1. PICK rows, status, k :
            rows \in Requests /\
            LET b == [Begin("prefetch", "returned") EXCEPT !.rows = rows] IN
            \/ call' = [call EXCEPT ![c] = [b EXCEPT !.status = status]]
            \/ lock' = c /\ call' = [call EXCEPT ![c] = [b EXCEPT !.pc = "prefetch", !.rec = k]]
      BY <1>1 DEF CallPrefetch
    <2>2. PICK b, r, h, g : /\ b = Begin("prefetch", "returned") /\ r = [b EXCEPT !.rows = rows]
                         /\ h = [r EXCEPT !.status = status] /\ g = [r EXCEPT !.pc = "prefetch", !.rec = k]
      OBVIOUS
    <2>3. h.op = "prefetch" /\ h.pc = "returned" /\ g.op = "prefetch" /\ g.pc = "prefetch"
      BY <1>0, <2>2, BegunFields
    <2>4. call'[c] = h \/ (call'[c] = g /\ lock' = c)
      BY <1>a, <2>1, <2>2
    <2> QED
      BY <2>3, <2>4
  <1>2. CASE CallWait(c)
    <2>1. PICK rec, timed :
            \/ call' = [call EXCEPT ![c] = [Begin("wait", "returned") EXCEPT !.status = "invalid_argument"]]
            \/ call' = [call EXCEPT ![c] = [Begin("wait", "drive") EXCEPT !.rec = rec, !.timed = timed]]
      BY <1>2 DEF CallWait
    <2>2. PICK h, g : /\ h = [Begin("wait", "returned") EXCEPT !.status = "invalid_argument"]
                      /\ g = [Begin("wait", "drive") EXCEPT !.rec = rec, !.timed = timed]
      OBVIOUS
    <2>3. h.op = "wait" /\ h.pc = "returned"
      BY <1>0, <2>2, BegunFields
    <2>4. g.op = "wait" /\ g.pc = "drive"
      BY <1>0, <2>2, BegunFields
    <2>5. call'[c] = h \/ call'[c] = g
      BY <1>a, <2>1, <2>2
    <2> QED
      BY <1>2, <2>3, <2>4, <2>5 DEF WaitCall
  <1>3. CASE CallDrain(c)
    <2>1. PICK timed : call' = [call EXCEPT ![c] = [Begin("drain", "drain") EXCEPT !.timed = timed]]
      BY <1>3 DEF CallDrain
    <2>2. PICK h : h = [Begin("drain", "drain") EXCEPT !.timed = timed]
      OBVIOUS
    <2>3. h.op = "drain" /\ h.pc = "drain"
      BY <1>0, <2>2, BegunFields
    <2> QED
      BY <1>a, <2>1, <2>2, <2>3
  <1>4. CASE Invalidate(c) \/ InvalidateRefused(c)
    <2>1. PICK status : call' = [call EXCEPT ![c] = [Begin("invalidate", "returned") EXCEPT !.status = status]]
      BY <1>4 DEF Invalidate, InvalidateRefused
    <2>2. PICK h : h = [Begin("invalidate", "returned") EXCEPT !.status = status]
      OBVIOUS
    <2>3. h.op = "invalidate" /\ h.pc = "returned"
      BY <1>0, <2>2, BegunFields
    <2> QED
      BY <1>a, <2>1, <2>2, <2>3
  <1>5. CASE SettleEntry(c) \/ SkipEntry(c) \/ TimeoutEntry(c)
    <2>1. call[c].op = "wait" /\ WaitCall(c)
      BY <1>5 DEF SettleEntry, SkipEntry, TimeoutEntry, WaitCall
    <2>2. PICK kind, status : Count(c, kind, status)
      BY <1>5 DEF SettleEntry, SkipEntry, TimeoutEntry
    <2>3. call'[c].op = call[c].op /\ call'[c].pc \in {"returned", "drive"}
      BY <1>0, <2>2, CountedCall
    <2> QED
      BY <2>1, <2>3
  <1>6. CASE PrefetchHit(c) \/ PrefetchMiss(c) \/ PrefetchExhausted(c)
    <2>1. call[c].pc = "prefetch" /\ call[c].op # op
      BY <1>6 DEF PrefetchHit, PrefetchMiss, PrefetchExhausted
    <2>2. PICK s, epoch : Recorded(c, s, epoch)
      BY <1>6 DEF PrefetchHit, PrefetchMiss, PrefetchExhausted
    <2>3. /\ call'[c].op = call[c].op /\ call'[c].pc \in {"returned", "prefetch"}
          /\ call'[c].pc = "prefetch" => lock' = c
      BY <1>0, <2>1, <2>2, RecordedCall
    <2> QED
      BY <2>1, <2>3
  <1>7. CASE DrainTests(c) \/ DrainTimesOut(c)
    <2>1. call[c].pc = "drain" /\ call[c].op # op
      BY <1>7 DEF DrainTests, DrainTimesOut
    <2>2. PICK status \in Statuses : call' = call \/ call' = [call EXCEPT ![c] = Ended(c, status)]
      BY <1>7 DEF DrainTests, DrainTimesOut, Statuses
    <2>3. CASE call' = call
      BY <2>1, <2>3
    <2>4. CASE call' = [call EXCEPT ![c] = Ended(c, status)]
      <3>1. call'[c].op = call[c].op /\ call'[c].pc = "returned"
        BY <1>0, <2>4, EndedCall
      <3> QED
        BY <2>1, <3>1
    <2> QED
      BY <2>2, <2>3, <2>4
  <1>8. CASE Return(c)
    BY <1>0, <1>8 DEF Return, Idle
  <1> QED
    BY <1>1, <1>2, <1>3, <1>4, <1>5, <1>6, <1>7, <1>8 DEF OtherCall

\* The steps of resolve_into, and the steps that leave the call alone.
ResolveCall(c) ==
    \/ CallResolve(c) \/ ResolveOutOfRange(c) \/ LockResolve(c)
    \/ AdmitHit(c) \/ AdmitMiss(c) \/ AdmitExhausted(c) \/ Unwound(c)
    \/ ClaimFill(c) \/ AwaitFill(c) \/ SettleRow(c)
SameCall(c) == ResetOut(c) \/ TryGet(c) \/ Release(c) \/ DropTicket(c) \/ Relinquish(c)

\* Every step of a client is one of these.
LEMMA ClientSteps ==
  ASSUME NEW c \in Clients, Start(c) \/ Continue(c) \/ Drop(c) \/ Deadline(c)
  PROVE  OtherCall(c) \/ ResolveCall(c) \/ SameCall(c)
  BY DEF Start, Continue, Drop, Deadline, OtherCall, ResolveCall, SameCall

\* lock_ is held across steps by the client in phase A or in the loop of prefetch.
LockOK == \A c \in Clients : call[c].pc \in {"admit", "prefetch"} => lock = c

\* A client's step takes lock_ when it is free and gives up only its own.
LEMMA LockMoves ==
  ASSUME ShapeInv, LockOK, NEW c \in Clients, Start(c) \/ Continue(c) \/ Drop(c) \/ Deadline(c)
  PROVE  lock' = lock \/ lock = NoThread \/ lock = c
  <1> USE DEF tableVars, poolVars, fillVars, bindVars, ticketVars, sysVars
  <1>1. CASE Start(c)
    BY <1>1 DEF Start, CallResolve, CallPrefetch, CallWait, CallDrain, TryGet, Invalidate,
       InvalidateRefused
  <1>2. CASE Drop(c) \/ Deadline(c)
    BY <1>2 DEF Drop, Deadline, Release, ReleaseLease, DropTicket, TimeoutEntry, DrainTimesOut, Relinquish
  <1>3. CASE \/ ResetOut(c) \/ ResolveOutOfRange(c) \/ LockResolve(c) \/ Unwound(c)
             \/ ClaimFill(c) \/ AwaitFill(c) \/ SettleRow(c) \/ SettleEntry(c) \/ SkipEntry(c)
             \/ DrainTests(c) \/ Return(c)
    BY <1>3 DEF ResetOut, ReleaseLease, ResolveOutOfRange, LockResolve, Unwound, ClaimFill, AwaitFill,
       SettleRow, SettleEntry, SkipEntry, DrainTests, Return
  <1>4. CASE \/ AdmitHit(c) \/ AdmitMiss(c) \/ AdmitExhausted(c)
             \/ PrefetchHit(c) \/ PrefetchMiss(c) \/ PrefetchExhausted(c)
    BY <1>4 DEF LockOK, AdmitHit, AdmitMiss, AdmitExhausted, PrefetchHit, PrefetchMiss, PrefetchExhausted
  <1> QED
    BY <1>1, <1>2, <1>3, <1>4 DEF Continue

\* After a step of resolve_into the client holds lock_ if it is in phase A.
LEMMA ResolveLocks ==
  ASSUME ShapeInv, NEW c \in Clients, ResolveCall(c)
  PROVE  call'[c].pc \in {"admit", "prefetch"} => lock' = c
  <1>0. TypeOK /\ call \in [Clients -> CallRecord] /\ slots \in [Slots -> SlotRecord]
    BY DEF ShapeInv, TypeOK
  <1>1. CASE CallResolve(c)
    BY <1>0, <1>1, CallResolveCall
  <1>2. CASE ResolveOutOfRange(c) \/ Unwound(c)
    <2>1. PICK status \in Statuses : call' = [call EXCEPT ![c] = Ended(c, status)]
      BY <1>0, <1>2 DEF ResolveOutOfRange, Unwound, Statuses, CallRecord
    <2> QED
      BY <1>0, <2>1, EndedCall
  <1>3. CASE LockResolve(c)
    BY <1>3 DEF LockResolve
  <1>4. CASE AdmitHit(c) \/ AdmitMiss(c) \/ AdmitExhausted(c)
    <2>1. Admitted(c) \/ \E status : AdmitFails(c, status)
      BY <1>4 DEF AdmitHit, AdmitMiss, AdmitExhausted
    <2>2. CASE Admitted(c)
      BY <1>0, <2>2, AdmittedCall
    <2>3. CASE \E status : AdmitFails(c, status)
      BY <1>0, <2>3, UnwindCall DEF AdmitFails
    <2> QED
      BY <2>1, <2>2, <2>3
  <1>5. CASE ClaimFill(c) \/ AwaitFill(c)
    <2>1. PICK pc \in {"finish", "blocked"} : call' = [call EXCEPT ![c].pc = pc]
      BY <1>5 DEF ClaimFill, AwaitFill
    <2> QED
      BY <1>0, <2>1, MovedCall
  <1>6. CASE SettleRow(c)
    <2>1. \/ call' = [call EXCEPT ![c] = Ended(c, "ok")]
          \/ call' = [call EXCEPT ![c] = [call[c] EXCEPT !.pc = "drive", !.i = call[c].i + 1]]
          \/ \E status : call' = [call EXCEPT ![c].pc = "unwind", ![c].status = status]
      BY <1>6 DEF SettleRow
    <2>2. CASE call' = [call EXCEPT ![c] = Ended(c, "ok")]
      BY <1>0, <2>2, EndedCall DEF Statuses
    <2>3. CASE call' = [call EXCEPT ![c] = [call[c] EXCEPT !.pc = "drive", !.i = call[c].i + 1]]
      <3>1. PICK pc, k : pc = "drive" /\ k = call[c].i + 1
        OBVIOUS
      <3>2. call'[c] = MovedTo(call[c], pc, k)
        BY <1>0, <2>3, <3>1 DEF TypeOK, MovedTo
      <3>k. call[c] \in CallRecord
        BY <1>0 DEF TypeOK
      <3>3. call'[c].pc = pc
        BY <3>2, <3>k, MovedToFields
      <3> QED
        BY <3>1, <3>3
    <2>4. CASE \E status : call' = [call EXCEPT ![c].pc = "unwind", ![c].status = status]
      BY <1>0, <2>4, UnwindCall
    <2> QED
      BY <2>1, <2>2, <2>3, <2>4
  <1> QED
    BY <1>1, <1>2, <1>3, <1>4, <1>5, <1>6 DEF ResolveCall

\* lock_ stays with the client that is in its critical section.
LEMMA LockStays ==
  ASSUME ShapeInv, LockOK, [Next]_vars,
         \A c \in Clients : call[c].op = "resolve" => call[c].pc \in ResolvePlaces
  PROVE  LockOK'
  <1>0. TypeOK /\ NoThread \notin Clients
    BY ThreadAssumption DEF ShapeInv
  <1>1. CASE Background
    BY <1>1, BackgroundFrame DEF LockOK
  <1>2. ASSUME NEW c \in Clients, Start(c) \/ Continue(c) \/ Drop(c) \/ Deadline(c)
        PROVE  LockOK'
    <2>1. \A d \in Clients \ {c} : call'[d] = call[d]
      BY <1>0, <1>2, ClientFrame DEF Frame
    <2>2. lock' = lock \/ lock = NoThread \/ lock = c
      BY <1>2, LockMoves
    <2>3. \A d \in Clients \ {c} : call'[d].pc \in {"admit", "prefetch"} => lock' = d
      BY <1>0, <2>1, <2>2 DEF LockOK
    <2>4. call'[c].pc \in {"admit", "prefetch"} => lock' = c
      <3>1. CASE OtherCall(c)
        <4>1. PICK op \in {"resolve", "wait"} : op = "resolve"
          OBVIOUS
        <4>2. call[c].op = op => call[c].pc \notin {"prefetch", "drain"}
          BY <4>1 DEF ResolvePlaces
        <4> QED
          BY <3>1, <4>2, OtherCalls
      <3>2. CASE ResolveCall(c)
        BY <3>2, ResolveLocks
      <3>3. CASE SameCall(c)
        <4>1. UNCHANGED <<call, lock>>
          BY <3>3 DEF SameCall, ResetOut, ReleaseLease, TryGet, Release, DropTicket, Relinquish
        <4> QED
          BY <4>1 DEF LockOK
      <3> QED
        BY <1>2, <3>1, <3>2, <3>3, ClientSteps
    <2> QED
      BY <2>3, <2>4 DEF LockOK
  <1> QED
    BY <1>1, <1>2, WhoSteps

\* The generation moves on by one, and only while nobody holds lock_.
LEMMA GenerationStep ==
  ASSUME TypeOK, [Next]_vars
  PROVE  UNCHANGED generation \/ (lock = NoThread /\ generation' = generation + 1)
  <1> USE DEF tableVars, poolVars, fillVars, bindVars, ticketVars, sysVars
  <1>1. CASE Background
    BY <1>1, BackgroundFrame
  <1>2. ASSUME NEW c \in Clients, Start(c) \/ Continue(c) \/ Drop(c) \/ Deadline(c)
        PROVE  UNCHANGED generation \/ (lock = NoThread /\ generation' = generation + 1)
    <2>1. CASE Start(c)
      BY <2>1 DEF Start, CallResolve, CallPrefetch, CallWait, CallDrain, TryGet, Invalidate,
         InvalidateRefused
    <2>2. CASE Drop(c) \/ Deadline(c)
      BY <2>2 DEF Drop, Deadline, Release, ReleaseLease, DropTicket, TimeoutEntry, DrainTimesOut, Relinquish
    <2>3. CASE Continue(c)
      BY <2>3 DEF Continue, ResetOut, ReleaseLease, ResolveOutOfRange, LockResolve, AdmitHit,
         AdmitMiss, AdmitExhausted, Unwound, ClaimFill, AwaitFill, SettleRow, SettleEntry, SkipEntry,
         PrefetchHit, PrefetchMiss, PrefetchExhausted, DrainTests, Return
    <2> QED
      BY <1>2, <2>1, <2>2, <2>3
  <1> QED
    BY <1>1, <1>2, WhoSteps

\* A pinned slot that is not filling does not start to fill.
LEMMA PinnedStays ==
  ASSUME FillInv, [Next]_vars, NEW s \in Slots, slots[s].pins # 0, slots[s].state # "filling"
  PROVE  slots'[s].state # "filling"
  <1>0. SafeInv /\ ShapeInv /\ KeyOK /\ slots \in [Slots -> SlotRecord] /\ clockHand \in Slots
    BY DEF FillInv, SafeInv, ShapeInv, TypeOK
  <1>1. FillKinds
    BY <1>0, StepFills
  <1>2. CASE SameFills
    BY <1>2 DEF SameFills, SameSlot
  <1>3. ASSUME NEW k \in Steps, NEW r \in Rows, NEW o \in FillOutcomes(At(k), r), NEW pin \in {0, 1},
               StartsFill(k, r, o, pin)
        PROVE  slots'[s].state # "filling"
    <2>1. slots[At(k)].pins = 0 \/ slots[At(k)].state = "free"
      BY <1>0, <1>3, VictimFacts DEF StartsFill
    <2>2. At(k) \in Slots
      BY <1>0, HandFacts
    <2>3. s # At(k)
      BY <1>0, <2>1, <2>2 DEF KeyOK
    <2>4. SameSlot(s)
      BY <1>0, <1>3, <2>3, StartEffect DEF StartsFill
    <2> QED
      BY <2>4 DEF SameSlot
  <1>4. ASSUME NEW t \in Threads, NEW z \in Slots, TakesFill(t, z) PROVE slots'[s].state # "filling"
    BY <1>0, <1>4, FinishingEffect DEF TakesFill, SameSlot
  <1>5. ASSUME NEW t \in Threads, GivesBack(t) PROVE slots'[s].state # "filling"
    <2>1. fin[t].slot \in Slots
      BY <1>0, <1>5 DEF GivesBack, ShapeInv, FinOK
    <2> QED
      BY <1>0, <1>5, <2>1, FinishingEffect DEF GivesBack, SameSlot
  <1>6. ASSUME NEW t \in Threads, Publish(t) PROVE slots'[s].state # "filling"
    BY <1>0, <1>6, PublishEffect
  <1>7. CASE Rebinds
    BY <1>7 DEF Rebinds
  <1> QED
    BY <1>1, <1>2, <1>3, <1>4, <1>5, <1>6, <1>7 DEF FillKinds

-----------------------------------------------------------------------------
(* Batches: what a resolve_into call has got so far *)

Driving(c) == call[c].pc \in {"drive", "finish", "blocked"}

\* The first n leases of the call are those of its rows; they are published.
Matches(c, n) == \A j \in 1 .. n : out[c][j].row = call[c].rows[j]
AllReady(c, n) == \A j \in 1 .. n : out[c][j].ready

\* Phase A has admitted the rows before the current one, under the current generation.
AdmittingOK(c) ==
    /\ Matches(c, call[c].i - 1)
    /\ \A j \in 1 .. call[c].i - 1 : out[c][j].gen = generation

\* The leases of the batch are of one generation, current at some moment of the call.
OneGen(c) ==
    \E g \in call[c].since .. generation : \A j \in 1 .. Len(call[c].rows) : out[c][j].gen = g

\* The call finishes only the fill of its current row, without a deadline, hence to its end.
FinishOK(c) ==
    /\ fin[c].pc # "idle" => ~fin[c].timed /\ fin[c].slot = out[c][call[c].i].slot
    /\ call[c].pc = "finish" /\ fin[c].pc = "idle" => slots[out[c][call[c].i].slot].state # "filling"

DrivingOK(c) ==
    /\ Matches(c, Len(call[c].rows))
    /\ AllReady(c, call[c].i - 1)
    /\ OneGen(c)
    /\ FinishOK(c)

\* The result: every row, or none.
ReturnedOK(c) ==
    IF call[c].status = "ok"
    THEN /\ \A j \in 1 .. Len(call[c].rows) : out[c][j].slot # NONE
         /\ Matches(c, Len(call[c].rows))
         /\ AllReady(c, Len(call[c].rows))
         /\ OneGen(c)
    ELSE ArgumentError(call[c].rows) = "ok" => \A j \in 1 .. Len(call[c].rows) : out[c][j].slot = NONE

Batch(c) ==
    call[c].op = "resolve" =>
        /\ call[c].pc \in ResolvePlaces
        /\ ~call[c].timed /\ call[c].since <= generation
        /\ call[c].pc = "admit" => AdmittingOK(c)
        /\ Driving(c) => DrivingOK(c)
        /\ call[c].pc = "unwind" => call[c].status # "ok"
        /\ call[c].pc = "returned" => ReturnedOK(c)

\* The inductive invariant.
BatchInv == FillInv /\ FailOK /\ LockOK /\ \A c \in Clients : Batch(c)

\* Where the rows of a call are: within the client's leases.
LEMMA RowPlaces ==
  ASSUME ShapeInv, NEW c \in Clients, call[c].op = "resolve",
         call[c].pc \in {"reset", "admit", "drive", "finish", "blocked", "unwind"}
  PROVE  /\ Len(call[c].rows) \in Nat \ {0} /\ \A j \in 1 .. Len(call[c].rows) : j \in Positions
         /\ call[c].pc \in {"reset", "admit", "drive", "finish", "blocked"} => call[c].i \in 1 .. Len(call[c].rows)
  <1>1. Shape(c)
    BY DEF ShapeInv, CallOK
  <1>2. Len(call[c].rows) \in 1 .. MaxBatch
    BY <1>1 DEF Shape
  <1>3. call[c].pc \in {"reset", "admit", "drive", "finish", "blocked"} => call[c].i \in 1 .. Len(call[c].rows)
    BY <1>1 DEF Shape
  <1>4. MaxBatch \in Nat
    BY ConstantFacts
  <1> QED
    BY <1>2, <1>3, <1>4 DEF Positions

\* Generations are numbers.
LEMMA GenerationNats ==
  ASSUME TypeOK, NEW c \in Clients
  PROVE  generation \in Nat /\ call[c].since \in Nat
  <1>1. Generations \subseteq Nat
    BY ConstantFacts DEF Generations
  <1>2. generation \in Generations /\ call[c] \in CallRecord
    BY DEF TypeOK
  <1>3. call[c].since \in Generations
    BY <1>2 DEF CallRecord
  <1> QED
    BY <1>1, <1>2, <1>3

\* The generations of a batch stay in a window that only grows.
LEMMA OneGenGrows ==
  ASSUME NEW c \in Clients, OneGen(c), call'[c].since = call[c].since, call'[c].rows = call[c].rows,
         \A j \in 1 .. Len(call[c].rows) : out'[c][j].gen = out[c][j].gen,
         generation \in Nat, generation' \in Nat, generation <= generation', call[c].since \in Nat
  PROVE  OneGen(c)'
  <1>1. PICK g \in call[c].since .. generation : \A j \in 1 .. Len(call[c].rows) : out[c][j].gen = g
    BY DEF OneGen
  <1>2. g \in call[c].since .. generation'
    OBVIOUS
  <1> QED
    BY <1>1, <1>2 DEF OneGen

\* The step of another thread, or of the finisher of the call's own fill, leaves a batch as it is.
LEMMA BatchStays ==
  ASSUME BatchInv, [Next]_vars, NEW c \in Clients, call'[c] = call[c], out'[c] = out[c],
         \/ fin'[c] = fin[c]
         \/ /\ fin[c].pc # "idle" /\ fin'[c].pc # "idle"
            /\ fin'[c].timed = fin[c].timed /\ fin'[c].slot = fin[c].slot
         \/ Publish(c)
  PROVE  Batch(c)'
  <1> SUFFICES ASSUME call[c].op = "resolve" PROVE Batch(c)'
    BY DEF Batch
  <1>a. FillInv /\ SafeInv /\ ShapeInv /\ TypeOK /\ Batch(c) /\ LockOK /\ CountOK /\ FinOK /\ c \in Threads
    BY DEF BatchInv, FillInv, SafeInv, ShapeInv, Threads
  <1>b. generation \in Nat /\ call[c].since \in Nat
    BY <1>a, GenerationNats
  <1>0. /\ FillInv /\ SafeInv /\ ShapeInv /\ TypeOK /\ Batch(c) /\ LockOK /\ CountOK /\ FinOK
        /\ c \in Threads /\ generation \in Nat /\ call[c].since \in Nat
    BY <1>a, <1>b
  <1>1. UNCHANGED generation \/ (lock = NoThread /\ generation' = generation + 1)
    BY <1>0, GenerationStep
  <1>2. generation' \in Nat /\ generation <= generation'
    BY <1>0, <1>1
  <1>3. call[c].pc = "admit" => UNCHANGED generation
    BY <1>0, <1>1, ThreadAssumption DEF LockOK
  <1>4. call'[c].since <= generation'
    BY <1>0, <1>1 DEF Batch
  <1>5. call'[c].pc = "admit" => AdmittingOK(c)'
    BY <1>0, <1>3 DEF Batch, AdmittingOK, Matches
  <1>6. OneGen(c) => OneGen(c)'
    BY <1>0, <1>2, OneGenGrows
  <1>7. call'[c].pc = "returned" => ReturnedOK(c)'
    BY <1>0, <1>6 DEF Batch, ReturnedOK, Matches, AllReady
  <1>8. ASSUME Driving(c) PROVE FinishOK(c)'
    <2>1. FinishOK(c) /\ call[c].pc \in {"drive", "finish", "blocked"}
      BY <1>0, <1>8 DEF Batch, Driving, DrivingOK
    <2>2. PICK s \in Slots : s = out[c][call[c].i].slot
      BY <1>0, <2>1, TargetFacts DEF Target
    <2>3. slots[s].pins # 0
      BY <1>0, <2>1, <2>2, PlaceFacts, PinnedFacts
    <2>4. fin'[c].pc # "idle" => ~fin'[c].timed /\ fin'[c].slot = s
      <3>1. CASE Publish(c)
        BY <1>0, <3>1 DEF Publish, NoFinish, TypeOK
      <3> QED
        BY <2>1, <2>2, <3>1 DEF FinishOK
    <2>5. call'[c].pc = "finish" /\ fin'[c].pc = "idle" => slots'[s].state # "filling"
      <3>1. CASE Publish(c)
        <4>1. fin[c].slot = s
          BY <1>0, <2>1, <2>2, <3>1, PublishEffect DEF FinishOK
        <4> QED
          BY <1>0, <3>1, <4>1, PublishEffect
      <3>2. CASE fin'[c] = fin[c]
        <4>1. call[c].pc = "finish" /\ fin[c].pc = "idle" => slots[s].state # "filling"
          BY <2>1, <2>2 DEF FinishOK
        <4> QED
          BY <1>0, <2>3, <3>2, <4>1, PinnedStays
      <3> QED
        BY <3>1, <3>2
    <2> QED
      BY <2>2, <2>4, <2>5 DEF FinishOK
  <1>9. Driving(c)' => DrivingOK(c)'
    BY <1>0, <1>6, <1>8 DEF Batch, Driving, DrivingOK, Matches, AllReady
  <1> QED
    BY <1>0, <1>4, <1>5, <1>7, <1>9 DEF Batch

\* What the steps of a batch use of the invariant.
LEMMA BatchFacts ==
  ASSUME BatchInv, NEW c \in Clients
  PROVE  /\ FillInv /\ SafeInv /\ ShapeInv /\ TypeOK /\ FinOK /\ LeaseOK /\ FailOK /\ Batch(c) /\ c \in Threads
         /\ generation \in Nat /\ call[c].since \in Nat /\ call[c] \in CallRecord
  <1>1. FillInv /\ SafeInv /\ ShapeInv /\ TypeOK /\ FinOK /\ LeaseOK /\ FailOK /\ Batch(c) /\ c \in Threads
    BY DEF BatchInv, FillInv, SafeInv, ShapeInv, Threads
  <1> QED
    BY <1>1, GenerationNats DEF TypeOK

\* The call begins.
LEMMA BatchBegins ==
  ASSUME BatchInv, NEW c \in Clients, CallResolve(c)
  PROVE  Batch(c)'
  <1>1. /\ call'[c].op = "resolve" /\ ~call'[c].timed /\ call'[c].since = generation
        /\ \/ call'[c].pc = "reset"
           \/ /\ call'[c].pc = "returned" /\ call'[c].status # "ok"
              /\ ArgumentError(call'[c].rows) # "ok"
    BY BatchFacts, CallResolveCall
  <1>2. generation' = generation /\ generation \in Nat
    BY BatchFacts DEF CallResolve, tableVars, bindVars
  <1>3. call'[c].since <= generation'
    BY <1>1, <1>2
  <1> QED
    BY <1>1, <1>3 DEF Batch, ResolvePlaces, Driving, ReturnedOK

\* The call returns an error with nothing held.
LEMMA BatchEmpty ==
  ASSUME BatchInv, NEW c \in Clients, ResolveOutOfRange(c) \/ Unwound(c)
  PROVE  Batch(c)'
  <1> USE DEF tableVars, bindVars
  <1>0. ShapeInv /\ TypeOK /\ Batch(c) /\ call[c] \in CallRecord
    BY BatchFacts
  <1>1. call[c].pc \in {"reset", "unwind"} /\ HeldOut(c) = {} /\ UNCHANGED <<out, generation>>
    BY DEF ResolveOutOfRange, Unwound
  <1>2. call[c].op = "resolve"
    BY <1>0, <1>1 DEF ShapeInv, CallOK, Shape
  <1>3. PICK status \in Statuses : status # "ok" /\ call' = [call EXCEPT ![c] = Ended(c, status)]
    BY <1>0, <1>2 DEF ResolveOutOfRange, Unwound, Statuses, CallRecord, Batch
  <1>4. /\ call'[c].pc = "returned" /\ call'[c].status = status /\ ~call'[c].timed
        /\ call'[c].op = call[c].op /\ call'[c].rows = call[c].rows /\ call'[c].since = call[c].since
    BY <1>0, <1>3, EndedCall
  <1>5. \A j \in 1 .. Len(call[c].rows) : out[c][j].slot = NONE
    BY <1>1 DEF HeldOut
  <1> QED
    BY <1>0, <1>1, <1>2, <1>3, <1>4, <1>5 DEF Batch, ResolvePlaces, Driving, ReturnedOK

\* Phase A begins with the first row.
LEMMA BatchLocks ==
  ASSUME BatchInv, NEW c \in Clients, LockResolve(c)
  PROVE  Batch(c)'
  <1>0. ShapeInv /\ TypeOK /\ Batch(c)
    BY BatchFacts
  <1>1. call[c].op = "resolve" /\ call[c].i = 1 /\ generation' = generation
    BY <1>0 DEF LockResolve, ShapeInv, CallOK, Shape, tableVars, bindVars
  <1>2. call' = [call EXCEPT ![c].pc = "admit"]
    BY DEF LockResolve
  <1>3. /\ call'[c].pc = "admit" /\ call'[c].i = call[c].i
        /\ call'[c].timed = call[c].timed /\ call'[c].op = call[c].op /\ call'[c].since = call[c].since
    BY <1>0, <1>2, MovedCall
  <1>4. AdmittingOK(c)'
    BY <1>1, <1>3 DEF AdmittingOK, Matches
  <1> QED
    BY <1>0, <1>1, <1>3, <1>4 DEF Batch, ResolvePlaces, Driving

\* A row is admitted: its lease is of that row and of the current generation.
LEMMA BatchAdmits ==
  ASSUME BatchInv, NEW c \in Clients, call[c].pc = "admit", Admitted(c), UNCHANGED <<generation, fin>>,
         NEW l \in LeaseRecord, out' = [out EXCEPT ![c][call[c].i] = l],
         l.row = call[c].rows[call[c].i], l.gen = generation
  PROVE  Batch(c)'
  <1>0. /\ ShapeInv /\ TypeOK /\ Batch(c) /\ FinOK /\ c \in Threads
        /\ generation \in Nat /\ call[c].since \in Nat
    BY BatchFacts
  <1>1. call[c].op = "resolve"
    BY <1>0 DEF ShapeInv, CallOK, Shape
  <1>2. AdmittingOK(c) /\ ~call[c].timed /\ call[c].since <= generation
    BY <1>0, <1>1 DEF Batch
  <1>3. PICK n, i : n = Len(call[c].rows) /\ i = call[c].i
    OBVIOUS
  <1>4. n \in Nat /\ i \in 1 .. n /\ \A j \in 1 .. n : j \in Positions
    BY <1>0, <1>1, <1>3, RowPlaces
  <1>5. out'[c][i] = l /\ \A j \in Positions \ {i} : out'[c][j] = out[c][j]
    BY <1>0, <1>3, <1>4, OutEffect DEF TypeOK
  <1>6. /\ call'[c].pc = IF i = n THEN "drive" ELSE "admit"
        /\ call'[c].i = IF i = n THEN 1 ELSE i + 1
        /\ call'[c].timed = call[c].timed /\ call'[c].op = call[c].op /\ call'[c].rows = call[c].rows
        /\ call'[c].since = call[c].since
    BY <1>0, <1>3, AdmittedCall
  <1>7. \A j \in 1 .. i : out'[c][j].row = call[c].rows[j] /\ out'[c][j].gen = generation
    <2> SUFFICES ASSUME NEW j \in 1 .. i
                 PROVE  out'[c][j].row = call[c].rows[j] /\ out'[c][j].gen = generation
      OBVIOUS
    <2>1. CASE j = i
      BY <1>3, <1>5, <2>1
    <2>2. CASE j # i
      <3>1. j \in 1 .. i - 1 /\ j \in 1 .. n
        BY <1>4, <2>2
      <3>2. out'[c][j] = out[c][j]
        BY <1>4, <1>5, <2>2, <3>1
      <3> QED
        BY <1>2, <1>3, <3>1, <3>2 DEF AdmittingOK, Matches
    <2> QED
      BY <2>1, <2>2
  <1>8. CASE i = n
    <2>1. call'[c].pc = "drive" /\ call'[c].i = 1
      BY <1>6, <1>8
    <2>2. Matches(c, Len(call[c].rows))'
      BY <1>3, <1>6, <1>7, <1>8 DEF Matches
    <2>3. AllReady(c, call[c].i - 1)'
      BY <2>1 DEF AllReady
    <2>4. OneGen(c)'
      <3>1. generation \in call[c].since .. generation
        BY <1>0, <1>2
      <3> QED
        BY <1>3, <1>6, <1>7, <1>8, <3>1 DEF OneGen
    <2>5. FinishOK(c)'
      BY <1>0, <2>1 DEF FinishOK, FinOK
    <2>6. DrivingOK(c)'
      BY <2>2, <2>3, <2>4, <2>5 DEF DrivingOK
    <2> QED
      BY <1>1, <1>2, <1>6, <2>1, <2>6 DEF Batch, ResolvePlaces
  <1>9. CASE i # n
    <2>1. call'[c].pc = "admit" /\ call'[c].i = i + 1
      BY <1>6, <1>9
    <2>2. call'[c].i - 1 = i
      BY <1>4, <2>1
    <2>3. AdmittingOK(c)'
      BY <1>6, <1>7, <2>2 DEF AdmittingOK, Matches
    <2> QED
      BY <1>1, <1>2, <1>6, <2>1, <2>3 DEF Batch, ResolvePlaces, Driving
  <1> QED
    BY <1>8, <1>9

\* A row cannot be admitted, or has failed: the call unwinds with the failure.
LEMMA BatchUnwinds ==
  ASSUME BatchInv, NEW c \in Clients, call[c].op = "resolve", UNCHANGED generation,
         NEW status, status # "ok", call' = [call EXCEPT ![c].pc = "unwind", ![c].status = status]
  PROVE  Batch(c)'
  <1>0. TypeOK /\ Batch(c)
    BY BatchFacts
  <1>1. /\ call'[c].pc = "unwind" /\ call'[c].status = status /\ call'[c].timed = call[c].timed
        /\ call'[c].op = call[c].op /\ call'[c].since = call[c].since
    BY <1>0, UnwindCall
  <1> QED
    BY <1>0, <1>1 DEF Batch, ResolvePlaces, Driving

\* Phase A, row by row.
LEMMA BatchPhaseA ==
  ASSUME BatchInv, NEW c \in Clients, AdmitHit(c) \/ AdmitMiss(c) \/ AdmitExhausted(c)
  PROVE  Batch(c)'
  <1> USE DEF tableVars, poolVars, fillVars, bindVars, ticketVars
  <1>0. /\ ShapeInv /\ TypeOK /\ slots \in [Slots -> SlotRecord] /\ clockHand \in Slots
        /\ generation \in Generations
    BY BatchFacts DEF TypeOK
  <1>1. call[c].pc = "admit" /\ UNCHANGED <<generation, fin>>
    BY DEF AdmitHit, AdmitMiss, AdmitExhausted
  <1>2. call[c].op = "resolve" /\ call[c].rows[call[c].i] \in Rows
    BY <1>0, <1>1, PlaceFacts DEF ShapeInv, CallOK, Shape
  <1>3. CASE AdmitHit(c)
    <2>1. PICK s \in Slots :
            /\ slots[s].row = call[c].rows[call[c].i] /\ slots[s].gen = generation
            /\ out' = [out EXCEPT ![c][call[c].i] =
                         LeaseOn(s, slots[s].row, slots[s].epoch, slots[s].gen, FALSE)]
      BY <1>3 DEF AdmitHit, Indexed
    <2>2. PICK l : l = LeaseOn(s, slots[s].row, slots[s].epoch, slots[s].gen, FALSE)
      OBVIOUS
    <2>3. l \in LeaseRecord
      BY <1>0, <2>2, LeaseFacts
    <2>4. l.row = slots[s].row /\ l.gen = slots[s].gen
      BY <2>2 DEF LeaseOn
    <2>5. Admitted(c)
      BY <1>3 DEF AdmitHit
    <2> QED
      BY <1>1, <2>1, <2>2, <2>3, <2>4, <2>5, BatchAdmits
  <1>4. CASE AdmitMiss(c)
    <2>1. PICK r \in Rows : r = call[c].rows[call[c].i]
      BY <1>2
    <2>2. PICK k \in Steps : \E o \in FillOutcomes(At(k), r) :
            IF o.status = "ok"
            THEN /\ out' = [out EXCEPT ![c][call[c].i] =
                              LeaseOn(At(k), r, (slots[At(k)].epoch + 1) % WordModulus, generation, FALSE)]
                 /\ Admitted(c)
            ELSE AdmitFails(c, o.status)
      BY <1>4, <2>1 DEF AdmitMiss
    <2>3. PICK s \in Slots : s = At(k)
      BY <1>0, HandFacts
    <2>4. CASE \E status : status # "ok" /\ AdmitFails(c, status)
      <3>1. PICK status : status # "ok" /\ AdmitFails(c, status)
        BY <2>4
      <3>2. call' = [call EXCEPT ![c].pc = "unwind", ![c].status = status]
        BY <3>1 DEF AdmitFails
      <3> QED
        BY <1>1, <1>2, <3>1, <3>2, BatchUnwinds
    <2>5. CASE /\ out' = [out EXCEPT ![c][call[c].i] =
                            LeaseOn(s, r, (slots[s].epoch + 1) % WordModulus, generation, FALSE)]
               /\ Admitted(c)
      <3>1. PICK e : e = (slots[s].epoch + 1) % WordModulus
        OBVIOUS
      <3>2. e \in Words
        BY <1>0, <3>1, WordFacts DEF SlotRecord
      <3>3. PICK l : l = LeaseOn(s, r, e, generation, FALSE)
        OBVIOUS
      <3>4. l \in LeaseRecord /\ l.row = r /\ l.gen = generation
        BY <1>0, <3>2, <3>3 DEF LeaseOn, LeaseRecord
      <3>5. out' = [out EXCEPT ![c][call[c].i] = l]
        BY <2>5, <3>1, <3>3
      <3> QED
        BY <1>1, <2>1, <2>5, <3>4, <3>5, BatchAdmits
    <2> QED
      BY <2>2, <2>3, <2>4, <2>5
  <1>5. CASE AdmitExhausted(c)
    <2>1. call' = [call EXCEPT ![c].pc = "unwind", ![c].status = "pool_exhausted"]
      BY <1>5 DEF AdmitExhausted, AdmitFails
    <2>2. PICK status : status = "pool_exhausted"
      OBVIOUS
    <2>3. status # "ok" /\ call' = [call EXCEPT ![c].pc = "unwind", ![c].status = status]
      BY <2>1, <2>2
    <2> QED
      BY <1>1, <1>2, <2>3, BatchUnwinds
  <1> QED
    BY <1>3, <1>4, <1>5

\* The row in hand is finished by this call or awaited.
LEMMA BatchWaits ==
  ASSUME BatchInv, NEW c \in Clients, call[c].op = "resolve", ClaimFill(c) \/ AwaitFill(c)
  PROVE  Batch(c)'
  <1> USE DEF tableVars, poolVars, fillVars, bindVars, ticketVars
  <1>0. /\ ShapeInv /\ TypeOK /\ Batch(c) /\ FinOK /\ c \in Threads
        /\ generation \in Nat /\ call[c].since \in Nat
    BY BatchFacts
  <1>1. call[c].pc \in {"drive", "blocked"} /\ UNCHANGED <<generation, out>>
    BY DEF ClaimFill, AwaitFill
  <1>2. DrivingOK(c) /\ ~call[c].timed /\ call[c].since <= generation
    BY <1>0, <1>1 DEF Batch, Driving
  <1>3. fin[c].pc = "idle"
    BY <1>0, <1>1 DEF FinOK
  <1>4. PICK pc \in {"finish", "blocked"} :
          /\ call' = [call EXCEPT ![c].pc = pc]
          /\ pc = "finish" => ClaimFill(c)
          /\ pc = "blocked" => UNCHANGED fin
    BY DEF ClaimFill, AwaitFill
  <1>5. /\ call'[c].pc = pc /\ call'[c].i = call[c].i
        /\ call'[c].timed = call[c].timed /\ call'[c].op = call[c].op
        /\ call'[c].rows = call[c].rows /\ call'[c].since = call[c].since
    BY <1>0, <1>4, MovedCall
  <1>6. FinishOK(c)'
    <2>1. CASE pc = "blocked"
      BY <1>3, <1>4, <1>5, <2>1 DEF FinishOK
    <2>2. CASE pc = "finish"
      <3>1. PICK s : s = out[c][call[c].i].slot
        OBVIOUS
      <3>2. PICK f : f = [NoFinish EXCEPT !.pc = "begin", !.slot = s, !.timed = call[c].timed]
        OBVIOUS
      <3>3. f.pc = "begin" /\ f.slot = s /\ f.timed = call[c].timed
        BY <3>2 DEF NoFinish
      <3>4. fin' = [fin EXCEPT ![c] = f]
        BY <1>4, <2>2, <3>1, <3>2 DEF ClaimFill, Target
      <3>5. fin'[c] = f
        BY <1>0, <3>4 DEF TypeOK
      <3> QED
        BY <1>1, <1>2, <1>5, <3>1, <3>3, <3>5 DEF FinishOK
    <2> QED
      BY <2>1, <2>2
  <1>7. OneGen(c)'
    BY <1>0, <1>1, <1>2, <1>5, OneGenGrows DEF DrivingOK
  <1>8. DrivingOK(c)'
    BY <1>1, <1>2, <1>5, <1>6, <1>7 DEF DrivingOK, Matches, AllReady
  <1> QED
    BY <1>1, <1>2, <1>4, <1>5, <1>8 DEF Batch, ResolvePlaces, Driving

\* A call that settles a row finds its slot filled or failed: the fill is not left unfinished.
LEMMA SettledFill ==
  ASSUME BatchInv, NEW c \in Clients, call[c].op = "resolve", Settles(c)
  PROVE  /\ Driving(c) /\ fin[c].pc = "idle" /\ out[c][call[c].i].slot \in Slots
         /\ slots[out[c][call[c].i].slot].epoch = out[c][call[c].i].epoch
         /\ slots[out[c][call[c].i].slot].state \in {"ready", "failed"}
  <1>0. ShapeInv /\ TypeOK /\ Batch(c) /\ FinOK /\ LeaseOK /\ c \in Threads
    BY BatchFacts
  <1>1. call[c].pc \in {"drive", "finish", "blocked"} /\ fin[c].pc = "idle"
    BY <1>0 DEF Settles, FinOK
  <1>2. call[c].i \in Positions /\ out[c][call[c].i].slot # NONE
    BY <1>0, <1>1, PlaceFacts
  <1>3. PICK l : l = out[c][call[c].i]
    OBVIOUS
  <1>4. l.slot \in Slots /\ Names(l)
    BY <1>0, <1>2, <1>3, LeaseSlot DEF LeaseOK
  <1>5. slots[l.slot].state # "filling"
    <2>1. Target(c) = l
      BY <1>3 DEF Target
    <2>2. CASE call[c].pc = "finish"
      BY <1>0, <1>1, <1>3, <2>2 DEF Batch, Driving, DrivingOK, FinishOK
    <2>3. CASE call[c].pc # "finish"
      BY <1>4, <2>1, <2>3 DEF Settles, StillFilling, Names
    <2> QED
      BY <2>2, <2>3
  <1>6. slots[l.slot] \in SlotRecord
    BY <1>0, <1>4 DEF TypeOK
  <1>7. slots[l.slot].state \in {"ready", "failed"}
    BY <1>4, <1>5, <1>6 DEF Names, SlotRecord
  <1> QED
    BY <1>1, <1>3, <1>4, <1>7 DEF Names, Driving

\* A row is settled: its lease is published, or the call unwinds.
LEMMA BatchSettles ==
  ASSUME BatchInv, NEW c \in Clients, SettleRow(c)
  PROVE  Batch(c)'
  <1> USE DEF tableVars, poolVars, fillVars, bindVars, ticketVars
  <1>0. /\ ShapeInv /\ TypeOK /\ Batch(c) /\ FinOK /\ FailOK /\ c \in Threads
        /\ generation \in Nat /\ call[c].since \in Nat
    BY BatchFacts
  <1>1. call[c].op = "resolve" /\ Settles(c) /\ UNCHANGED <<generation, fin, slots>>
    BY DEF SettleRow
  <1>2. PICK n, i, l : n = Len(call[c].rows) /\ i = call[c].i /\ l = out[c][i]
    OBVIOUS
  <1>3. /\ Driving(c) /\ fin[c].pc = "idle" /\ l.slot \in Slots
        /\ slots[l.slot].epoch = l.epoch /\ slots[l.slot].state \in {"ready", "failed"}
    BY <1>1, <1>2, SettledFill
  <1>4. DrivingOK(c) /\ ~call[c].timed /\ call[c].since <= generation
    BY <1>0, <1>1, <1>3 DEF Batch
  <1>5. n \in Nat /\ i \in 1 .. n /\ \A j \in 1 .. n : j \in Positions
    BY <1>0, <1>1, <1>2, <1>3, RowPlaces DEF Driving
  <1>6. CASE slots[l.slot].state = "failed"
    <2>1. PICK status : status = slots[l.slot].failure
      OBVIOUS
    <2>2. status # "ok"
      BY <1>0, <1>3, <1>6, <2>1 DEF FailOK
    <2>3. call' = [call EXCEPT ![c].pc = "unwind", ![c].status = status]
      BY <1>2, <1>3, <1>6, <2>1 DEF SettleRow
    <2> QED
      BY <1>1, <2>2, <2>3, BatchUnwinds
  <1>7. CASE slots[l.slot].state = "ready"
    <2>1. /\ out' = [out EXCEPT ![c][i].ready = TRUE]
          /\ call' = [call EXCEPT ![c] =
                        IF i = n THEN Ended(c, "ok") ELSE [call[c] EXCEPT !.pc = "drive", !.i = i + 1]]
      BY <1>2, <1>3, <1>7 DEF SettleRow
    <2>2. l \in LeaseRecord /\ out \in [Clients -> [Positions -> LeaseRecord]] /\ i \in Positions
      BY <1>0, <1>2, <1>5 DEF TypeOK
    <2>3. PICK m : m = [l EXCEPT !.ready = TRUE]
      OBVIOUS
    <2>4. m \in LeaseRecord /\ m.slot = l.slot /\ m.row = l.row /\ m.gen = l.gen /\ m.ready
      BY <2>2, <2>3, ReadyFacts
    <2>5. out' = [out EXCEPT ![c][i] = m]
      BY <1>2, <2>1, <2>2, <2>3
    <2>6. out'[c][i] = m /\ \A j \in Positions \ {i} : out'[c][j] = out[c][j]
      BY <2>2, <2>4, <2>5, OutEffect
    <2>7. \A j \in 1 .. n : /\ out'[c][j].slot = out[c][j].slot /\ out'[c][j].row = out[c][j].row
                            /\ out'[c][j].gen = out[c][j].gen
      BY <1>2, <1>5, <2>4, <2>6
    <2>8. \A j \in 1 .. i : out'[c][j].ready
      <3> SUFFICES ASSUME NEW j \in 1 .. i PROVE out'[c][j].ready
        OBVIOUS
      <3>1. CASE j = i
        BY <2>4, <2>6, <3>1
      <3>2. CASE j # i
        <4>1. j \in 1 .. i - 1 /\ j \in 1 .. n
          BY <1>5, <3>2
        <4>2. out'[c][j] = out[c][j]
          BY <1>5, <2>6, <3>2, <4>1
        <4> QED
          BY <1>2, <1>4, <4>1, <4>2 DEF DrivingOK, AllReady
      <3> QED
        BY <3>1, <3>2
    <2>9. \A j \in 1 .. n : out'[c][j].row = call[c].rows[j]
      BY <1>2, <1>4, <2>7 DEF DrivingOK, Matches
    <2>10. CASE i = n
      <3>1. call' = [call EXCEPT ![c] = Ended(c, "ok")]
        BY <2>1, <2>10
      <3>2. /\ call'[c].pc = "returned" /\ call'[c].status = "ok" /\ ~call'[c].timed
            /\ call'[c].op = call[c].op /\ call'[c].rows = call[c].rows /\ call'[c].since = call[c].since
        BY <1>0, <3>1, EndedCall DEF Statuses
      <3>3. \A j \in 1 .. n : out[c][j].slot # NONE
        BY <1>0, <1>1, <1>2, <1>3 DEF ShapeInv, CallOK, Shape, Driving
      <3>4. OneGen(c)'
        BY <1>0, <1>1, <1>2, <1>4, <2>7, <3>2, OneGenGrows DEF DrivingOK
      <3>5. ReturnedOK(c)'
        BY <1>2, <2>7, <2>8, <2>9, <2>10, <3>2, <3>3, <3>4 DEF ReturnedOK, Matches, AllReady
      <3> QED
        BY <1>1, <1>4, <3>2, <3>5 DEF Batch, ResolvePlaces, Driving
    <2>11. CASE i # n
      <3>1. PICK pc, k : pc = "drive" /\ k = i + 1
        OBVIOUS
      <3>2. call'[c] = MovedTo(call[c], pc, k)
        BY <1>0, <2>1, <2>11, <3>1 DEF TypeOK, MovedTo
      <3>t. call[c] \in CallRecord
        BY <1>0 DEF TypeOK
      <3>a. /\ call'[c].pc = pc /\ call'[c].i = k
            /\ call'[c].timed = call[c].timed /\ call'[c].op = call[c].op
            /\ call'[c].rows = call[c].rows /\ call'[c].since = call[c].since
        BY <3>t, <3>2, MovedToFields
      <3>3. /\ call'[c].pc = "drive" /\ call'[c].i = k
            /\ call'[c].timed = call[c].timed /\ call'[c].op = call[c].op
            /\ call'[c].rows = call[c].rows /\ call'[c].since = call[c].since
        BY <3>1, <3>a
      <3>4. call'[c].i - 1 = i
        BY <1>5, <3>1, <3>3
      <3>5. OneGen(c)'
        BY <1>0, <1>1, <1>2, <1>4, <2>7, <3>3, OneGenGrows DEF DrivingOK
      <3>6. FinishOK(c)'
        BY <1>1, <1>3, <3>3 DEF FinishOK
      <3>7. DrivingOK(c)'
        BY <1>2, <2>8, <2>9, <3>3, <3>4, <3>5, <3>6 DEF DrivingOK, Matches, AllReady
      <3> QED
        BY <1>1, <1>4, <3>3, <3>7 DEF Batch, ResolvePlaces
    <2> QED
      BY <2>10, <2>11
  <1> QED
    BY <1>3, <1>6, <1>7

\* The steps that leave the call alone: a lease is reset, or the client is not in a resolve_into call.
LEMMA BatchRests ==
  ASSUME BatchInv, NEW c \in Clients, SameCall(c)
  PROVE  Batch(c)'
  <1> USE DEF tableVars, poolVars, fillVars, bindVars, ticketVars
  <1>0. TypeOK /\ Batch(c) /\ FinOK /\ c \in Threads
    BY BatchFacts
  <1>1. UNCHANGED <<call, generation>>
    BY DEF SameCall, ResetOut, ReleaseLease, TryGet, Release, DropTicket, Relinquish
  <1>2. CASE call[c].op # "resolve"
    BY <1>1, <1>2 DEF Batch
  <1>3. CASE call[c].op = "resolve"
    <2>1. CASE ResetOut(c)
      BY <1>0, <1>1, <1>3, <2>1 DEF Batch, ResetOut, Driving
    <2>2. CASE TryGet(c) \/ Release(c) \/ DropTicket(c)
      <3>1. call[c].pc = "idle"
        BY <2>2 DEF TryGet, Release, DropTicket, MayCall
      <3> QED
        BY <1>0, <1>3, <3>1 DEF Batch, ResolvePlaces
    <2>3. CASE Relinquish(c)
      <3>1. fin[c].pc # "idle" /\ fin[c].timed
        BY <2>3 DEF Relinquish
      <3>2. call[c].pc = "finish"
        BY <1>0, <3>1 DEF FinOK
      <3> QED
        BY <1>0, <1>3, <3>1, <3>2 DEF Batch, Driving, DrivingOK, FinishOK
    <2> QED
      BY <2>1, <2>2, <2>3 DEF SameCall
  <1> QED
    BY <1>2, <1>3

\* Going on inside finish_fill keeps the deadline and the slot.
LEMMA FinishKeeps ==
  ASSUME ShapeInv, NEW t \in Threads, BeginFinish(t) \/ Convert(t)
  PROVE  /\ \A u \in Threads \ {t} : fin'[u] = fin[u]
         /\ fin[t].pc # "idle" /\ fin'[t].pc # "idle"
         /\ fin'[t].timed = fin[t].timed /\ fin'[t].slot = fin[t].slot
  <1>0. fin \in [Threads -> FinishRecord] /\ FinOK
    BY DEF ShapeInv, TypeOK
  <1>1. PICK h \in FinishRecord : h = fin[t]
    BY <1>0
  <1>2. h.pc # "idle" /\ slots[h.slot].state = "filling"
    BY <1>0, <1>1 DEF FinOK, BeginFinish, Convert
  <1>3. CASE BeginFinish(t)
    <2>1. PICK f : f = [h EXCEPT !.pc = "wait"]
      OBVIOUS
    <2>2. f.pc = "wait" /\ f.timed = h.timed /\ f.slot = h.slot
      BY <2>1 DEF FinishRecord
    <2>3. fin' = [fin EXCEPT ![t] = f]
      BY <1>1, <1>2, <1>3, <2>1 DEF BeginFinish
    <2>4. fin'[t] = f /\ \A u \in Threads \ {t} : fin'[u] = fin[u]
      BY <1>0, <2>3
    <2> QED
      BY <1>1, <1>2, <2>2, <2>4
  <1>4. CASE Convert(t)
    <2>1. PICK status : fin' = [fin EXCEPT ![t].pc = "publish", ![t].status = status]
      BY <1>4 DEF Convert
    <2>2. PICK f : f = [h EXCEPT !.pc = "publish", !.status = status]
      OBVIOUS
    <2>3. f.pc = "publish" /\ f.timed = h.timed /\ f.slot = h.slot
      BY <2>2 DEF FinishRecord
    <2>4. fin'[t] = f /\ \A u \in Threads \ {t} : fin'[u] = fin[u]
      BY <1>0, <1>1, <2>1, <2>2
    <2> QED
      BY <1>1, <1>2, <2>3, <2>4
  <1> QED
    BY <1>3, <1>4

\* Every step keeps every batch.
LEMMA BatchStep ==
  ASSUME BatchInv, [Next]_vars
  PROVE  \A c \in Clients : Batch(c)'
  <1> USE DEF tableVars, poolVars, fillVars, bindVars, ticketVars, sysVars
  <1>0. /\ FillInv /\ ShapeInv /\ TypeOK /\ Worker \notin Clients
        /\ fin \in [Threads -> FinishRecord] /\ Clients \subseteq Threads
    BY ThreadAssumption DEF BatchInv, FillInv, SafeInv, ShapeInv, TypeOK, Threads
  <1>1. ASSUME Background, NEW c \in Clients PROVE Batch(c)'
    <2>1. call'[c] = call[c] /\ out'[c] = out[c]
      BY <1>1, BackgroundFrame
    <2>2. \/ fin'[c] = fin[c]
          \/ /\ fin[c].pc # "idle" /\ fin'[c].pc # "idle"
             /\ fin'[c].timed = fin[c].timed /\ fin'[c].slot = fin[c].slot
          \/ Publish(c)
      <3>1. ASSUME NEW t \in Threads, BeginFinish(t) \/ Convert(t)
            PROVE  \/ fin'[c] = fin[c]
                   \/ /\ fin[c].pc # "idle" /\ fin'[c].pc # "idle"
                      /\ fin'[c].timed = fin[c].timed /\ fin'[c].slot = fin[c].slot
        BY <1>0, <3>1, FinishKeeps
      <3>2. ASSUME NEW t \in Threads, Publish(t) PROVE fin'[c] = fin[c] \/ Publish(c)
        BY <1>0, <3>2 DEF Publish
      <3>3. ASSUME WorkerClaims PROVE fin'[c] = fin[c]
        BY <1>0, <3>3 DEF WorkerClaims
      <3>4. \/ UNCHANGED fin \/ WorkerClaims
            \/ \E t \in Threads : BeginFinish(t) \/ Convert(t) \/ Publish(t)
        BY <1>1 DEF Background, vars, Finish, SpuriousWake, WorkerStep, WorkerIdles, Complete,
           CompleteDropped, Destroy, Destroyed
      <3> QED
        BY <3>1, <3>2, <3>3, <3>4
    <2> QED
      BY <2>1, <2>2, BatchStays
  <1>2. ASSUME NEW c \in Clients, Start(c) \/ Continue(c) \/ Drop(c) \/ Deadline(c), NEW d \in Clients
        PROVE  Batch(d)'
    <2>1. CASE d # c
      <3>1. call'[d] = call[d] /\ out'[d] = out[d] /\ fin'[d] = fin[d]
        BY <1>0, <1>2, <2>1, ClientFrame DEF Frame
      <3> QED
        BY <3>1, BatchStays
    <2>2. ASSUME OtherCall(c) PROVE Batch(c)'
      <3>1. PICK op \in {"resolve", "wait"} : op = "resolve"
        OBVIOUS
      <3>2. call[c].op = op => call[c].pc \notin {"prefetch", "drain"}
        BY <3>1 DEF BatchInv, Batch, ResolvePlaces
      <3>3. call'[c].op # op
        BY <1>0, <2>2, <3>1, <3>2, OtherCalls
      <3> QED
        BY <3>1, <3>3 DEF Batch
    <2>3. ASSUME ResolveCall(c) PROVE Batch(c)'
      <3>1. CASE call[c].op = "resolve" /\ (ClaimFill(c) \/ AwaitFill(c))
        BY <3>1, BatchWaits
      <3>2. CASE call[c].op # "resolve" /\ (ClaimFill(c) \/ AwaitFill(c))
        <4>1. PICK pc : call' = [call EXCEPT ![c].pc = pc]
          BY <3>2 DEF ClaimFill, AwaitFill
        <4>2. call'[c].op = call[c].op
          BY <1>0, <4>1, MovedCall
        <4> QED
          BY <3>2, <4>2 DEF Batch
      <3> QED
        BY <2>3, <3>1, <3>2, BatchBegins, BatchEmpty, BatchLocks, BatchPhaseA, BatchSettles DEF ResolveCall
    <2>4. ASSUME SameCall(c) PROVE Batch(c)'
      BY <2>4, BatchRests
    <2> QED
      BY <1>2, <2>1, <2>2, <2>3, <2>4, ClientSteps
  <1> QED
    BY <1>1, <1>2, WhoSteps

\* Every reachable state satisfies the invariant.
THEOREM BatchAlways == Spec => []BatchInv
  <1>1. Init => BatchInv
    <2> SUFFICES ASSUME Init PROVE BatchInv
      OBVIOUS
    <2>1. FillInv
      BY InitFill
    <2>2. FailOK
      BY DEF Init, FailOK, FreeSlot, NoFinish
    <2>3. \A c \in Clients : call[c] = Idle
      BY DEF Init
    <2>4. LockOK /\ \A c \in Clients : Batch(c)
      BY <2>3 DEF LockOK, Batch, Idle
    <2> QED
      BY <2>1, <2>2, <2>4 DEF BatchInv
  <1>2. BatchInv /\ [Next]_vars => BatchInv'
    <2> SUFFICES ASSUME BatchInv, [Next]_vars PROVE BatchInv'
      OBVIOUS
    <2>1. FillInv'
      BY FillInductive DEF BatchInv
    <2>2. FailOK'
      BY FailStep DEF BatchInv, FillInv
    <2>3. LockOK'
      BY LockStays DEF BatchInv, FillInv, SafeInv, Batch
    <2>4. \A c \in Clients : Batch(c)'
      BY BatchStep
    <2> QED
      BY <2>1, <2>2, <2>3, <2>4 DEF BatchInv
  <1> QED
    BY <1>1, <1>2, PTL DEF Spec

\* resolve_into is all or nothing, whatever the other threads do between its rows.
THEOREM AllOrNothing == Spec => []ResolveIsAllOrNothing
  <1>1. BatchInv => ResolveIsAllOrNothing
    BY DEF BatchInv, Batch, ReturnedOK, Matches, AllReady, ResolveIsAllOrNothing
  <1> QED
    BY <1>1, BatchAlways, PTL

\* A successful batch is of one generation, current at some moment of the call.
THEOREM OneGeneration == Spec => []BatchIsOneGeneration
  <1>1. BatchInv => BatchIsOneGeneration
    BY DEF BatchInv, Batch, ReturnedOK, OneGen, BatchIsOneGeneration
  <1> QED
    BY <1>1, BatchAlways, PTL

-----------------------------------------------------------------------------
(* The report of wait *)

\* An entry that names a slot names one that has been used.
WaiterOK ==
    \A k \in Records, i \in Positions :
        waiters[k][i].slot # NONE => slots[waiters[k][i].slot].state # "free"

\* A wait on a ticket keeps the ticket, and has counted the entries it has passed.
WaitPlaces == {"drive", "finish", "blocked", "returned"}
Sum(t) == t.filled + t.failed + t.pending + t.evicted
Reported(c) ==
    /\ tickets[call[c].rec].held
    /\ Sum(call[c].tally) = IF call[c].pc = "returned" THEN tickets[call[c].rec].count ELSE call[c].i - 1
    /\ TimeoutFree => (call[c].status = "timeout" <=> call[c].tally.pending > 0)
    /\ call[c].status = "ok" <=> call[c].tally.failed + call[c].tally.pending = 0
WaitOK(c) ==
    call[c].op = "wait" => call[c].pc \in WaitPlaces /\ (call[c].rec # 0 => Reported(c))

\* The inductive invariant.
WaitInv == FillInv /\ FailOK /\ WaiterOK /\ \A c \in Clients : WaitOK(c)

\* A slot that has been used is not free again.
LEMMA NeverFree ==
  ASSUME FillInv, [Next]_vars, NEW s \in Slots, slots[s].state # "free"
  PROVE  slots'[s].state # "free"
  <1>0. SafeInv /\ ShapeInv /\ slots \in [Slots -> SlotRecord] /\ clockHand \in Slots /\ generation \in Generations
    BY DEF FillInv, SafeInv, ShapeInv, TypeOK
  <1>1. FillKinds
    BY <1>0, StepFills
  <1>2. CASE SameFills
    BY <1>2 DEF SameFills, SameSlot
  <1>3. ASSUME NEW k \in Steps, NEW r \in Rows, NEW o \in FillOutcomes(At(k), r), NEW pin \in {0, 1},
               StartsFill(k, r, o, pin)
        PROVE  slots'[s].state # "free"
    <2>1. PICK z \in Slots : z = At(k)
      BY <1>0, HandFacts
    <2>2. slots'[z] = AdmittedSlot(z, r, o, pin) /\ \A y \in Slots \ {z} : SameSlot(y)
      BY <1>0, <1>3, <2>1, StartEffect DEF StartsFill
    <2>3. AdmittedSlot(z, r, o, pin).state # "free"
      BY DEF AdmittedSlot
    <2> QED
      BY <2>2, <2>3 DEF SameSlot
  <1>4. ASSUME NEW t \in Threads, NEW z \in Slots, TakesFill(t, z) PROVE slots'[s].state # "free"
    BY <1>0, <1>4, FinishingEffect DEF TakesFill, SameSlot
  <1>5. ASSUME NEW t \in Threads, GivesBack(t) PROVE slots'[s].state # "free"
    <2>1. fin[t].slot \in Slots
      BY <1>0, <1>5 DEF GivesBack, ShapeInv, FinOK
    <2> QED
      BY <1>0, <1>5, <2>1, FinishingEffect DEF GivesBack, SameSlot
  <1>6. ASSUME NEW t \in Threads, Publish(t) PROVE slots'[s].state # "free"
    BY <1>0, <1>6, PublishEffect
  <1>7. CASE Rebinds
    BY <1>7 DEF Rebinds
  <1> QED
    BY <1>1, <1>2, <1>3, <1>4, <1>5, <1>6, <1>7 DEF FillKinds

\* What prefetch records: no slot, or one that is filling, ready or failed.
LEMMA RecordsUsed ==
  ASSUME FillInv, NEW c \in Clients, PrefetchHit(c) \/ PrefetchMiss(c) \/ PrefetchExhausted(c)
  PROVE  \E e : \E s \in Slots \cup {NONE} :
            Recorded(c, s, e) /\ (s # NONE => slots'[s].state # "free")
  <1>0. /\ ShapeInv /\ SlotOK /\ slots \in [Slots -> SlotRecord] /\ clockHand \in Slots
        /\ generation \in Generations
    BY DEF FillInv, SafeInv, ShapeInv, TypeOK
  <1>1. CASE PrefetchHit(c)
    <2>1. PICK s \in Slots : slots[s].indexed /\ Recorded(c, s, slots[s].epoch)
      BY <1>1 DEF PrefetchHit, Indexed
    <2>2. slots' = slots
      BY <1>1 DEF PrefetchHit, poolVars
    <2>3. slots'[s].state # "free"
      BY <1>0, <2>1, <2>2 DEF SlotOK
    <2> QED
      BY <2>1, <2>3
  <1>2. CASE PrefetchMiss(c)
    <2>1. PICK r \in Rows : r = call[c].rows[call[c].i]
      BY <1>0, <1>2, PlaceFacts DEF PrefetchMiss
    <2>2. PICK k \in Steps :
            /\ ClaimsAt(k) /\ \E o \in FillOutcomes(At(k), r) : StartFill(k, At(k), r, o, 0)
            /\ Recorded(c, At(k), (slots[At(k)].epoch + 1) % WordModulus)
      BY <1>2, <2>1 DEF PrefetchMiss
    <2>3. PICK o \in FillOutcomes(At(k), r) : StartFill(k, At(k), r, o, 0)
      BY <2>2
    <2>4. PICK z \in Slots : z = At(k)
      BY <1>0, HandFacts
    <2>5. slots'[z] = AdmittedSlot(z, r, o, 0)
      BY <1>0, <2>2, <2>3, <2>4, StartEffect
    <2>6. AdmittedSlot(z, r, o, 0).state # "free"
      BY DEF AdmittedSlot
    <2> QED
      BY <2>2, <2>4, <2>5, <2>6
  <1>3. CASE PrefetchExhausted(c)
    BY <1>3 DEF PrefetchExhausted
  <1> QED
    BY <1>1, <1>2, <1>3

\* Only the loop of prefetch writes entries.
LEMMA WhoRecords ==
  ASSUME NEW c \in Clients, Start(c) \/ Continue(c) \/ Drop(c) \/ Deadline(c)
  PROVE  UNCHANGED waiters \/ PrefetchHit(c) \/ PrefetchMiss(c) \/ PrefetchExhausted(c)
  <1> USE DEF tableVars, poolVars, fillVars, bindVars, ticketVars, sysVars
  <1>1. CASE Start(c)
    BY <1>1 DEF Start, CallResolve, CallPrefetch, CallWait, CallDrain, TryGet, Invalidate,
       InvalidateRefused
  <1>2. CASE Drop(c) \/ Deadline(c)
    BY <1>2 DEF Drop, Deadline, Release, ReleaseLease, DropTicket, TimeoutEntry, DrainTimesOut, Relinquish
  <1>3. CASE Continue(c)
    BY <1>3 DEF Continue, ResetOut, ReleaseLease, ResolveOutOfRange, LockResolve, AdmitHit,
       AdmitMiss, AdmitExhausted, Unwound, ClaimFill, AwaitFill, SettleRow, SettleEntry, SkipEntry,
       DrainTests, Return
  <1> QED
    BY <1>1, <1>2, <1>3

\* Every step keeps the entries on used slots.
LEMMA WaitersStay ==
  ASSUME FillInv, WaiterOK, [Next]_vars
  PROVE  WaiterOK'
  <1> USE DEF tableVars, poolVars, fillVars, bindVars, ticketVars, sysVars
  <1>0. ShapeInv /\ TypeOK /\ waiters \in [Records -> [Positions -> WaiterRecord]]
    BY DEF FillInv, SafeInv, ShapeInv, TypeOK
  <1>1. ASSUME NEW w \in WaiterRecord, w.slot # NONE, slots[w.slot].state # "free"
        PROVE  slots'[w.slot].state # "free"
    <2>1. w.slot \in Slots
      BY <1>1 DEF WaiterRecord
    <2> QED
      BY <1>1, <2>1, NeverFree
  <1>2. CASE UNCHANGED waiters
    BY <1>0, <1>1, <1>2 DEF WaiterOK
  <1>3. ASSUME NEW c \in Clients, PrefetchHit(c) \/ PrefetchMiss(c) \/ PrefetchExhausted(c)
        PROVE  WaiterOK'
    <2>1. PICK s, e :
            s \in Slots \cup {NONE} /\ Recorded(c, s, e) /\ (s # NONE => slots'[s].state # "free")
      BY <1>3, RecordsUsed
    <2>2. PICK w : w = [slot |-> s, epoch |-> e, row |-> call[c].rows[call[c].i]]
      OBVIOUS
    <2>3. w.slot = s
      BY <2>2
    <2>4. waiters' = [waiters EXCEPT ![call[c].rec][call[c].i] = w]
      BY <2>1, <2>2 DEF Recorded
    <2>5. \A k \in Records, i \in Positions : waiters'[k][i] = waiters[k][i] \/ waiters'[k][i] = w
      BY <1>0, <2>4
    <2> QED
      BY <1>0, <1>1, <2>1, <2>3, <2>5 DEF WaiterOK
  <1>4. ASSUME NEW c \in Clients, Start(c) \/ Continue(c) \/ Drop(c) \/ Deadline(c)
        PROVE  UNCHANGED waiters \/ PrefetchHit(c) \/ PrefetchMiss(c) \/ PrefetchExhausted(c)
    BY <1>4, WhoRecords
  <1> QED
    BY <1>2, <1>3, <1>4, WhoSteps, BackgroundFrame

\* A ticket that is waited on stays as it is.
LEMMA TicketStays ==
  ASSUME ShapeInv, [Next]_vars, NEW k \in Records, tickets[k].held, Waiting(k)
  PROVE  tickets'[k] = tickets[k]
  <1>0. tickets \in [Records -> [generation : Words, count : Nat, held : BOOLEAN]]
    BY DEF ShapeInv, TypeOK
  <1>1. ASSUME NEW c \in Clients, CallPrefetch(c) PROVE tickets'[k] = tickets[k]
    <2>1. \/ UNCHANGED tickets
          \/ \E t : \E j \in Records : ~tickets[j].held /\ tickets' = [tickets EXCEPT ![j] = t]
      BY <1>1 DEF CallPrefetch
    <2> QED
      BY <1>0, <2>1
  <1>2. ASSUME NEW c \in Clients, DropTicket(c) PROVE tickets'[k] = tickets[k]
    <2>1. tick[c].record # k
      BY <1>2 DEF DropTicket
    <2> QED
      BY <1>0, <1>2, <2>1 DEF DropTicket
  <1> QED
    BY <1>1, <1>2, TicketKinds, WhoSteps, BackgroundFrame

\* A wait stays as it is while the others step.
LEMMA WaitStays ==
  ASSUME ShapeInv, [Next]_vars, NEW c \in Clients, WaitOK(c), call'[c] = call[c]
  PROVE  WaitOK(c)'
  <1> SUFFICES ASSUME call[c].op = "wait", call[c].rec # 0 PROVE Reported(c)'
    BY DEF WaitOK
  <1>1. Reported(c) /\ call[c].pc # "idle"
    BY DEF WaitOK, WaitPlaces
  <1>2. call[c].rec \in Records
    BY DEF ShapeInv, TypeOK, CallRecord
  <1>3. tickets'[call[c].rec] = tickets[call[c].rec]
    BY <1>1, <1>2, TicketStays DEF Waiting, Reported
  <1> QED
    BY <1>1, <1>3 DEF Reported

\* Counting adds one to the sum, under the kind it says.
LEMMA TallyCounts ==
  ASSUME NEW t \in [filled : Nat, failed : Nat, pending : Nat, evicted : Nat],
         NEW kind \in {"filled", "failed", "pending", "evicted"}, NEW u, u = [t EXCEPT ![kind] = @ + 1]
  PROVE  /\ Sum(u) = Sum(t) + 1 /\ Sum(t) \in Nat
         /\ t.failed \in Nat /\ t.pending \in Nat
         /\ u.failed = t.failed + (IF kind = "failed" THEN 1 ELSE 0)
         /\ u.pending = t.pending + (IF kind = "pending" THEN 1 ELSE 0)
  BY DEF Sum

\* Every way of counting an entry keeps the report right.
LEMMA WaitCounts ==
  ASSUME ShapeInv, NEW c \in Clients, WaitOK(c), call[c].op = "wait", call[c].pc # "returned",
         NEW kind \in {"filled", "failed", "pending", "evicted"}, NEW status,
         Count(c, kind, status), UNCHANGED tickets,
         kind \in {"filled", "evicted"} => status = call[c].status,
         kind = "pending" => status = "timeout",
         kind = "failed" => IF call[c].status = "ok"
                            THEN status # "ok" /\ (TimeoutFree => status # "timeout")
                            ELSE status = call[c].status
  PROVE  WaitOK(c)'
  <1>0. TypeOK /\ Shape(c) /\ call[c] \in CallRecord
    BY DEF ShapeInv, TypeOK, CallOK
  <1>1. call[c].pc \in {"drive", "finish", "blocked"}
    BY DEF WaitOK, WaitPlaces
  <1>2. call[c].rec \in Records /\ call[c].i \in 1 .. tickets[call[c].rec].count
    BY <1>0, <1>1 DEF Shape
  <1>3. call[c].rec # 0
    BY <1>2 DEF Records
  <1>4. Reported(c)
    BY <1>3 DEF WaitOK
  <1>5. PICK n \in Nat : n = tickets[call[c].rec].count
    BY <1>0, <1>2 DEF TypeOK
  <1>6. PICK i : i = call[c].i /\ i \in 1 .. n
    BY <1>2, <1>5
  <1>7. PICK t \in [filled : Nat, failed : Nat, pending : Nat, evicted : Nat] : t = call[c].tally
    BY <1>0 DEF CallRecord
  <1>8. PICK u : u = [t EXCEPT ![kind] = @ + 1]
    OBVIOUS
  <1>9. /\ call'[c].pc = IF i = n THEN "returned" ELSE "drive"
        /\ call'[c].i = IF i = n THEN 1 ELSE i + 1
        /\ call'[c].status = status /\ call'[c].tally = u
        /\ call'[c].op = call[c].op /\ call'[c].rec = call[c].rec
    BY <1>0, <1>5, <1>6, <1>7, <1>8, CountedCall
  <1>10. /\ Sum(u) = Sum(t) + 1 /\ Sum(t) \in Nat
         /\ t.failed \in Nat /\ t.pending \in Nat
         /\ u.failed = t.failed + (IF kind = "failed" THEN 1 ELSE 0)
         /\ u.pending = t.pending + (IF kind = "pending" THEN 1 ELSE 0)
    BY <1>8, TallyCounts
  <1>11. Sum(t) = i - 1
    BY <1>4, <1>6, <1>7 DEF Reported
  <1>12. Sum(u) = IF call'[c].pc = "returned" THEN n ELSE call'[c].i - 1
    BY <1>6, <1>9, <1>10, <1>11
  <1>13. TimeoutFree => (call[c].status = "timeout" <=> t.pending > 0)
    BY <1>4, <1>7 DEF Reported
  <1>14. call[c].status = "ok" <=> t.failed + t.pending = 0
    BY <1>4, <1>7 DEF Reported
  <1>15. TimeoutFree => (status = "timeout" <=> u.pending > 0)
    <2>1. CASE kind \in {"filled", "evicted"}
      BY <1>10, <1>13, <2>1
    <2>2. CASE kind = "pending"
      BY <1>10, <2>2
    <2>3. CASE kind = "failed"
      BY <1>10, <1>13, <2>3
    <2> QED
      BY <2>1, <2>2, <2>3
  <1>16. status = "ok" <=> u.failed + u.pending = 0
    <2>1. CASE kind \in {"filled", "evicted"}
      <3>1. u.failed = t.failed /\ u.pending = t.pending /\ status = call[c].status
        BY <1>10, <2>1
      <3> QED
        BY <1>14, <3>1
    <2>2. CASE kind = "pending"
      BY <1>10, <2>2
    <2>3. CASE kind = "failed"
      BY <1>10, <1>14, <2>3
    <2> QED
      BY <2>1, <2>2, <2>3
  <1>17. tickets[call[c].rec].held
    BY <1>4 DEF Reported
  <1>18. Reported(c)'
    BY <1>5, <1>9, <1>12, <1>15, <1>16, <1>17 DEF Reported
  <1> QED
    BY <1>9, <1>18 DEF WaitOK, WaitPlaces

\* An entry is settled, skipped or timed out.
LEMMA WaitGoesOn ==
  ASSUME WaitInv, NEW c \in Clients, SettleEntry(c) \/ SkipEntry(c) \/ TimeoutEntry(c)
  PROVE  WaitOK(c)'
  <1> USE DEF tableVars, poolVars, fillVars, bindVars, ticketVars
  <1>0. /\ ShapeInv /\ TypeOK /\ FailOK /\ WaiterOK /\ WaitOK(c)
        /\ slots \in [Slots -> SlotRecord]
    BY DEF WaitInv, FillInv, SafeInv, ShapeInv, TypeOK
  <1>1. call[c].op = "wait" /\ call[c].pc \in {"drive", "finish", "blocked"} /\ UNCHANGED tickets
    BY DEF SettleEntry, SkipEntry, TimeoutEntry, Settles
  <1>2. CASE SkipEntry(c)
    <2>1. PICK kind, status : kind = "evicted" /\ status = call[c].status
      OBVIOUS
    <2>2. Count(c, kind, status)
      BY <1>2, <2>1 DEF SkipEntry
    <2> QED
      BY <1>0, <1>1, <2>1, <2>2, WaitCounts
  <1>3. CASE TimeoutEntry(c)
    <2>1. PICK kind, status : kind = "pending" /\ status = "timeout"
      OBVIOUS
    <2>2. Count(c, kind, status)
      BY <1>3, <2>1 DEF TimeoutEntry
    <2> QED
      BY <1>0, <1>1, <2>1, <2>2, WaitCounts
  <1>4. CASE SettleEntry(c)
    <2>1. Target(c).slot # NONE
      <3>1. CASE call[c].pc = "drive"
        BY <1>4, <3>1 DEF SettleEntry, Settles
      <3>2. CASE call[c].pc # "drive"
        <4>1. Shape(c)
          BY <1>0 DEF ShapeInv, CallOK
        <4> QED
          BY <1>1, <3>2, <4>1 DEF Shape, Target
      <3> QED
        BY <3>1, <3>2
    <2>2. PICK s : s = Target(c).slot
      OBVIOUS
    <2>3. s \in Slots
      BY <1>0, <1>1, <2>1, <2>2, TargetFacts
    <2>4. slots[s].state # "free"
      <3>1. Target(c) = waiters[call[c].rec][call[c].i] /\ call[c].rec \in Records /\ call[c].i \in Positions
        <4>1. Shape(c)
          BY <1>0 DEF ShapeInv, CallOK
        <4>2. /\ call[c].rec \in Records /\ tickets[call[c].rec].held
              /\ call[c].i \in 1 .. tickets[call[c].rec].count
          BY <1>1, <4>1 DEF Shape
        <4>3. tickets[call[c].rec].count \in 1 .. MaxBatch
          BY <1>0, <4>2 DEF ShapeInv, TicketOK
        <4>4. call[c].i \in Positions
          BY <4>2, <4>3, ConstantFacts DEF Positions
        <4> QED
          BY <1>1, <4>2, <4>4 DEF Target
      <3> QED
        BY <1>0, <2>1, <2>2, <3>1 DEF WaiterOK
    <2>5. slots[s].state \in {"filling", "ready", "failed"}
      <3>1. slots[s] \in SlotRecord
        BY <1>0, <2>3
      <3> QED
        BY <2>4, <3>1 DEF SlotRecord
    <2>6. PICK kind, status :
            /\ kind \in {"filled", "failed", "pending", "evicted"}
            /\ Count(c, kind, status)
            /\ kind \in {"filled", "evicted"} => status = call[c].status
            /\ kind = "pending" => status = "timeout"
            /\ kind = "failed" => /\ slots[s].state = "failed"
                                  /\ status = IF call[c].status = "ok" THEN slots[s].failure ELSE call[c].status
      <3>1. CASE slots[s].epoch # Target(c).epoch
        BY <1>4, <2>2, <3>1 DEF SettleEntry
      <3>2. CASE slots[s].epoch = Target(c).epoch /\ slots[s].state = "ready"
        BY <1>4, <2>2, <3>2 DEF SettleEntry
      <3>3. CASE slots[s].epoch = Target(c).epoch /\ slots[s].state = "filling"
        BY <1>4, <2>2, <3>3 DEF SettleEntry
      <3>4. CASE slots[s].epoch = Target(c).epoch /\ slots[s].state = "failed"
        <4>1. Count(c, "failed", IF call[c].status = "ok" THEN slots[s].failure ELSE call[c].status)
          BY <1>4, <2>2, <3>4 DEF SettleEntry
        <4> QED
          BY <3>4, <4>1
      <3> QED
        BY <2>5, <3>1, <3>2, <3>3, <3>4
    <2>7. slots[s].state = "failed" =>
            slots[s].failure # "ok" /\ (TimeoutFree => slots[s].failure # "timeout")
      BY <1>0, <2>3 DEF FailOK
    <2> QED
      BY <1>0, <1>1, <2>6, <2>7, WaitCounts
  <1> QED
    BY <1>2, <1>3, <1>4

\* A wait begins with nothing counted.
LEMMA WaitBegins ==
  ASSUME ShapeInv, NEW c \in Clients, CallWait(c)
  PROVE  WaitOK(c)'
  <1>0. TypeOK /\ TicketOK /\ call \in [Clients -> CallRecord] /\ UNCHANGED tickets
    BY DEF ShapeInv, TypeOK, CallWait, tableVars, ticketVars
  <1>1. PICK d \in Clients, timed \in BOOLEAN :
          call' = [call EXCEPT ![c] =
                     IF tick[d].record = 0
                     THEN [Begin("wait", "returned") EXCEPT !.status = "invalid_argument"]
                     ELSE [Begin("wait", "drive") EXCEPT !.rec = tick[d].record, !.timed = timed]]
    BY DEF CallWait
  <1>2. CASE tick[d].record = 0
    <2>1. PICK b, h : b = Begin("wait", "returned") /\ h = [b EXCEPT !.status = "invalid_argument"]
      OBVIOUS
    <2>2. /\ DOMAIN b = {"op", "pc", "rows", "i", "rec", "timed", "status", "tally", "since"}
          /\ b.pc = "returned" /\ b.rec = 0
      BY <1>0, <2>1, BegunCall
    <2>3. h.pc = "returned" /\ h.rec = 0
      BY <2>1, <2>2
    <2>4. call'[c] = h
      BY <1>0, <1>1, <1>2, <2>1
    <2> QED
      BY <2>3, <2>4 DEF WaitOK, WaitPlaces
  <1>3. CASE tick[d].record # 0
    <2>1. PICK k, b, h : /\ k = tick[d].record /\ b = Begin("wait", "drive")
                         /\ h = [b EXCEPT !.rec = k, !.timed = timed]
      OBVIOUS
    <2>2. /\ DOMAIN b = {"op", "pc", "rows", "i", "rec", "timed", "status", "tally", "since"}
          /\ b.pc = "drive" /\ b.status = "ok" /\ b.i = 1 /\ b.tally = NoTally
      BY <1>0, <2>1, BegunCall
    <2>3. h.pc = "drive" /\ h.rec = k /\ h.status = "ok" /\ h.i = 1 /\ h.tally = NoTally
      BY <2>1, <2>2
    <2>4. call'[c] = h
      BY <1>0, <1>1, <1>3, <2>1
    <2>5. tickets[k].held
      BY <1>0, <1>3, <2>1 DEF TicketOK
    <2>6. Sum(NoTally) = 0 /\ NoTally.pending = 0 /\ NoTally.failed = 0
      BY DEF Sum, NoTally
    <2>7. Reported(c)'
      BY <1>0, <2>3, <2>4, <2>5, <2>6 DEF Reported
    <2> QED
      BY <2>3, <2>4, <2>7 DEF WaitOK, WaitPlaces
  <1> QED
    BY <1>2, <1>3

\* The row in hand is finished by this wait or awaited.
LEMMA WaitMoves ==
  ASSUME ShapeInv, NEW c \in Clients, WaitOK(c), ClaimFill(c) \/ AwaitFill(c)
  PROVE  WaitOK(c)'
  <1> USE DEF tableVars, poolVars, fillVars, bindVars, ticketVars
  <1>0. TypeOK
    BY DEF ShapeInv
  <1>1. PICK pc \in {"finish", "blocked"} : call' = [call EXCEPT ![c].pc = pc]
    BY DEF ClaimFill, AwaitFill
  <1>2. /\ call'[c].pc = pc /\ call'[c].i = call[c].i
        /\ call'[c].status = call[c].status /\ call'[c].op = call[c].op
        /\ call'[c].rec = call[c].rec /\ call'[c].tally = call[c].tally
    BY <1>0, <1>1, MovedCall
  <1>3. UNCHANGED tickets /\ call[c].pc \in {"drive", "blocked"}
    BY DEF ClaimFill, AwaitFill
  <1> QED
    BY <1>2, <1>3 DEF WaitOK, WaitPlaces, Reported

\* The steps of resolve_into that are not shared with wait belong to a resolve_into call.
LEMMA ResolveOps ==
  ASSUME ShapeInv, NEW c \in Clients, ResolveCall(c), ~ClaimFill(c), ~AwaitFill(c)
  PROVE  call'[c].op = "resolve"
  <1>0. TypeOK /\ Shape(c) /\ call[c] \in CallRecord
    BY DEF ShapeInv, TypeOK, CallOK
  <1>1. CASE CallResolve(c)
    BY <1>0, <1>1, CallResolveCall
  <1>2. CASE ResolveOutOfRange(c) \/ Unwound(c)
    <2>1. PICK status \in Statuses : call' = [call EXCEPT ![c] = Ended(c, status)]
      BY <1>0, <1>2 DEF ResolveOutOfRange, Unwound, Statuses, CallRecord
    <2>2. call'[c].op = call[c].op
      BY <1>0, <2>1, EndedCall
    <2> QED
      BY <1>0, <1>2, <2>2 DEF Shape, ResolveOutOfRange, Unwound
  <1>3. CASE LockResolve(c)
    <2>1. call' = [call EXCEPT ![c].pc = "admit"] /\ call[c].op = "resolve"
      BY <1>0, <1>3 DEF LockResolve, Shape
    <2> QED
      BY <1>0, <2>1, MovedCall
  <1>4. CASE AdmitHit(c) \/ AdmitMiss(c) \/ AdmitExhausted(c)
    <2>1. Admitted(c) \/ \E status : AdmitFails(c, status)
      BY <1>4 DEF AdmitHit, AdmitMiss, AdmitExhausted
    <2>2. call[c].op = "resolve"
      BY <1>0, <1>4 DEF AdmitHit, AdmitMiss, AdmitExhausted, Shape
    <2>3. CASE Admitted(c)
      BY <1>0, <2>2, <2>3, AdmittedCall
    <2>4. CASE \E status : AdmitFails(c, status)
      BY <1>0, <2>2, <2>4, UnwindCall DEF AdmitFails
    <2> QED
      BY <2>1, <2>3, <2>4
  <1>5. CASE SettleRow(c)
    <2>1. \/ call' = [call EXCEPT ![c] = Ended(c, "ok")]
          \/ \E pc, n : call' = [call EXCEPT ![c] = [call[c] EXCEPT !.pc = pc, !.i = n]]
          \/ \E status : call' = [call EXCEPT ![c].pc = "unwind", ![c].status = status]
      BY <1>5 DEF SettleRow
    <2>2. call[c].op = "resolve"
      BY <1>5 DEF SettleRow
    <2>3. CASE call' = [call EXCEPT ![c] = Ended(c, "ok")]
      BY <1>0, <2>2, <2>3, EndedCall DEF Statuses
    <2>4. ASSUME NEW pc, NEW n, call' = [call EXCEPT ![c] = [call[c] EXCEPT !.pc = pc, !.i = n]]
          PROVE  call'[c].op = "resolve"
      <3>1. TypeOK
        BY <1>0
      <3>2. call'[c] = MovedTo(call[c], pc, n)
        BY <2>4, <3>1 DEF TypeOK, MovedTo
      <3>k. call[c] \in CallRecord
        BY <3>1 DEF TypeOK
      <3>3. call'[c].op = call[c].op
        BY <3>2, <3>k, MovedToFields
      <3> QED
        BY <2>2, <3>3
    <2>5. CASE \E status : call' = [call EXCEPT ![c].pc = "unwind", ![c].status = status]
      BY <1>0, <2>2, <2>5, UnwindCall
    <2> QED
      BY <2>1, <2>3, <2>4, <2>5
  <1> QED
    BY <1>1, <1>2, <1>3, <1>4, <1>5 DEF ResolveCall

\* Every step keeps every wait.
LEMMA WaitStep ==
  ASSUME WaitInv, [Next]_vars
  PROVE  \A c \in Clients : WaitOK(c)'
  <1>0. ShapeInv /\ TypeOK /\ \A c \in Clients : WaitOK(c)
    BY DEF WaitInv, FillInv, SafeInv, ShapeInv
  <1>1. ASSUME Background, NEW c \in Clients PROVE WaitOK(c)'
    BY <1>0, <1>1, WaitStays, BackgroundFrame
  <1>2. ASSUME NEW c \in Clients, Start(c) \/ Continue(c) \/ Drop(c) \/ Deadline(c), NEW d \in Clients
        PROVE  WaitOK(d)'
    <2>1. CASE d # c
      <3>1. call'[d] = call[d]
        BY <1>0, <1>2, <2>1, ClientFrame DEF Frame
      <3> QED
        BY <1>0, <3>1, WaitStays
    <2>2. ASSUME OtherCall(c) PROVE WaitOK(c)'
      <3>1. PICK op \in {"resolve", "wait"} : op = "wait"
        OBVIOUS
      <3>2. call[c].op = op => call[c].pc \notin {"prefetch", "drain"}
        BY <1>0, <3>1 DEF WaitOK, WaitPlaces
      <3>3. call'[c].op # op \/ WaitCall(c)
        BY <1>0, <2>2, <3>1, <3>2, OtherCalls
      <3>4. CASE WaitCall(c)
        BY <1>0, <3>4, WaitBegins, WaitGoesOn DEF WaitCall
      <3>5. CASE call'[c].op # "wait"
        BY <3>5 DEF WaitOK
      <3> QED
        BY <3>1, <3>3, <3>4, <3>5
    <2>3. ASSUME ResolveCall(c) PROVE WaitOK(c)'
      <3>1. CASE ClaimFill(c) \/ AwaitFill(c)
        BY <1>0, <3>1, WaitMoves
      <3>2. CASE ~ClaimFill(c) /\ ~AwaitFill(c)
        <4>1. call'[c].op = "resolve"
          BY <1>0, <2>3, <3>2, ResolveOps
        <4> QED
          BY <4>1 DEF WaitOK
      <3> QED
        BY <3>1, <3>2
    <2>4. ASSUME SameCall(c) PROVE WaitOK(c)'
      <3>1. UNCHANGED call
        BY <2>4 DEF SameCall, ResetOut, ReleaseLease, TryGet, Release, DropTicket, Relinquish
      <3> QED
        BY <1>0, <3>1, WaitStays
    <2> QED
      BY <1>2, <2>1, <2>2, <2>3, <2>4, ClientSteps
  <1> QED
    BY <1>1, <1>2, WhoSteps

\* Every reachable state satisfies the invariant.
THEOREM WaitAlways == Spec => []WaitInv
  <1>1. Init => WaitInv
    <2> SUFFICES ASSUME Init PROVE WaitInv
      OBVIOUS
    <2>1. FillInv
      BY InitFill
    <2>2. FailOK
      BY DEF Init, FailOK, FreeSlot, NoFinish
    <2>3. WaiterOK
      BY DEF Init, WaiterOK, NoWaiter
    <2>4. \A c \in Clients : call[c] = Idle
      BY DEF Init
    <2>5. \A c \in Clients : WaitOK(c)
      BY <2>4 DEF WaitOK, Idle
    <2> QED
      BY <2>1, <2>2, <2>3, <2>5 DEF WaitInv
  <1>2. WaitInv /\ [Next]_vars => WaitInv'
    <2> SUFFICES ASSUME WaitInv, [Next]_vars PROVE WaitInv'
      OBVIOUS
    <2>1. FillInv'
      BY FillInductive DEF WaitInv
    <2>2. FailOK'
      BY FailStep DEF WaitInv, FillInv
    <2>3. WaiterOK'
      BY WaitersStay DEF WaitInv
    <2>4. \A c \in Clients : WaitOK(c)'
      BY WaitStep
    <2> QED
      BY <2>1, <2>2, <2>3, <2>4 DEF WaitInv
  <1> QED
    BY <1>1, <1>2, PTL DEF Spec

\* wait accounts for every entry once, with the status its counts deserve, provided that no resolver
\* answers with the status of a passed deadline.
THEOREM WaitsAddUp == TimeoutFree => (Spec => []WaitReportAddsUp)
  <1> SUFFICES ASSUME TimeoutFree PROVE Spec => []WaitReportAddsUp
    OBVIOUS
  <1>1. WaitInv => WaitReportAddsUp
    BY DEF WaitInv, WaitOK, Reported, Sum, WaitReportAddsUp
  <1> QED
    BY <1>1, WaitAlways, PTL

-----------------------------------------------------------------------------
(* The entries of a ticket *)

\* No slot has been reused so often that its next epoch wraps around: 2^32 - 1 times in the code.
EpochsFresh == \A s \in Slots : slots[s].epoch < WordModulus - 1

\* An entry's epoch is not ahead of its slot, and while it is the slot's the row is the slot's too.
Entry(w) ==
    w.slot # NONE =>
        /\ w.epoch <= slots[w.slot].epoch
        /\ w.epoch = slots[w.slot].epoch => w.row = slots[w.slot].row
EntryOK == \A k \in Records, i \in Positions : Entry(waiters[k][i])
EntryInv == FillInv /\ EntryOK

\* An epoch that does not wrap around grows.
LEMMA EpochGrows ==
  ASSUME NEW e \in Words, e < WordModulus - 1
  PROVE  (e + 1) % WordModulus = e + 1
  <1>1. PICK w \in Nat \ {0} : w = WordModulus
    BY ConstantFacts
  <1>2. PICK n \in Nat : n = e + 1 /\ n < w
    BY <1>1 DEF Words
  <1>3. n % w = n
    BY <1>1, <1>2
  <1> QED
    BY <1>1, <1>2, <1>3

\* A victim slot has the row and the next epoch.
LEMMA ReusedSlot ==
  ASSUME FillInv, EpochsFresh, NEW k \in Steps, NEW r \in Rows, NEW o \in FillOutcomes(At(k), r),
         NEW pin \in {0, 1}, ClaimsAt(k), StartFill(k, At(k), r, o, pin)
  PROVE  /\ At(k) \in Slots
         /\ slots'[At(k)].epoch = slots[At(k)].epoch + 1
         /\ (slots[At(k)].epoch + 1) % WordModulus = slots[At(k)].epoch + 1
         /\ slots'[At(k)].row = r
         /\ \A z \in Slots \ {At(k)} : SameSlot(z)
  <1>0. ShapeInv /\ slots \in [Slots -> SlotRecord] /\ clockHand \in Slots
    BY DEF FillInv, SafeInv, ShapeInv, TypeOK
  <1>1. PICK s \in Slots : s = At(k)
    BY <1>0, HandFacts
  <1>2. slots'[s] = AdmittedSlot(s, r, o, pin) /\ \A z \in Slots \ {s} : SameSlot(z)
    BY <1>0, <1>1, StartEffect
  <1>3. PICK e \in Words : e = slots[s].epoch
    BY <1>0 DEF SlotRecord
  <1>4. (e + 1) % WordModulus = e + 1
    BY <1>3, EpochGrows DEF EpochsFresh
  <1>5. slots'[s].epoch = (e + 1) % WordModulus /\ slots'[s].row = r
    BY <1>2, <1>3 DEF AdmittedSlot
  <1> QED
    BY <1>1, <1>2, <1>3, <1>4, <1>5

\* A slot keeps its row and epoch, or gets a later epoch.
LEMMA EpochsGrow ==
  ASSUME FillInv, EpochsFresh, [Next]_vars, NEW s \in Slots
  PROVE  \/ slots'[s].epoch = slots[s].epoch /\ slots'[s].row = slots[s].row
         \/ slots'[s].epoch = slots[s].epoch + 1
  <1>0. SafeInv /\ ShapeInv /\ slots \in [Slots -> SlotRecord] /\ fin \in [Threads -> FinishRecord]
    BY DEF FillInv, SafeInv, ShapeInv, TypeOK
  <1>1. FillKinds
    BY <1>0, StepFills
  <1>2. ASSUME \A z \in Slots : SameSlot(z)
        PROVE  slots'[s].epoch = slots[s].epoch /\ slots'[s].row = slots[s].row
    BY <1>2 DEF SameSlot
  <1>3. CASE SameFills \/ Rebinds
    BY <1>2, <1>3 DEF SameFills, Rebinds, SameSlot
  <1>4. CASE \/ \E t \in Threads, z \in Slots : TakesFill(t, z)
             \/ \E t \in Threads : GivesBack(t)
    <2>1. PICK z \in Slots, b \in BOOLEAN : slots' = [slots EXCEPT ![z].finishing = b]
      BY <1>0, <1>4 DEF TakesFill, GivesBack, ShapeInv, FinOK
    <2> QED
      BY <1>0, <1>2, <2>1, FinishingEffect
  <1>5. ASSUME NEW k \in Steps, NEW r \in Rows, NEW o \in FillOutcomes(At(k), r), NEW pin \in {0, 1},
               StartsFill(k, r, o, pin)
        PROVE  \/ slots'[s].epoch = slots[s].epoch /\ slots'[s].row = slots[s].row
               \/ slots'[s].epoch = slots[s].epoch + 1
    <2>1. PICK z \in Slots : z = At(k)
      BY <1>5, ReusedSlot DEF StartsFill
    <2>2. slots'[z].epoch = slots[z].epoch + 1 /\ \A y \in Slots \ {z} : SameSlot(y)
      BY <1>5, <2>1, ReusedSlot DEF StartsFill
    <2> QED
      BY <2>2 DEF SameSlot
  <1>6. ASSUME NEW t \in Threads, Publish(t)
        PROVE  slots'[s].epoch = slots[s].epoch /\ slots'[s].row = slots[s].row
    <2>1. PICK z \in Slots : z = fin[t].slot
      BY <1>0, <1>6, PublishEffect
    <2>2. PICK status \in Statuses :
            status = IF fin[t].pc = "wait" /\ FailedFirst(z) THEN "io_error" ELSE fin[t].status
      BY <1>0 DEF FinishRecord, Statuses
    <2>3. PICK q : q = Published(z, status)
      OBVIOUS
    <2>4. q.row = slots[z].row /\ q.epoch = slots[z].epoch
      BY <1>0, <2>3, PublishedFacts
    <2>5. slots' = [slots EXCEPT ![z] = q]
      BY <1>6, <2>1, <2>2, <2>3 DEF Publish
    <2> QED
      BY <1>0, <2>4, <2>5
  <1> QED
    BY <1>1, <1>3, <1>4, <1>5, <1>6 DEF FillKinds

\* What prefetch records: no slot, or one that has the row, under its epoch.
LEMMA RecordsRow ==
  ASSUME FillInv, EpochsFresh, NEW c \in Clients, PrefetchHit(c) \/ PrefetchMiss(c) \/ PrefetchExhausted(c)
  PROVE  \E e : \E s \in Slots \cup {NONE} :
            /\ Recorded(c, s, e)
            /\ s # NONE => slots'[s].epoch = e /\ e \in Int /\ slots'[s].row = call[c].rows[call[c].i]
  <1>0. ShapeInv /\ slots \in [Slots -> SlotRecord] /\ clockHand \in Slots
    BY DEF FillInv, SafeInv, ShapeInv, TypeOK
  <1>1. CASE PrefetchHit(c)
    <2>1. PICK s \in Slots : slots[s].row = call[c].rows[call[c].i] /\ Recorded(c, s, slots[s].epoch)
      BY <1>1 DEF PrefetchHit, Indexed
    <2>2. slots' = slots
      BY <1>1 DEF PrefetchHit, poolVars
    <2>3. slots[s].epoch \in Int
      BY <1>0 DEF SlotRecord, Words
    <2> QED
      BY <2>1, <2>2, <2>3
  <1>2. CASE PrefetchMiss(c)
    <2>1. PICK r \in Rows : r = call[c].rows[call[c].i]
      BY <1>0, <1>2, PlaceFacts DEF PrefetchMiss
    <2>2. PICK k \in Steps :
            /\ ClaimsAt(k) /\ \E o \in FillOutcomes(At(k), r) : StartFill(k, At(k), r, o, 0)
            /\ Recorded(c, At(k), (slots[At(k)].epoch + 1) % WordModulus)
      BY <1>2, <2>1 DEF PrefetchMiss
    <2>3. PICK pin \in {0, 1}, o \in FillOutcomes(At(k), r) : pin = 0 /\ StartFill(k, At(k), r, o, pin)
      BY <2>2
    <2>4. PICK s \in Slots : s = At(k)
      BY <1>0, HandFacts
    <2>5. slots'[s].epoch = slots[s].epoch + 1 /\ (slots[s].epoch + 1) % WordModulus = slots[s].epoch + 1
          /\ slots'[s].row = r
      BY <2>2, <2>3, <2>4, ReusedSlot
    <2>6. slots[s].epoch \in Int
      BY <1>0 DEF SlotRecord, Words
    <2>7. PICK e \in Int : e = slots[s].epoch + 1
      BY <2>6
    <2>8. Recorded(c, s, e)
      BY <2>2, <2>4, <2>5, <2>7
    <2> QED
      BY <2>1, <2>5, <2>7, <2>8
  <1>3. CASE PrefetchExhausted(c)
    BY <1>3 DEF PrefetchExhausted
  <1> QED
    BY <1>1, <1>2, <1>3

\* Every step keeps the entries about their rows.
LEMMA EntryStep ==
  ASSUME EntryInv, EpochsFresh, [Next]_vars
  PROVE  EntryInv'
  <1>0. /\ FillInv /\ FillInv' /\ EntryOK /\ waiters \in [Records -> [Positions -> WaiterRecord]]
        /\ slots \in [Slots -> SlotRecord]
    BY FillInductive DEF EntryInv, FillInv, SafeInv, ShapeInv, TypeOK
  <1>1. ASSUME NEW w \in WaiterRecord, Entry(w)
        PROVE  w.slot # NONE => /\ w.epoch <= slots'[w.slot].epoch
                                /\ w.epoch = slots'[w.slot].epoch => w.row = slots'[w.slot].row
    <2> SUFFICES ASSUME w.slot # NONE
                 PROVE  /\ w.epoch <= slots'[w.slot].epoch
                        /\ w.epoch = slots'[w.slot].epoch => w.row = slots'[w.slot].row
      OBVIOUS
    <2>1. PICK s \in Slots : s = w.slot
      BY DEF WaiterRecord
    <2>2. PICK e, f \in Int : e = w.epoch /\ f = slots[s].epoch
      BY <1>0 DEF WaiterRecord, SlotRecord, Words
    <2>3. e <= f /\ (e = f => w.row = slots[s].row)
      BY <1>1, <2>1, <2>2 DEF Entry
    <2>4. (slots'[s].epoch = f /\ slots'[s].row = slots[s].row) \/ slots'[s].epoch = f + 1
      BY <1>0, <2>2, EpochsGrow
    <2> QED
      BY <2>1, <2>2, <2>3, <2>4
  <1>2. CASE UNCHANGED waiters
    BY <1>0, <1>1, <1>2 DEF EntryInv, EntryOK, Entry
  <1>3. ASSUME NEW c \in Clients, PrefetchHit(c) \/ PrefetchMiss(c) \/ PrefetchExhausted(c)
        PROVE  EntryOK'
    <2>1. PICK s, e :
            /\ s \in Slots \cup {NONE} /\ Recorded(c, s, e)
            /\ s # NONE => slots'[s].epoch = e /\ e \in Int /\ slots'[s].row = call[c].rows[call[c].i]
      BY <1>0, <1>3, RecordsRow
    <2>2. PICK w : w = [slot |-> s, epoch |-> e, row |-> call[c].rows[call[c].i]]
      OBVIOUS
    <2>3. w.slot = s /\ w.epoch = e /\ w.row = call[c].rows[call[c].i]
      BY <2>2
    <2>4. waiters' = [waiters EXCEPT ![call[c].rec][call[c].i] = w]
      BY <2>1, <2>2 DEF Recorded
    <2>5. \A k \in Records, i \in Positions : waiters'[k][i] = waiters[k][i] \/ waiters'[k][i] = w
      BY <1>0, <2>4
    <2>6. w.slot # NONE => /\ w.epoch <= slots'[w.slot].epoch
                           /\ w.epoch = slots'[w.slot].epoch => w.row = slots'[w.slot].row
      BY <2>1, <2>3
    <2>7. ASSUME NEW k \in Records, NEW i \in Positions PROVE Entry(waiters[k][i])'
      <3>1. CASE waiters'[k][i] = w
        BY <2>6, <3>1 DEF Entry
      <3>2. CASE waiters'[k][i] = waiters[k][i]
        <4>1. Entry(waiters[k][i]) /\ waiters[k][i] \in WaiterRecord
          BY <1>0 DEF EntryOK
        <4> QED
          BY <1>1, <3>2, <4>1 DEF Entry
      <3> QED
        BY <2>5, <3>1, <3>2
    <2> QED
      BY <2>7 DEF EntryOK
  <1>4. ASSUME NEW c \in Clients, Start(c) \/ Continue(c) \/ Drop(c) \/ Deadline(c)
        PROVE  UNCHANGED waiters \/ PrefetchHit(c) \/ PrefetchMiss(c) \/ PrefetchExhausted(c)
    BY <1>4, WhoRecords
  <1>5. EntryOK'
    BY <1>0, <1>2, <1>3, <1>4, WhoSteps, BackgroundFrame DEF EntryInv
  <1> QED
    BY <1>0, <1>5 DEF EntryInv

\* wait never counts another row's fill as the one that was prefetched: an entry whose epoch still
\* matches its slot is about the entry's row, as long as no epoch wraps around.
THEOREM EntriesExact == Spec /\ []EpochsFresh => []EntriesNameTheirRow
  <1>1. Init => EntryInv
    <2> SUFFICES ASSUME Init PROVE EntryInv
      OBVIOUS
    <2>1. EntryOK
      BY DEF Init, EntryOK, Entry, NoWaiter
    <2> QED
      BY <2>1, InitFill DEF EntryInv
  <1>2. EntryInv /\ EpochsFresh /\ [Next]_vars => EntryInv'
    BY EntryStep
  <1>3. EntryInv => EntriesNameTheirRow
    BY DEF EntryInv, EntryOK, Entry, EntriesNameTheirRow
  <1> QED
    BY <1>1, <1>2, <1>3, PTL DEF Spec

-----------------------------------------------------------------------------
(* The bytes of a row, when a row is one read *)

\* Every row is one read: always so in a table that converts, and in one whose rows fit one transfer.
OneRead == \A g \in Generations, r \in Rows : Reads(Extent[g][r]) = 1

\* The slot's output, or for a table that converts its scratch slot, has the bytes of the slot's row.
Holds(s) == output[s][1] = <<slots[s].gen, slots[s].row>>
Landed(s) ==
    IF Converting THEN scratchData[slots[s].scratch] = <<slots[s].gen, slots[s].row>> ELSE Holds(s)

\* A slot has a claim exactly while it fills; a claim that is ok has landed, and a ready slot holds its row.
SlotBytes(s) ==
    /\ \A c \in ChunkIds \ {1} : claims[s][c] = "none"
    /\ claims[s][1] # "none" <=> slots[s].state = "filling"
    /\ claims[s][1] = "ok" => Landed(s)
    /\ slots[s].state = "ready" => Holds(s)

\* The codec has run on bytes that had landed.
FinBytes(t) ==
    fin[t].pc = "publish" =>
        claims[fin[t].slot][1] = "ok" /\ (fin[t].status = "ok" => Holds(fin[t].slot))

BytesOK == dropped = {} /\ (\A s \in Slots : SlotBytes(s)) /\ (\A t \in Threads : FinBytes(t))
BytesInv == FillInv /\ BytesOK

\* A step that writes no bytes and takes or gives up no claim.
SameBytes ==
    /\ UNCHANGED <<claims, dropped, output, scratchData>>
    /\ \A s \in Slots : SameSlot(s)
    /\ \A t \in Threads : fin'[t].pc = "publish" => fin'[t] = fin[t]

\* The kinds of steps.
ByteKinds ==
    \/ SameBytes
    \/ \E k \in Steps, r \in Rows : \E o \in FillOutcomes(At(k), r), pin \in {0, 1} : StartsFill(k, r, o, pin)
    \/ \E t \in Threads : Publish(t) \/ Convert(t)
    \/ \E s \in Slots, c \in ChunkIds : Complete(s, c)
    \/ \E d \in dropped : CompleteDropped(d)

\* A thread gets to publish a converted row by running the codec.
LEMMA PublishersStay ==
  ASSUME ShapeInv, [Next]_vars
  PROVE  \/ \E t \in Threads : Convert(t) \/ Publish(t)
         \/ \A t \in Threads : fin'[t].pc = "publish" => fin'[t] = fin[t]
  <1> DEFINE Stay == \A t \in Threads : fin'[t].pc = "publish" => fin'[t] = fin[t]
  <1> USE DEF tableVars, poolVars, fillVars, bindVars, ticketVars, sysVars
  <1>0. fin \in [Threads -> FinishRecord] /\ Clients \subseteq Threads /\ Worker \in Threads
    BY DEF ShapeInv, TypeOK, Threads
  <1>1. ASSUME NEW t \in Threads, NEW f, f.pc # "publish", fin' = [fin EXCEPT ![t] = f]
        PROVE  Stay
    BY <1>0, <1>1
  <1>2. UNCHANGED fin => Stay
    OBVIOUS
  <1> HIDE DEF Stay
  <1>3. NoFinish \in FinishRecord /\ NoFinish.pc # "publish"
    BY RecordFacts DEF NoFinish
  <1>4. ASSUME NEW c \in Clients, ClaimFill(c) PROVE Stay
    <2>1. PICK f : f = [NoFinish EXCEPT !.pc = "begin", !.slot = Target(c).slot, !.timed = call[c].timed]
      OBVIOUS
    <2>2. f.pc # "publish"
      BY <2>1 DEF NoFinish
    <2>3. fin' = [fin EXCEPT ![c] = f]
      BY <1>4, <2>1 DEF ClaimFill
    <2> QED
      BY <1>0, <1>1, <2>2, <2>3
  <1>5. ASSUME NEW c \in Clients, Relinquish(c) PROVE Stay
    BY <1>0, <1>1, <1>3, <1>5 DEF Relinquish
  <1>6. ASSUME NEW c \in Clients, Start(c) \/ Continue(c) \/ Drop(c) \/ Deadline(c) PROVE Stay
    <2>1. CASE Start(c)
      BY <1>2, <2>1 DEF Start, CallResolve, CallPrefetch, CallWait, CallDrain, TryGet, Invalidate,
         InvalidateRefused
    <2>2. CASE Drop(c) \/ Deadline(c)
      BY <1>2, <1>5, <2>2 DEF Drop, Deadline, Release, ReleaseLease, DropTicket, TimeoutEntry, DrainTimesOut
    <2>3. CASE Continue(c)
      BY <1>2, <1>4, <2>3 DEF Continue, ResetOut, ReleaseLease, ResolveOutOfRange, LockResolve, AdmitHit,
         AdmitMiss, AdmitExhausted, Unwound, AwaitFill, SettleRow, SettleEntry, SkipEntry,
         PrefetchHit, PrefetchMiss, PrefetchExhausted, DrainTests, Return
    <2> QED
      BY <1>6, <2>1, <2>2, <2>3
  <1>7. ASSUME NEW t \in Threads, BeginFinish(t) PROVE Stay
    <2>1. PICK h \in FinishRecord : h = fin[t]
      BY <1>0
    <2>2. PICK f : f = IF slots[h.slot].state # "filling" THEN NoFinish ELSE [h EXCEPT !.pc = "wait"]
      OBVIOUS
    <2>3. f.pc # "publish"
      <3>1. [h EXCEPT !.pc = "wait"].pc = "wait"
        BY DEF FinishRecord
      <3> QED
        BY <1>3, <2>2, <3>1
    <2>4. fin' = [fin EXCEPT ![t] = f]
      BY <1>7, <2>1, <2>2 DEF BeginFinish
    <2> QED
      BY <1>1, <2>3, <2>4
  <1>8. ASSUME WorkerClaims PROVE Stay
    <2>1. PICK s \in Slots : fin' = [fin EXCEPT ![Worker] = [NoFinish EXCEPT !.pc = "begin", !.slot = s]]
      BY <1>8 DEF WorkerClaims
    <2>2. PICK f : f = [NoFinish EXCEPT !.pc = "begin", !.slot = s]
      OBVIOUS
    <2>3. f.pc # "publish"
      BY <2>2 DEF NoFinish
    <2> QED
      BY <1>0, <1>1, <2>1, <2>2, <2>3
  <1>9. ASSUME Background
        PROVE  \/ UNCHANGED fin \/ WorkerClaims
               \/ \E t \in Threads : BeginFinish(t) \/ Convert(t) \/ Publish(t)
    BY <1>9 DEF Background, vars, Finish, SpuriousWake, WorkerStep, WorkerIdles, Complete, CompleteDropped,
       Destroy, Destroyed
  <1>10. Stay \/ \E t \in Threads : Convert(t) \/ Publish(t)
    BY <1>2, <1>6, <1>7, <1>8, <1>9, WhoSteps
  <1> QED
    BY <1>10 DEF Stay

\* Only starting, completing, converting and publishing a fill touches bytes and claims.
LEMMA BytesStay ==
  ASSUME SafeInv, [Next]_vars
  PROVE  \/ UNCHANGED <<claims, dropped, output, scratchData>>
         \/ \E k \in Steps, r \in Rows : \E o \in FillOutcomes(At(k), r), pin \in {0, 1} : StartsFill(k, r, o, pin)
         \/ \E t \in Threads : Publish(t) \/ Convert(t)
         \/ \E s \in Slots, c \in ChunkIds : Complete(s, c)
         \/ \E d \in dropped : CompleteDropped(d)
  <1> DEFINE Untouched == UNCHANGED <<claims, dropped, output, scratchData>>
             Started == \E k \in Steps, r \in Rows :
                          \E o \in FillOutcomes(At(k), r), pin \in {0, 1} : StartsFill(k, r, o, pin)
  <1> USE DEF vars, tableVars, poolVars, fillVars, bindVars, ticketVars, sysVars
  <1>0. ShapeInv
    BY DEF SafeInv
  <1>1. ASSUME NEW c \in Clients, AdmitMiss(c) PROVE Started
    <2>1. PICK r \in Rows : r = call[c].rows[call[c].i]
      BY <1>0, <1>1, PlaceFacts DEF AdmitMiss
    <2>2. PICK k \in Steps : ClaimsAt(k) /\ \E o \in FillOutcomes(At(k), r) : StartFill(k, At(k), r, o, 1)
      BY <1>1, <2>1 DEF AdmitMiss
    <2>3. UNCHANGED <<fin, generation, retiring>>
      BY <1>1 DEF AdmitMiss
    <2> QED
      BY <2>2, <2>3 DEF StartsFill
  <1>2. ASSUME NEW c \in Clients, PrefetchMiss(c) PROVE Started
    <2>1. PICK r \in Rows : r = call[c].rows[call[c].i]
      BY <1>0, <1>2, PlaceFacts DEF PrefetchMiss
    <2>2. PICK k \in Steps : ClaimsAt(k) /\ \E o \in FillOutcomes(At(k), r) : StartFill(k, At(k), r, o, 0)
      BY <1>2, <2>1 DEF PrefetchMiss
    <2>3. UNCHANGED <<fin, generation, retiring>>
      BY <1>2 DEF PrefetchMiss
    <2> QED
      BY <2>2, <2>3 DEF StartsFill
  <1> HIDE DEF Started
  <1>3. ASSUME NEW c \in Clients, Start(c) \/ Continue(c) \/ Drop(c) \/ Deadline(c)
        PROVE  Untouched \/ Started
    <2>1. CASE Start(c)
      BY <2>1 DEF Start, CallResolve, CallPrefetch, CallWait, CallDrain, TryGet, Invalidate,
         InvalidateRefused
    <2>2. CASE Drop(c) \/ Deadline(c)
      BY <2>2 DEF Drop, Deadline, Release, ReleaseLease, DropTicket, TimeoutEntry, DrainTimesOut, Relinquish
    <2>3. CASE Continue(c)
      BY <1>1, <1>2, <2>3 DEF Continue, ResetOut, ReleaseLease, ResolveOutOfRange, LockResolve, AdmitHit,
         AdmitExhausted, Unwound, ClaimFill, AwaitFill, SettleRow, SettleEntry, SkipEntry,
         PrefetchHit, PrefetchExhausted, DrainTests, Return
    <2> QED
      BY <1>3, <2>1, <2>2, <2>3
  <1>4. ASSUME Background
        PROVE  \/ Untouched
               \/ \E t \in Threads : Publish(t) \/ Convert(t)
               \/ \E s \in Slots, c \in ChunkIds : Complete(s, c)
               \/ \E d \in dropped : CompleteDropped(d)
    BY <1>4 DEF Background, Finish, BeginFinish, SpuriousWake, WorkerStep, WorkerClaims, WorkerIdles,
       Destroy, Destroyed
  <1> QED
    BY <1>3, <1>4, WhoSteps DEF Started

\* Every step is of these kinds.
LEMMA StepBytes ==
  ASSUME FillInv, [Next]_vars
  PROVE  ByteKinds
  <1>0. SafeInv /\ ShapeInv /\ slots \in [Slots -> SlotRecord]
    BY DEF FillInv, SafeInv, ShapeInv, TypeOK
  <1>1. ASSUME UNCHANGED <<claims, dropped, output, scratchData>>,
               \A t \in Threads : fin'[t].pc = "publish" => fin'[t] = fin[t],
               \A s \in Slots : SameSlot(s)
        PROVE  ByteKinds
    BY <1>1 DEF ByteKinds, SameBytes
  <1>2. CASE SameFills \/ Rebinds
    <2>1. \A s \in Slots : SameSlot(s)
      BY <1>2 DEF SameFills, Rebinds, SameSlot
    <2> QED
      BY <1>0, <1>1, <2>1, BytesStay, PublishersStay DEF ByteKinds
  <1>3. CASE \/ \E t \in Threads, s \in Slots : TakesFill(t, s)
             \/ \E t \in Threads : GivesBack(t)
    <2>1. PICK s \in Slots, b \in BOOLEAN : slots' = [slots EXCEPT ![s].finishing = b]
      BY <1>0, <1>3 DEF TakesFill, GivesBack, ShapeInv, FinOK
    <2>2. \A z \in Slots : SameSlot(z)
      BY <1>0, <2>1, FinishingEffect
    <2> QED
      BY <1>0, <1>1, <2>2, BytesStay, PublishersStay DEF ByteKinds
  <1>4. FillKinds
    BY <1>0, StepFills
  <1> QED
    BY <1>2, <1>3, <1>4 DEF FillKinds, ByteKinds

\* A fill that starts has submitted one read, one that does not has submitted none.
LEMMA OneReadOutcome ==
  ASSUME OneRead, generation \in Generations, NEW s \in Slots, NEW r \in Rows, NEW o \in FillOutcomes(s, r)
  PROVE  o.accepted = IF o.status = "ok" THEN 1 ELSE 0
  <1>1. PICK e : e = Extent[generation][r] /\ Reads(e) = 1
    BY DEF OneRead
  <1>2. \A m \in 0 .. Reads(e) - 1 : m = 0
    BY <1>1
  <1>3. \/ \E st : st # "ok" /\ o = [status |-> st, accepted |-> 0, scratch |-> NONE]
        \/ \E k : o = [status |-> "ok", accepted |-> Reads(e), scratch |-> k]
    BY <1>1, <1>2 DEF FillOutcomes
  <1> QED
    BY <1>1, <1>3

\* What the steps use of the types and of the fills' invariant.
LEMMA ByteFacts ==
  ASSUME FillInv
  PROVE  /\ claims \in [Slots -> [ChunkIds -> {"none", "pending", "ok", "failed"}]]
         /\ output \in [Slots -> [ChunkIds -> Bytes]] /\ scratchData \in [Scratches -> Bytes]
         /\ slots \in [Slots -> SlotRecord] /\ fin \in [Threads -> FinishRecord]
         /\ clockHand \in Slots /\ generation \in Generations
         /\ ShapeInv /\ SafeInv /\ FinOK /\ SlotOK /\ ScratchOK /\ 1 \in ChunkIds
  BY ConstantFacts DEF FillInv, SafeInv, ShapeInv, TypeOK, ChunkIds

\* The scratch slots of two fills of a converting table are two.
LEMMA ScratchApart ==
  ASSUME FillInv, Converting, NEW s \in Slots, slots[s].state = "filling"
  PROVE  /\ slots[s].scratch \in Scratches /\ slots[s].scratch \in scratchUsed
         /\ \A z \in Slots \ {s} : slots[z].scratch # slots[s].scratch
  <1>1. slots[s].scratch \in Scratches
    BY ByteFacts DEF SlotOK
  <1>2. slots[s].scratch # NONE
    BY <1>1, ConstantFacts DEF Scratches, NONE
  <1> QED
    BY <1>1, <1>2, ByteFacts DEF ScratchOK

\* A slot that stays as it is, with its claims and its bytes.
LEMMA SlotBytesStay ==
  ASSUME NEW s \in Slots, SlotBytes(s), SameSlot(s), claims'[s] = claims[s], output'[s] = output[s],
         Converting /\ claims[s][1] = "ok" => scratchData'[slots[s].scratch] = scratchData[slots[s].scratch]
  PROVE  SlotBytes(s)'
  <1>1. Holds(s)' <=> Holds(s)
    BY DEF Holds, SameSlot
  <1>2. claims[s][1] = "ok" => (Landed(s)' <=> Landed(s))
    BY <1>1 DEF Landed, SameSlot
  <1> QED
    BY <1>1, <1>2 DEF SlotBytes, SameSlot

\* A thread that stays as it is, about a slot that does.
LEMMA FinBytesStay ==
  ASSUME NEW t \in Threads, FinBytes(t), fin'[t].pc = "publish" => fin'[t] = fin[t],
         fin[t].pc = "publish" =>
            /\ SameSlot(fin[t].slot) /\ claims'[fin[t].slot] = claims[fin[t].slot]
            /\ output'[fin[t].slot] = output[fin[t].slot]
  PROVE  FinBytes(t)'
  BY DEF FinBytes, Holds, SameSlot

\* A step that writes no bytes.
LEMMA SameBytesKept ==
  ASSUME BytesInv, SameBytes
  PROVE  BytesOK'
  <1>1. \A s \in Slots : SlotBytes(s)'
    BY SlotBytesStay DEF BytesInv, BytesOK, SameBytes
  <1>2. \A t \in Threads : FinBytes(t)'
    <2> SUFFICES ASSUME NEW t \in Threads PROVE FinBytes(t)'
      OBVIOUS
    <2>1. fin[t].pc = "publish" => fin[t].slot \in Slots
      BY ByteFacts DEF BytesInv, FinOK
    <2> QED
      BY <2>1, FinBytesStay DEF BytesInv, BytesOK, SameBytes
  <1> QED
    BY <1>1, <1>2 DEF BytesInv, BytesOK, SameBytes

\* A row is given a victim slot.
LEMMA StartBytes ==
  ASSUME OneRead, BytesInv, NEW k \in Steps, NEW r \in Rows, NEW o \in FillOutcomes(At(k), r),
         NEW pin \in {0, 1}, StartsFill(k, r, o, pin)
  PROVE  BytesOK'
  <1>0. FillInv /\ BytesOK
    BY DEF BytesInv
  <1>1. PICK s \in Slots : s = At(k)
    BY <1>0, ByteFacts, HandFacts
  <1> DEFINE q == AdmittedSlot(s, r, o, pin)
             ok == o.status = "ok"
  <1>2. slots'[s] = q /\ \A z \in Slots \ {s} : SameSlot(z)
    BY <1>0, <1>1, ByteFacts, StartEffect DEF StartsFill
  <1>3. slots[s].state # "filling"
    BY <1>0, <1>1, ByteFacts, VictimFacts DEF StartsFill
  <1>4. q.state = IF ok THEN "filling" ELSE "failed"
    BY DEF AdmittedSlot
  <1>5. o.accepted = IF ok THEN 1 ELSE 0
    BY <1>0, <1>1, ByteFacts, OneReadOutcome
  <1>6. /\ claims' = [claims EXCEPT ![s] = [c \in ChunkIds |-> IF ok /\ c <= o.accepted THEN "pending" ELSE "none"]]
        /\ output' = [output EXCEPT ![s] =
                        [c \in ChunkIds |-> IF ~Converting /\ c <= o.accepted THEN Garbage ELSE @[c]]]
        /\ scratchData' = [j \in Scratches |-> IF j = o.scratch THEN Garbage ELSE scratchData[j]]
        /\ dropped' = IF ok THEN dropped
                      ELSE dropped \cup {[binding |-> generation, shard |-> Extent[generation][r].shard,
                                          slot |-> s, chunk |-> c, row |-> r] : c \in 1 .. o.accepted}
        /\ UNCHANGED fin
    BY <1>1 DEF StartsFill, StartFill
  <1>7. o.scratch = NONE \/ o.scratch \notin scratchUsed
    BY <1>0, <1>1, ScratchTaken
  <1> HIDE DEF q, ok
  <1>8. dropped' = {}
    <2>1. CASE ok
      BY <1>0, <1>6, <2>1 DEF BytesOK
    <2>2. CASE ~ok
      <3>1. 1 .. o.accepted = {}
        BY <1>5, <2>2
      <3> QED
        BY <1>0, <1>6, <2>2, <3>1 DEF BytesOK
    <2> QED
      BY <2>1, <2>2
  <1>9. /\ \A c \in ChunkIds : claims'[s][c] = IF ok /\ c <= o.accepted THEN "pending" ELSE "none"
        /\ \A z \in Slots \ {s} : claims'[z] = claims[z] /\ output'[z] = output[z]
    BY <1>0, <1>6, ByteFacts
  <1>10. SlotBytes(s)'
    <2>1. \A c \in ChunkIds \ {1} : claims'[s][c] = "none"
      BY <1>5, <1>9 DEF ChunkIds
    <2>2. claims'[s][1] = IF ok THEN "pending" ELSE "none"
      BY <1>0, <1>5, <1>9, ByteFacts
    <2> QED
      BY <1>2, <1>4, <2>1, <2>2 DEF SlotBytes
  <1>11. ASSUME NEW z \in Slots \ {s} PROVE SlotBytes(z)'
    <2>1. SlotBytes(z)
      BY <1>0 DEF BytesOK
    <2>2. ASSUME Converting, claims[z][1] = "ok"
          PROVE  scratchData'[slots[z].scratch] = scratchData[slots[z].scratch]
      <3>1. slots[z].state = "filling"
        BY <2>1, <2>2 DEF SlotBytes
      <3>2. slots[z].scratch \in Scratches /\ slots[z].scratch \in scratchUsed
        BY <1>0, <2>2, <3>1, ScratchApart
      <3>3. slots[z].scratch # o.scratch
        BY <1>7, <3>2, ConstantFacts DEF Scratches, NONE
      <3> QED
        BY <1>6, <3>2, <3>3
    <2> QED
      BY <1>2, <1>9, <2>1, <2>2, SlotBytesStay
  <1>12. ASSUME NEW t \in Threads PROVE FinBytes(t)'
    <2>1. fin[t].pc = "publish" => fin[t].slot \in Slots \ {s}
      BY <1>0, <1>3, ByteFacts DEF FinOK
    <2>2. FinBytes(t)
      BY <1>0 DEF BytesOK
    <2> QED
      BY <1>2, <1>6, <1>9, <2>1, <2>2, FinBytesStay
  <1> QED
    BY <1>8, <1>10, <1>11, <1>12 DEF BytesOK

\* A fill is published: what becomes ready had landed, and no transfer is left behind.
LEMMA PublishBytes ==
  ASSUME BytesInv, NEW t \in Threads, Publish(t)
  PROVE  BytesOK'
  <1>0. FillInv /\ BytesOK
    BY DEF BytesInv
  <1>1. PICK s \in Slots : s = fin[t].slot
    BY <1>0, ByteFacts, PublishEffect
  <1>2. /\ fin[t].pc # "idle" /\ slots[s].state = "filling"
        /\ \A z \in Slots \ {s} : slots'[z] = slots[z]
    BY <1>0, <1>1, ByteFacts, PublishEffect
  <1>3. PICK status \in Statuses :
          status = IF fin[t].pc = "wait" /\ FailedFirst(s) THEN "io_error" ELSE fin[t].status
    BY <1>0, ByteFacts DEF FinishRecord, Statuses
  <1>4. PICK q : q = Published(s, status)
    OBVIOUS
  <1>5. q.row = slots[s].row /\ q.gen = slots[s].gen /\ q.state = IF status = "ok" THEN "ready" ELSE "failed"
    BY <1>0, <1>4, ByteFacts, PublishedFacts
  <1>6. /\ slots' = [slots EXCEPT ![s] = q]
        /\ claims' = [claims EXCEPT ![s] = [c \in ChunkIds |-> "none"]]
        /\ dropped' = dropped \cup
             {[binding |-> slots[s].binding, shard |-> Extent[slots[s].gen][slots[s].row].shard, slot |-> s,
               chunk |-> c, row |-> slots[s].row] : c \in {d \in ChunkIds : claims[s][d] = "pending"}}
        /\ fin' = [fin EXCEPT ![t] = NoFinish]
        /\ UNCHANGED <<output, scratchData>>
    BY <1>1, <1>3, <1>4 DEF Publish
  <1>7. SlotBytes(s)
    BY <1>0 DEF BytesOK
  <1>8. claims[s][1] \in {"ok", "failed"} /\ (claims[s][1] = "failed" => status # "ok")
    <2>0. claims[s][1] # "none" /\ \A c \in ChunkIds : c # 1 => claims[s][c] = "none"
      BY <1>2, <1>7 DEF SlotBytes
    <2>1. CASE fin[t].pc = "publish"
      BY <1>0, <1>1, <2>1 DEF BytesOK, FinBytes
    <2>2. CASE fin[t].pc = "wait" /\ FailedFirst(s)
      BY <1>3, <2>0, <2>2 DEF FailedFirst
    <2>3. CASE AllOk(s)
      BY <1>0, <2>0, <2>3, ByteFacts DEF AllOk
    <2> QED
      BY <1>1, <2>1, <2>2, <2>3 DEF Publish, Publishes
  <1>9. {d \in ChunkIds : claims[s][d] = "pending"} = {}
    BY <1>7, <1>8 DEF SlotBytes
  <1>10. dropped' = {}
    BY <1>0, <1>6, <1>9 DEF BytesOK
  <1>11. slots'[s] = q /\ claims'[s] = [c \in ChunkIds |-> "none"]
         /\ \A z \in Slots \ {s} : claims'[z] = claims[z]
    BY <1>0, <1>6, ByteFacts
  <1>12. status = "ok" => Holds(s)
    <2> SUFFICES ASSUME status = "ok" PROVE Holds(s)
      OBVIOUS
    <2>1. CASE fin[t].pc = "publish"
      BY <1>0, <1>1, <1>3, <2>1 DEF BytesOK, FinBytes
    <2>2. CASE fin[t].pc = "wait" /\ FailedFirst(s)
      BY <1>3, <2>2
    <2>3. CASE ~Converting /\ AllOk(s)
      BY <1>7, <1>8, <2>3 DEF SlotBytes, Landed
    <2> QED
      BY <1>1, <2>1, <2>2, <2>3 DEF Publish, Publishes
  <1>13. SlotBytes(s)'
    <2>1. status = "ok" => Holds(s)'
      BY <1>5, <1>6, <1>11, <1>12 DEF Holds
    <2>2. \A c \in ChunkIds : claims'[s][c] = "none"
      BY <1>11
    <2>3. slots'[s].state = IF status = "ok" THEN "ready" ELSE "failed"
      BY <1>5, <1>11
    <2> QED
      BY <1>0, <2>1, <2>2, <2>3, ByteFacts DEF SlotBytes
  <1>14. ASSUME NEW z \in Slots \ {s} PROVE SlotBytes(z)'
    <2>1. SameSlot(z)
      BY <1>2 DEF SameSlot
    <2>2. SlotBytes(z)
      BY <1>0 DEF BytesOK
    <2> QED
      BY <1>6, <1>11, <2>1, <2>2, SlotBytesStay
  <1>15. ASSUME NEW u \in Threads PROVE FinBytes(u)'
    <2>1. CASE u = t
      <3>1. fin'[t] = NoFinish
        BY <1>0, <1>6, ByteFacts
      <3> QED
        BY <2>1, <3>1 DEF FinBytes, NoFinish
    <2>2. CASE u # t
      <3>1. fin'[u] = fin[u] /\ FinBytes(u)
        BY <1>0, <1>6, <2>2, ByteFacts DEF BytesOK
      <3>2. fin[u].pc = "publish" => fin[u].slot \in Slots \ {s}
        BY <1>0, <1>1, <1>2, <2>2, ByteFacts DEF FinOK
      <3>3. fin[u].pc = "publish" => SameSlot(fin[u].slot)
        BY <1>2, <3>2 DEF SameSlot
      <3> QED
        BY <1>6, <1>11, <3>1, <3>2, <3>3, FinBytesStay
    <2> QED
      BY <2>1, <2>2
  <1> QED
    BY <1>10, <1>13, <1>14, <1>15 DEF BytesOK

\* A read ends: the bytes land where its own fill put them.
LEMMA CompleteBytes ==
  ASSUME BytesInv, NEW s \in Slots, NEW c \in ChunkIds, Complete(s, c)
  PROVE  BytesOK'
  <1>0. FillInv /\ BytesOK
    BY DEF BytesInv
  <1>1. SlotBytes(s) /\ claims[s][c] = "pending"
    BY <1>0 DEF BytesOK, Complete
  <1>2. c = 1 /\ slots[s].state = "filling"
    BY <1>1 DEF SlotBytes
  <1>r. PICK result \in {"ok", "failed"} :
          LET bytes == IF result = "ok" THEN <<slots[s].gen, slots[s].row>> ELSE Garbage IN
          /\ claims' = [claims EXCEPT ![s][c] = result]
          /\ IF Converting
             THEN scratchData' = [scratchData EXCEPT ![slots[s].scratch] = bytes] /\ UNCHANGED output
             ELSE output' = [output EXCEPT ![s][c] = bytes] /\ UNCHANGED scratchData
    BY Zenon DEF Complete
  <1>b. PICK bytes : bytes = IF result = "ok" THEN <<slots[s].gen, slots[s].row>> ELSE Garbage
    OBVIOUS
  <1>3. /\ bytes = IF result = "ok" THEN <<slots[s].gen, slots[s].row>> ELSE Garbage
        /\ claims' = [claims EXCEPT ![s][1] = result]
        /\ Converting => scratchData' = [scratchData EXCEPT ![slots[s].scratch] = bytes] /\ UNCHANGED output
        /\ ~Converting => output' = [output EXCEPT ![s][1] = bytes] /\ UNCHANGED scratchData
    BY <1>2, <1>r, <1>b
  <1>4. UNCHANGED <<slots, fin, dropped>>
    BY DEF Complete
  <1>5. /\ claims'[s][1] = result /\ \A b \in ChunkIds \ {1} : claims'[s][b] = claims[s][b]
        /\ \A z \in Slots \ {s} : claims'[z] = claims[z] /\ output'[z] = output[z]
    BY <1>0, <1>3, ByteFacts
  <1>6. result = "ok" => Landed(s)'
    <2> SUFFICES ASSUME result = "ok" PROVE Landed(s)'
      OBVIOUS
    <2>1. CASE Converting
      <3>1. slots[s].scratch \in Scratches
        BY <1>0, <1>2, <2>1, ScratchApart
      <3>2. scratchData'[slots[s].scratch] = <<slots[s].gen, slots[s].row>>
        BY <1>0, <1>3, <2>1, <3>1, ByteFacts
      <3> QED
        BY <1>4, <2>1, <3>2 DEF Landed
    <2>2. CASE ~Converting
      <3>1. output'[s][1] = <<slots[s].gen, slots[s].row>>
        BY <1>0, <1>3, <2>2, ByteFacts
      <3> QED
        BY <1>4, <2>2, <3>1 DEF Landed, Holds
    <2> QED
      BY <2>1, <2>2
  <1>7. SlotBytes(s)'
    BY <1>1, <1>2, <1>3, <1>4, <1>5, <1>6 DEF SlotBytes
  <1>8. ASSUME NEW z \in Slots \ {s} PROVE SlotBytes(z)'
    <2>1. SlotBytes(z) /\ SameSlot(z)
      BY <1>0, <1>4 DEF BytesOK, SameSlot
    <2>2. ASSUME Converting, claims[z][1] = "ok"
          PROVE  scratchData'[slots[z].scratch] = scratchData[slots[z].scratch]
      <3>1. slots[z].state = "filling"
        BY <2>1, <2>2 DEF SlotBytes
      <3>2. slots[z].scratch \in Scratches /\ slots[z].scratch # slots[s].scratch
        BY <1>0, <2>2, <3>1, ScratchApart
      <3> QED
        BY <1>0, <1>3, <2>2, <3>2, ByteFacts
    <2> QED
      BY <1>5, <2>1, <2>2, SlotBytesStay
  <1>9. ASSUME NEW t \in Threads PROVE FinBytes(t)'
    <2>1. FinBytes(t)
      BY <1>0 DEF BytesOK
    <2>2. fin[t].pc = "publish" => fin[t].slot \in Slots \ {s}
      BY <1>0, <1>1, <1>2, <2>1, ByteFacts DEF FinOK, FinBytes
    <2>3. fin[t].pc = "publish" => SameSlot(fin[t].slot)
      BY <1>4 DEF SameSlot
    <2> QED
      BY <1>4, <1>5, <2>1, <2>2, <2>3, FinBytesStay
  <1> QED
    BY <1>0, <1>4, <1>7, <1>8, <1>9 DEF BytesOK

\* The codec runs on a row that has landed, into the slot its own finisher owns.
LEMMA ConvertBytes ==
  ASSUME BytesInv, NEW t \in Threads, Convert(t)
  PROVE  BytesOK'
  <1>0. FillInv /\ BytesOK
    BY DEF BytesInv
  <1>1. PICK s \in Slots : s = fin[t].slot
    BY <1>0, ByteFacts DEF FinOK, Convert
  <1>2. slots[s].state = "filling" /\ fin[t].pc = "wait" /\ AllOk(s) /\ Converting
    BY <1>0, <1>1, ByteFacts DEF FinOK, Convert
  <1>3. SlotBytes(s)
    BY <1>0 DEF BytesOK
  <1>4. claims[s][1] = "ok"
    BY <1>0, <1>2, <1>3, ByteFacts DEF AllOk, SlotBytes
  <1>5. PICK status \in {"ok", "codec_failed"} :
          /\ output' = [output EXCEPT ![s][1] =
                          IF status = "ok" THEN scratchData[slots[s].scratch] ELSE Garbage]
          /\ fin' = [fin EXCEPT ![t].pc = "publish", ![t].status = status]
    BY <1>1 DEF Convert
  <1>6. UNCHANGED <<slots, claims, dropped, scratchData>>
    BY DEF Convert
  <1>7. \A z \in Slots : SameSlot(z)
    BY <1>6 DEF SameSlot
  <1>8. /\ output'[s][1] = IF status = "ok" THEN scratchData[slots[s].scratch] ELSE Garbage
        /\ \A z \in Slots \ {s} : output'[z] = output[z]
    BY <1>0, <1>5, ByteFacts
  <1>9. status = "ok" => Holds(s)'
    BY <1>2, <1>3, <1>4, <1>6, <1>8 DEF SlotBytes, Landed, Holds
  <1>10. SlotBytes(s)'
    <2>1. Landed(s)'
      BY <1>2, <1>3, <1>4, <1>6 DEF SlotBytes, Landed
    <2> QED
      BY <1>2, <1>3, <1>6, <2>1 DEF SlotBytes
  <1>11. ASSUME NEW z \in Slots \ {s} PROVE SlotBytes(z)'
    <2>1. SlotBytes(z)
      BY <1>0 DEF BytesOK
    <2> QED
      BY <1>6, <1>7, <1>8, <2>1, SlotBytesStay
  <1>12. ASSUME NEW u \in Threads PROVE FinBytes(u)'
    <2>1. CASE u = t
      <3>1. PICK h \in FinishRecord : h = fin[t]
        BY <1>0, ByteFacts
      <3>2. PICK f : f = [h EXCEPT !.pc = "publish", !.status = status]
        OBVIOUS
      <3>3. f.slot = h.slot /\ f.status = status
        BY <3>2 DEF FinishRecord
      <3>4. fin'[t] = f
        BY <1>0, <1>5, <3>1, <3>2, ByteFacts
      <3>5. fin'[t].slot = s /\ fin'[t].status = status
        BY <1>1, <3>1, <3>3, <3>4
      <3> QED
        BY <1>4, <1>6, <1>9, <2>1, <3>5 DEF FinBytes
    <2>2. CASE u # t
      <3>1. fin'[u] = fin[u] /\ FinBytes(u)
        BY <1>0, <1>5, <2>2, ByteFacts DEF BytesOK
      <3>2. fin[u].pc = "publish" => fin[u].slot \in Slots \ {s}
        BY <1>0, <1>1, <1>2, <2>2, ByteFacts DEF FinOK
      <3> QED
        BY <1>6, <1>7, <1>8, <3>1, <3>2, FinBytesStay
    <2> QED
      BY <2>1, <2>2
  <1> QED
    BY <1>0, <1>6, <1>10, <1>11, <1>12 DEF BytesOK

\* The constructor establishes the invariant.
LEMMA InitBytes == Init => BytesInv
  <1> SUFFICES ASSUME Init PROVE BytesInv
    OBVIOUS
  <1>1. FillInv
    BY InitFill
  <1>2. \A s \in Slots : slots[s].state = "free" /\ \A c \in ChunkIds : claims[s][c] = "none"
    BY DEF Init, FreeSlot
  <1>3. \A s \in Slots : SlotBytes(s)
    BY <1>1, <1>2, ByteFacts DEF SlotBytes
  <1>4. \A t \in Threads : FinBytes(t)
    BY DEF Init, FinBytes, NoFinish
  <1> QED
    BY <1>1, <1>3, <1>4 DEF BytesInv, BytesOK, Init

\* Every step keeps the invariant.
LEMMA BytesStep ==
  ASSUME OneRead, BytesInv, [Next]_vars
  PROVE  BytesInv'
  <1>1. FillInv /\ FillInv' /\ dropped = {}
    BY FillInductive DEF BytesInv, BytesOK
  <1>2. ByteKinds
    BY <1>1, StepBytes
  <1>3. BytesOK'
    BY <1>1, <1>2, SameBytesKept, StartBytes, PublishBytes, CompleteBytes, ConvertBytes DEF ByteKinds
  <1> QED
    BY <1>1, <1>3 DEF BytesInv

\* Every reachable state of a table whose rows are one read satisfies the invariant.
THEOREM BytesAlways == OneRead => (Spec => []BytesInv)
  <1> SUFFICES ASSUME OneRead PROVE Spec => []BytesInv
    OBVIOUS
  <1>1. BytesInv /\ [Next]_vars => BytesInv'
    BY BytesStep
  <1> QED
    BY <1>1, InitBytes, PTL DEF Spec

\* A ready row has its own bytes: no late, superseded or failed read and no other row's codec run has
\* written into its slot, provided a row is one read.
THEOREM RowsAreTheirOwn == OneRead => (Spec => []ReadyHoldsItsRow)
  <1> SUFFICES ASSUME OneRead PROVE Spec => []ReadyHoldsItsRow
    OBVIOUS
  <1>1. BytesInv => ReadyHoldsItsRow
    <2> SUFFICES ASSUME BytesInv, NEW s \in Slots, slots[s].state = "ready",
                        NEW c \in 1 .. Reads(Extent[slots[s].gen][slots[s].row])
                 PROVE  output[s][c] = <<slots[s].gen, slots[s].row>>
      BY DEF ReadyHoldsItsRow
    <2>1. slots[s].gen \in Generations /\ slots[s].row \in Rows
      BY ByteFacts DEF BytesInv, SlotRecord
    <2>2. c = 1
      BY <2>1 DEF OneRead
    <2> QED
      BY <2>2 DEF BytesInv, BytesOK, SlotBytes, Holds
  <1> QED
    BY <1>1, BytesAlways, PTL

\* drain returns ok only when it finds no fill in flight.
LEMMA DrainReturns ==
  ASSUME ShapeInv, [Next]_vars, NEW c \in Clients, call[c].pc = "drain", call'[c].pc = "returned",
         call'[c].status = "ok"
  PROVE  inFlight = 0
  <1>0. TypeOK
    BY DEF ShapeInv
  <1>1. CASE Background
    BY <1>1, BackgroundFrame
  <1>2. ASSUME NEW d \in Clients \ {c}, Start(d) \/ Continue(d) \/ Drop(d) \/ Deadline(d)
        PROVE  FALSE
    BY <1>0, <1>2, ClientFrame DEF Frame
  <1>3. ASSUME Start(c) \/ Continue(c) \/ Drop(c) \/ Deadline(c)
        PROVE  UNCHANGED call \/ DrainTests(c) \/ DrainTimesOut(c)
    <2>1. CASE Start(c)
      BY <2>1 DEF Start, MayCall, CallResolve, CallPrefetch, CallWait, CallDrain, TryGet, Invalidate,
         InvalidateRefused
    <2>2. CASE Drop(c) \/ Deadline(c)
      BY <2>2 DEF Drop, Deadline, MayCall, Release, DropTicket, TimeoutEntry, Relinquish
    <2>3. CASE Continue(c)
      BY <2>3 DEF Continue, ResetOut, ResolveOutOfRange, LockResolve, AdmitHit,
         AdmitMiss, AdmitExhausted, Unwound, ClaimFill, AwaitFill, SettleRow, SettleEntry, Settles, SkipEntry,
         PrefetchHit, PrefetchMiss, PrefetchExhausted, Return
    <2> QED
      BY <1>3, <2>1, <2>2, <2>3
  <1>4. ASSUME DrainTimesOut(c) PROVE FALSE
    <2>1. PICK status \in Statuses : status = "timeout" /\ call' = [call EXCEPT ![c] = Ended(c, status)]
      BY <1>4 DEF DrainTimesOut, Statuses
    <2>2. call'[c].status = status
      BY <1>0, <2>1, EndedCall
    <2> QED
      BY <2>1, <2>2
  <1>5. ASSUME DrainTests(c) PROVE inFlight = 0
    BY <1>5 DEF DrainTests, Drained
  <1> QED
    BY <1>1, <1>2, <1>3, <1>4, <1>5, WhoSteps

\* When drain returns ok, no transfer of the table is in flight, provided a row is one read: in_flight_
\* counts the filling slots, and a claim is pending only for one of them.
THEOREM DrainIsQuiet == OneRead => (Spec => DrainMeansQuiet)
  <1> DEFINE Quiet == dropped = {} /\ \A s \in Slots, k \in ChunkIds : claims[s][k] # "pending"
             QuietReturn ==
               \A c \in Clients :
                 call[c].pc = "drain" /\ call'[c].pc = "returned" /\ call'[c].status = "ok" => Quiet
  <1> SUFFICES ASSUME OneRead PROVE Spec => DrainMeansQuiet
    OBVIOUS
  <1>1. BytesInv /\ inFlight = 0 => Quiet
    <2> SUFFICES ASSUME BytesInv, inFlight = 0 PROVE Quiet
      OBVIOUS
    <2>1. dropped = {} /\ Cardinality(Filling) = 0
      BY DEF BytesInv, BytesOK, FillInv, FillCountOK
    <2>2. PICK T : T = Filling
      OBVIOUS
    <2>3. IsFiniteSet(T) /\ Cardinality(T) = 0
      BY <2>1, <2>2, SlotsFinite, FillingSets
    <2>4. T = {}
      BY <2>3, FS_EmptySet
    <2>5. ASSUME NEW s \in Slots, NEW k \in ChunkIds PROVE claims[s][k] # "pending"
      BY <2>2, <2>4 DEF BytesInv, BytesOK, SlotBytes, Filling
    <2> QED
      BY <2>1, <2>5
  <1>2. BytesInv /\ [Next]_vars => [QuietReturn]_vars
    <2> SUFFICES ASSUME BytesInv, [Next]_vars, NEW c \in Clients, call[c].pc = "drain",
                        call'[c].pc = "returned", call'[c].status = "ok"
                 PROVE  inFlight = 0
      BY <1>1
    <2> QED
      BY DrainReturns, ByteFacts DEF BytesInv
  <1> QED
    BY <1>2, BytesAlways, PTL DEF Spec, DrainMeansQuiet
=============================================================================
