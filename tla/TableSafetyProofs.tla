------------------------- MODULE TableSafetyProofs -------------------------
(***************************************************************************)
(* Leases are safe, for every value of the constants: pins count leases, a *)
(* slot in use keeps its key, a lease names the row its slot holds, and no *)
(* key has two slots.  Every step is one of seven kinds as far as slots    *)
(* and leases go (StepKinds); SafeInv is kept by each kind.                *)
(***************************************************************************)
EXTENDS TableProofs, FiniteSetTheorems

\* A free slot is not pinned, and no key has two slots.
KeyOK ==
    /\ \A s \in Slots : slots[s].state = "free" => slots[s].pins = 0
    /\ \A s, z \in Slots :
         /\ slots[s].indexed /\ slots[z].indexed
         /\ slots[s].row = slots[z].row /\ slots[s].gen = slots[z].gen
         => s = z

\* The counts of leases; that they are of finite sets is part of the induction.
CountOK ==
    /\ \A s \in Slots : IsFiniteSet(LeasesOn(s)) /\ slots[s].pins = Cardinality(LeasesOn(s))
    /\ IsFiniteSet(Leases) /\ pinsTotal = Cardinality(Leases)

\* A lease names the key of its slot.
Names(l) ==
    /\ slots[l.slot].epoch = l.epoch /\ slots[l.slot].row = l.row /\ slots[l.slot].gen = l.gen
    /\ slots[l.slot].state # "free"
    /\ l.ready => slots[l.slot].state = "ready"

\* Every held lease names the key of its slot.
LeaseOK == \A c \in Clients, i \in Positions : out[c][i].slot # NONE => Names(out[c][i])

\* The inductive invariant: a lease stays valid because it is counted in pins, and pins keep the slot.
SafeInv == ShapeInv /\ KeyOK /\ CountOK /\ LeaseOK

-----------------------------------------------------------------------------
(* What a step can do to slots and leases *)

\* A lease on an indexed slot is handed out, into a place that holds none.
Grants(c, i, s, ready) ==
    /\ out[c][i].slot = NONE
    /\ slots[s].indexed
    /\ ready => slots[s].state = "ready"
    /\ slots' = [slots EXCEPT ![s].pins = @ + 1, ![s].referenced = TRUE]
    /\ out' = [out EXCEPT ![c][i] = LeaseOn(s, slots[s].row, slots[s].epoch, slots[s].gen, ready)]
    /\ pinsTotal' = pinsTotal + 1

\* A row nobody has is admitted into a victim slot, with a lease or without.
Admits(k, r, o, pin) ==
    /\ Missing(r)
    /\ ClaimsAt(k)
    /\ StartFill(k, At(k), r, o, pin)
    /\ IF o.status = "ok" /\ pin = 1
       THEN /\ \E c \in Clients, i \in Positions :
                 /\ out[c][i].slot = NONE
                 /\ out' = [out EXCEPT ![c][i] =
                              LeaseOn(At(k), r, (slots[At(k)].epoch + 1) % WordModulus, generation, FALSE)]
            /\ pinsTotal' = pinsTotal + 1
       ELSE UNCHANGED <<out, pinsTotal>>

\* A finisher takes or gives back a filling slot.
Flags(s, b) ==
    slots' = [slots EXCEPT ![s].finishing = b] /\ UNCHANGED <<out, pinsTotal>>

\* A lease is marked ready: its slot is.
Settled(c, i) ==
    /\ out[c][i].slot # NONE
    /\ slots[out[c][i].slot].state = "ready"
    /\ out' = [out EXCEPT ![c][i].ready = TRUE]
    /\ UNCHANGED <<slots, pinsTotal>>

\* The kinds of steps.
Kinds ==
    \/ UNCHANGED <<slots, out, pinsTotal>>
    \/ \E c \in Clients, i \in Positions, s \in Slots, ready \in BOOLEAN : Grants(c, i, s, ready)
    \/ \E c \in Clients, i \in Positions : ReleaseLease(c, i)
    \/ \E k \in Steps, r \in Rows : \E o \in FillOutcomes(At(k), r), pin \in {0, 1} : Admits(k, r, o, pin)
    \/ \E s \in Slots, b \in BOOLEAN : Flags(s, b)
    \/ \E t \in Threads : Publish(t)
    \/ \E c \in Clients, i \in Positions : Settled(c, i)

\* The position a call of resolve_into admits or settles exists.
LEMMA PlaceFacts ==
  ASSUME ShapeInv, NEW c \in Clients
  PROVE  /\ call[c].pc = "admit" => call[c].i \in Positions /\ out[c][call[c].i].slot = NONE
         /\ call[c].pc \in {"drive", "finish", "blocked"} /\ call[c].op = "resolve" =>
              call[c].i \in Positions /\ out[c][call[c].i].slot # NONE
         /\ call[c].pc \in {"reset", "unwind"} => HeldOut(c) \subseteq Positions
         /\ call[c].pc \in {"admit", "prefetch"} => call[c].rows[call[c].i] \in Rows
  <1>0. Shape(c) /\ call[c] \in CallRecord
    BY DEF ShapeInv, CallOK, TypeOK
  <1>1. \A n \in 1 .. MaxBatch : 1 .. n \subseteq Positions
    BY ConstantFacts DEF Positions
  <1>2. CASE call[c].pc = "admit"
    <2>1. /\ Len(call[c].rows) \in 1 .. MaxBatch /\ call[c].i \in 1 .. Len(call[c].rows)
          /\ out[c][call[c].i].slot = NONE <=> call[c].i >= call[c].i
      BY <1>0, <1>2 DEF Shape
    <2>2. call[c].i \in Int
      BY <2>1
    <2>3. call[c].rows \in Requests \cup {<<>>} /\ InRange(call[c].rows)
      BY <1>0, <1>2 DEF Shape, CallRecord
    <2> QED
      BY <1>1, <1>2, <2>1, <2>2, <2>3, RowFacts
  <1>3. CASE call[c].pc = "prefetch"
    <2>1. call[c].rows \in Requests \cup {<<>>} /\ InRange(call[c].rows) /\ call[c].i \in 1 .. Len(call[c].rows)
      BY <1>0, <1>3 DEF Shape, CallRecord
    <2> QED
      BY <1>3, <2>1, RowFacts
  <1>4. CASE call[c].pc \in {"drive", "finish", "blocked"}
    <2>1. call[c].op = "resolve" =>
            /\ Len(call[c].rows) \in 1 .. MaxBatch /\ call[c].i \in 1 .. Len(call[c].rows)
            /\ out[c][call[c].i].slot # NONE
      BY <1>0, <1>4 DEF Shape
    <2> QED
      BY <1>1, <1>4, <2>1
  <1>5. CASE call[c].pc \in {"reset", "unwind"}
    <2>1. Len(call[c].rows) \in 1 .. MaxBatch
      BY <1>0, <1>5 DEF Shape
    <2> QED
      BY <1>1, <1>5, <2>1 DEF HeldOut
  <1> QED
    BY <1>2, <1>3, <1>4, <1>5

\* The steps of client calls are of these kinds.
LEMMA ClientKinds ==
  ASSUME ShapeInv, NEW c \in Clients, Start(c) \/ Continue(c) \/ Drop(c) \/ Deadline(c)
  PROVE  Kinds
  <1> USE DEF tableVars, poolVars, fillVars, bindVars, ticketVars, sysVars
  <1>1. CASE \/ CallResolve(c) \/ CallPrefetch(c) \/ CallWait(c) \/ CallDrain(c)
             \/ Invalidate(c) \/ InvalidateRefused(c)
    BY <1>1 DEF Kinds, CallResolve, CallPrefetch, CallWait, CallDrain, Invalidate, InvalidateRefused
  <1>2. CASE TryGet(c)
    <2>1. PICK i \in Positions, s \in Slots : Grants(c, i, s, TRUE)
      BY <1>2 DEF TryGet, Grants, Indexed
    <2> QED
      BY <2>1 DEF Kinds
  <1>3. CASE \/ ResolveOutOfRange(c) \/ LockResolve(c) \/ AdmitExhausted(c) \/ Unwound(c)
             \/ AwaitFill(c) \/ SettleEntry(c) \/ SkipEntry(c) \/ PrefetchHit(c)
             \/ PrefetchExhausted(c) \/ DrainTests(c) \/ Return(c)
             \/ DropTicket(c) \/ TimeoutEntry(c) \/ DrainTimesOut(c)
    BY <1>3 DEF Kinds, ResolveOutOfRange, LockResolve, AdmitExhausted, Unwound, AwaitFill, SettleEntry,
       SkipEntry, PrefetchHit, PrefetchExhausted, DrainTests, Return, DropTicket, TimeoutEntry,
       DrainTimesOut
  <1>4. CASE Release(c) \/ ResetOut(c)
    <2>1. PICK i \in Positions : ReleaseLease(c, i)
      BY <1>4, PlaceFacts DEF Release, ResetOut
    <2> QED
      BY <2>1 DEF Kinds
  <1>5. CASE AdmitHit(c)
    <2>0. call[c].i \in Positions /\ out[c][call[c].i].slot = NONE
      BY <1>5, PlaceFacts DEF AdmitHit
    <2>1. PICK s \in Slots : Grants(c, call[c].i, s, FALSE)
      BY <1>5, <2>0 DEF AdmitHit, Grants, Indexed
    <2> QED
      BY <2>0, <2>1 DEF Kinds
  <1>6. CASE AdmitMiss(c)
    <2> DEFINE r == call[c].rows[call[c].i]
    <2>0. call[c].i \in Positions /\ out[c][call[c].i].slot = NONE /\ r \in Rows
      BY <1>6, PlaceFacts DEF AdmitMiss
    <2>1. PICK k \in Steps : ClaimsAt(k) /\ \E o \in FillOutcomes(At(k), r) :
                /\ StartFill(k, At(k), r, o, 1)
                /\ IF o.status = "ok"
                   THEN /\ out' = [out EXCEPT ![c][call[c].i] =
                                     LeaseOn(At(k), r, (slots[At(k)].epoch + 1) % WordModulus,
                                             generation, FALSE)]
                        /\ pinsTotal' = pinsTotal + 1
                   ELSE UNCHANGED <<out, pinsTotal>>
      BY <1>6 DEF AdmitMiss
    <2>2. Missing(r)
      BY <1>6 DEF AdmitMiss
    <2> HIDE DEF r
    <2>3. PICK o \in FillOutcomes(At(k), r) : Admits(k, r, o, 1)
      BY <2>0, <2>1, <2>2 DEF Admits
    <2> QED
      BY <2>0, <2>3 DEF Kinds
  <1>7. CASE PrefetchMiss(c)
    <2> DEFINE r == call[c].rows[call[c].i]
    <2>0. r \in Rows
      BY <1>7, PlaceFacts DEF PrefetchMiss
    <2>1. PICK k \in Steps : ClaimsAt(k) /\ \E o \in FillOutcomes(At(k), r) : StartFill(k, At(k), r, o, 0)
      BY <1>7 DEF PrefetchMiss
    <2>2. Missing(r) /\ UNCHANGED <<out, pinsTotal>>
      BY <1>7 DEF PrefetchMiss
    <2> HIDE DEF r
    <2>3. PICK o \in FillOutcomes(At(k), r) : Admits(k, r, o, 0)
      BY <2>1, <2>2 DEF Admits
    <2> QED
      BY <2>0, <2>3 DEF Kinds
  <1>8. CASE ClaimFill(c) \/ Relinquish(c)
    <2>1. CASE ClaimFill(c)
      <3>1. Target(c).slot \in Slots
        BY <2>1, TargetFacts DEF ClaimFill
      <3>2. Flags(Target(c).slot, TRUE)
        BY <2>1 DEF ClaimFill, Flags
      <3> QED
        BY <3>1, <3>2 DEF Kinds
    <2>2. CASE Relinquish(c)
      <3>1. fin[c].slot \in Slots
        BY <2>2 DEF ShapeInv, FinOK, Relinquish, Threads
      <3>2. Flags(fin[c].slot, FALSE)
        BY <2>2 DEF Relinquish, Flags
      <3> QED
        BY <3>1, <3>2 DEF Kinds
    <2> QED
      BY <1>8, <2>1, <2>2
  <1>9. CASE SettleRow(c)
    <2> DEFINE i == call[c].i
    <2>0. i \in Positions /\ out[c][i].slot # NONE
      BY <1>9, PlaceFacts DEF SettleRow, Settles
    <2>1. Settled(c, i) \/ UNCHANGED <<slots, out, pinsTotal>>
      BY <1>9, <2>0 DEF SettleRow, Settled
    <2> QED
      BY <2>0, <2>1 DEF Kinds
  <1> QED
    BY <1>1, <1>2, <1>3, <1>4, <1>5, <1>6, <1>7, <1>8, <1>9 DEF Start, Continue, Drop, Deadline

\* Every step is of these kinds.
LEMMA StepKinds == ShapeInv /\ [Next]_vars => Kinds
  <1> SUFFICES ASSUME ShapeInv, [Next]_vars PROVE Kinds
    OBVIOUS
  <1> USE DEF vars, tableVars, poolVars, fillVars, bindVars, ticketVars, sysVars
  <1>1. CASE UNCHANGED vars
    BY <1>1 DEF Kinds
  <1>2. ASSUME NEW c \in Clients, Start(c) \/ Continue(c) \/ Drop(c) \/ Deadline(c) PROVE Kinds
    BY <1>2, ClientKinds
  <1>3. ASSUME NEW t \in Threads, Finish(t) \/ SpuriousWake(t) PROVE Kinds
    BY <1>3 DEF Kinds, Finish, SpuriousWake, BeginFinish, Convert
  <1>4. CASE WorkerIdles \/ Destroy \/ Destroyed
    BY <1>4 DEF Kinds, WorkerIdles, Destroy, Destroyed
  <1>5. CASE WorkerClaims
    <2>1. PICK s \in Slots : Flags(s, TRUE)
      BY <1>5 DEF WorkerClaims, Flags
    <2> QED
      BY <2>1 DEF Kinds
  <1>6. CASE \/ \E s \in Slots, c \in ChunkIds : Complete(s, c)
             \/ \E d \in dropped : CompleteDropped(d)
    BY <1>6 DEF Kinds, Complete, CompleteDropped
  <1> QED
    BY <1>1, <1>2, <1>3, <1>4, <1>5, <1>6 DEF Next, Progress, WorkerStep

-----------------------------------------------------------------------------
(* Each kind of step keeps SafeInv *)

\* What KeptWhileInUse says of one slot.
Kept(s) ==
    slots[s].pins > 0 \/ slots[s].state = "filling" =>
        /\ slots'[s].epoch = slots[s].epoch
        /\ slots'[s].row = slots[s].row
        /\ slots'[s].gen = slots[s].gen
        /\ slots'[s].state # "free"

\* What each kind of step is shown to do.
Safe == KeyOK' /\ CountOK' /\ LeaseOK' /\ \A s \in Slots : Kept(s)

\* The members of LeasesOn and Leases are the places that hold a lease.
LEMMA PlacesOf ==
  ASSUME NEW s
  PROVE  /\ LeasesOn(s) \subseteq Clients \X Positions /\ Leases \subseteq Clients \X Positions
         /\ \A d \in Clients, j \in Positions :
              /\ <<d, j>> \in LeasesOn(s) <=> out[d][j].slot = s
              /\ <<d, j>> \in Leases <=> out[d][j].slot # NONE
         /\ LeasesOn(s)' \subseteq Clients \X Positions /\ Leases' \subseteq Clients \X Positions
         /\ \A d \in Clients, j \in Positions :
              /\ <<d, j>> \in LeasesOn(s)' <=> out'[d][j].slot = s
              /\ <<d, j>> \in Leases' <=> out'[d][j].slot # NONE
  BY DEF LeasesOn, Leases

\* Putting a lease where none was adds it to the leases of its slot.
LEMMA AddLease ==
  ASSUME out \in [Clients -> [Positions -> LeaseRecord]], NEW c \in Clients, NEW i \in Positions,
         NEW l \in LeaseRecord, NEW s \in Slots, l.slot = s, out[c][i].slot = NONE,
         out' = [out EXCEPT ![c][i] = l],
         \A z \in Slots : IsFiniteSet(LeasesOn(z)), IsFiniteSet(Leases)
  PROVE  /\ IsFiniteSet(LeasesOn(s)') /\ Cardinality(LeasesOn(s)') = Cardinality(LeasesOn(s)) + 1
         /\ \A z \in Slots \ {s} : LeasesOn(z)' = LeasesOn(z)
         /\ IsFiniteSet(Leases') /\ Cardinality(Leases') = Cardinality(Leases) + 1
  <1> DEFINE p == <<c, i>>
  <1>1. /\ \A d \in Clients \ {c} : out'[d] = out[d]
        /\ out'[c][i] = l
        /\ \A j \in Positions \ {i} : out'[c][j] = out[c][j]
    BY OutEffect
  <1>2. NONE \notin Slots
    BY ConstantFacts DEF Slots, NONE
  <1>3. \A d \in Clients, j \in Positions : <<d, j>> # p => out'[d][j] = out[d][j]
    BY <1>1
  <1>4. LeasesOn(s)' = LeasesOn(s) \cup {p} /\ p \notin LeasesOn(s)
    BY <1>1, <1>2, <1>3, PlacesOf
  <1>5. \A z \in Slots \ {s} : LeasesOn(z)' = LeasesOn(z)
    <2> SUFFICES ASSUME NEW z \in Slots, z # s PROVE LeasesOn(z)' = LeasesOn(z)
      OBVIOUS
    <2>1. \A d \in Clients, j \in Positions : out'[d][j].slot = z <=> out[d][j].slot = z
      BY <1>1, <1>2, <1>3
    <2> QED
      BY <2>1 DEF LeasesOn
  <1>6. Leases' = Leases \cup {p} /\ p \notin Leases
    BY <1>1, <1>2, <1>3, PlacesOf
  <1> HIDE DEF p
  <1>7. IsFiniteSet(LeasesOn(s)') /\ Cardinality(LeasesOn(s)') = Cardinality(LeasesOn(s)) + 1
    BY <1>4, FS_AddElement
  <1>8. IsFiniteSet(Leases') /\ Cardinality(Leases') = Cardinality(Leases) + 1
    BY <1>6, FS_AddElement
  <1> QED
    BY <1>5, <1>7, <1>8

\* Taking a lease away removes it from the leases of its slot.
LEMMA RemoveLease ==
  ASSUME out \in [Clients -> [Positions -> LeaseRecord]], NEW c \in Clients, NEW i \in Positions,
         NEW s \in Slots, out[c][i].slot = s, out' = [out EXCEPT ![c][i] = NoLease],
         \A z \in Slots : IsFiniteSet(LeasesOn(z)), IsFiniteSet(Leases)
  PROVE  /\ IsFiniteSet(LeasesOn(s)') /\ Cardinality(LeasesOn(s)') = Cardinality(LeasesOn(s)) - 1
         /\ \A z \in Slots \ {s} : LeasesOn(z)' = LeasesOn(z)
         /\ IsFiniteSet(Leases') /\ Cardinality(Leases') = Cardinality(Leases) - 1
  <1> DEFINE p == <<c, i>>
  <1>0. NoLease \in LeaseRecord /\ NoLease.slot = NONE
    BY RecordFacts DEF NoLease
  <1>1. /\ \A d \in Clients \ {c} : out'[d] = out[d]
        /\ out'[c][i] = NoLease
        /\ \A j \in Positions \ {i} : out'[c][j] = out[c][j]
    BY <1>0, OutEffect
  <1>2. NONE \notin Slots
    BY ConstantFacts DEF Slots, NONE
  <1>3. \A d \in Clients, j \in Positions : <<d, j>> # p => out'[d][j] = out[d][j]
    BY <1>1
  <1>4. LeasesOn(s)' = LeasesOn(s) \ {p} /\ p \in LeasesOn(s)
    BY <1>0, <1>1, <1>2, <1>3, PlacesOf
  <1>5. \A z \in Slots \ {s} : LeasesOn(z)' = LeasesOn(z)
    <2> SUFFICES ASSUME NEW z \in Slots, z # s PROVE LeasesOn(z)' = LeasesOn(z)
      OBVIOUS
    <2>1. \A d \in Clients, j \in Positions : out'[d][j].slot = z <=> out[d][j].slot = z
      BY <1>0, <1>1, <1>2, <1>3
    <2> QED
      BY <2>1 DEF LeasesOn
  <1>6. Leases' = Leases \ {p} /\ p \in Leases
    BY <1>0, <1>1, <1>2, <1>3, PlacesOf
  <1> HIDE DEF p
  <1>7. IsFiniteSet(LeasesOn(s)') /\ Cardinality(LeasesOn(s)') = Cardinality(LeasesOn(s)) - 1
    BY <1>4, FS_RemoveElement
  <1>8. IsFiniteSet(Leases') /\ Cardinality(Leases') = Cardinality(Leases) - 1
    BY <1>6, FS_RemoveElement
  <1> QED
    BY <1>5, <1>7, <1>8

\* A slot with a lease is pinned, and an unpinned one has none.
LEMMA PinnedFacts ==
  ASSUME CountOK, NEW c \in Clients, NEW i \in Positions, out[c][i].slot \in Slots
  PROVE  slots[out[c][i].slot].pins \in Nat \ {0}
  <1> DEFINE s == out[c][i].slot
  <1>1. IsFiniteSet(LeasesOn(s)) /\ slots[s].pins = Cardinality(LeasesOn(s))
    BY DEF CountOK
  <1>2. LeasesOn(s) # {}
    BY PlacesOf
  <1> HIDE DEF s
  <1> QED
    BY <1>1, <1>2, FS_EmptySet, FS_CardinalityType DEF s

\* A step that moves no lease and changes no pins keeps the counts.
LEMMA SameCounts ==
  ASSUME CountOK, \A s \in Slots : slots'[s].pins = slots[s].pins, pinsTotal' = pinsTotal,
         \A c \in Clients, i \in Positions : out'[c][i].slot = out[c][i].slot
  PROVE  CountOK'
  <1>1. \A s \in Slots : LeasesOn(s)' = LeasesOn(s)
    BY DEF LeasesOn
  <1>2. Leases' = Leases
    BY DEF Leases
  <1> QED
    BY <1>1, <1>2 DEF CountOK

\* A lease slot exists.
LEMMA LeaseSlot ==
  ASSUME ShapeInv, NEW c \in Clients, NEW i \in Positions
  PROVE  out[c][i] \in LeaseRecord /\ (out[c][i].slot # NONE => out[c][i].slot \in Slots)
  <1>1. out[c][i] \in LeaseRecord
    BY DEF ShapeInv, TypeOK
  <1> QED
    BY <1>1 DEF LeaseRecord

\* A step that changes neither slots nor leases.
LEMMA QuietKind ==
  ASSUME SafeInv, UNCHANGED <<slots, out, pinsTotal>>
  PROVE  Safe
  <1>1. CountOK'
    BY SameCounts DEF SafeInv
  <1>2. KeyOK' /\ LeaseOK'
    BY DEF SafeInv, KeyOK, LeaseOK, Names
  <1>3. \A s \in Slots : Kept(s)
    BY DEF SafeInv, KeyOK, Kept
  <1> QED
    BY <1>1, <1>2, <1>3 DEF Safe

\* A step that keeps every slot's key, state and index entry, and frees no pinned slot.
LEMMA SameKeys ==
  ASSUME SafeInv, \A z \in Slots : SameSlot(z),
         \A z \in Slots : slots[z].state = "free" => slots'[z].pins = 0
  PROVE  KeyOK' /\ \A s \in Slots : Kept(s)
  <1>1. \A s \in Slots : slots'[s].state = "free" => slots'[s].pins = 0
    BY DEF SameSlot
  <1>2. \A s, z \in Slots :
         /\ slots'[s].indexed /\ slots'[z].indexed
         /\ slots'[s].row = slots'[z].row /\ slots'[s].gen = slots'[z].gen
         => s = z
    BY DEF SafeInv, KeyOK, SameSlot
  <1>3. \A s \in Slots : Kept(s)
    BY ConstantFacts DEF SafeInv, KeyOK, Kept, SameSlot
  <1> QED
    BY <1>1, <1>2, <1>3 DEF KeyOK

\* A finisher takes or gives back a fill.
LEMMA FlagKind ==
  ASSUME SafeInv, NEW s \in Slots, NEW b \in BOOLEAN, Flags(s, b)
  PROVE  Safe
  <1>1. \A z \in Slots : SameSlot(z) /\ slots'[z].pins = slots[z].pins
    BY FinishingEffect DEF Flags, SafeInv, ShapeInv, TypeOK
  <1>2. CountOK'
    BY <1>1, SameCounts DEF SafeInv, Flags
  <1>3. KeyOK' /\ \A z \in Slots : Kept(z)
    BY <1>1, SameKeys DEF SafeInv, KeyOK
  <1>4. LeaseOK'
    <2>1. UNCHANGED out
      BY DEF Flags
    <2> QED
      BY <1>1, <2>1, LeaseSlot DEF SafeInv, LeaseOK, Names, SameSlot
  <1> QED
    BY <1>2, <1>3, <1>4 DEF Safe

\* A lease is marked ready.
LEMMA SettleKind ==
  ASSUME SafeInv, NEW c \in Clients, NEW i \in Positions, Settled(c, i)
  PROVE  Safe
  <1> DEFINE l == out[c][i]
             q == [l EXCEPT !.ready = TRUE]
  <1>0. out \in [Clients -> [Positions -> LeaseRecord]] /\ l \in LeaseRecord
    BY LeaseSlot DEF SafeInv, ShapeInv, TypeOK
  <1>1. out' = [out EXCEPT ![c][i] = q] /\ UNCHANGED <<slots, pinsTotal>>
    BY DEF Settled
  <1>2. l.slot # NONE /\ slots[l.slot].state = "ready" /\ Names(l)
    BY DEF Settled, SafeInv, LeaseOK
  <1> HIDE DEF l
  <1>3. /\ q \in LeaseRecord /\ q.slot = l.slot /\ q.epoch = l.epoch /\ q.row = l.row /\ q.gen = l.gen
    BY <1>0 DEF LeaseRecord
  <1>4. slots'[q.slot].epoch = q.epoch /\ slots'[q.slot].row = q.row /\ slots'[q.slot].gen = q.gen
        /\ slots'[q.slot].state = "ready"
    BY <1>1, <1>2, <1>3 DEF Names
  <1> HIDE DEF q
  <1>5. /\ \A d \in Clients \ {c} : out'[d] = out[d]
        /\ out'[c][i] = q
        /\ \A j \in Positions \ {i} : out'[c][j] = out[c][j]
    BY <1>0, <1>1, <1>3, OutEffect
  <1>6. \A d \in Clients, j \in Positions : out'[d][j].slot = out[d][j].slot
    BY <1>3, <1>5 DEF l
  <1>7. CountOK'
    BY <1>1, <1>6, SameCounts DEF SafeInv
  <1>8. KeyOK' /\ \A z \in Slots : Kept(z)
    <2>1. \A z \in Slots : SameSlot(z)
      BY <1>1 DEF SameSlot
    <2> QED
      BY <1>1, <2>1, SameKeys DEF SafeInv, KeyOK
  <1>9. LeaseOK'
    <2> SUFFICES ASSUME NEW d \in Clients, NEW j \in Positions, out'[d][j].slot # NONE
                 PROVE  Names(out[d][j])'
      BY DEF LeaseOK
    <2>1. CASE d = c /\ j = i
      BY <1>4, <1>5, <2>1 DEF Names
    <2>2. CASE ~(d = c /\ j = i)
      <3>1. out'[d][j] = out[d][j] /\ Names(out[d][j])
        BY <1>5, <2>2 DEF SafeInv, LeaseOK
      <3> QED
        BY <1>1, <3>1 DEF Names
    <2> QED
      BY <2>1, <2>2
  <1> QED
    BY <1>7, <1>8, <1>9 DEF Safe

\* A lease on an indexed slot is handed out.
LEMMA GrantKind ==
  ASSUME SafeInv, NEW c \in Clients, NEW i \in Positions, NEW s \in Slots, NEW ready \in BOOLEAN,
         Grants(c, i, s, ready)
  PROVE  Safe
  <1> DEFINE l == LeaseOn(s, slots[s].row, slots[s].epoch, slots[s].gen, ready)
  <1>0. /\ slots \in [Slots -> SlotRecord] /\ out \in [Clients -> [Positions -> LeaseRecord]]
        /\ out[c][i].slot = NONE /\ out' = [out EXCEPT ![c][i] = l] /\ pinsTotal' = pinsTotal + 1
        /\ slots[s].state \in {"filling", "ready"} /\ (ready => slots[s].state = "ready")
    BY DEF Grants, SafeInv, ShapeInv, TypeOK, SlotOK
  <1>1. /\ slots'[s].pins = slots[s].pins + 1
        /\ \A z \in Slots \ {s} : slots'[z].pins = slots[z].pins
        /\ \A z \in Slots : SameSlot(z)
    BY <1>0, PinEffect DEF Grants
  <1>2. /\ l \in LeaseRecord /\ l.slot = s
    BY <1>0, LeaseFacts
  <1>3. /\ l.row = slots[s].row /\ l.epoch = slots[s].epoch /\ l.gen = slots[s].gen /\ l.ready = ready
    BY DEF LeaseOn
  <1> HIDE DEF l
  <1>4. KeyOK' /\ \A z \in Slots : Kept(z)
    BY <1>0, <1>1, SameKeys DEF SafeInv, KeyOK
  <1>5. CountOK'
    <2>1. \A z \in Slots : IsFiniteSet(LeasesOn(z)) /\ slots[z].pins = Cardinality(LeasesOn(z))
      BY DEF SafeInv, CountOK
    <2>2. IsFiniteSet(Leases) /\ pinsTotal = Cardinality(Leases)
      BY DEF SafeInv, CountOK
    <2>3. /\ IsFiniteSet(LeasesOn(s)') /\ Cardinality(LeasesOn(s)') = Cardinality(LeasesOn(s)) + 1
          /\ \A z \in Slots \ {s} : LeasesOn(z)' = LeasesOn(z)
          /\ IsFiniteSet(Leases') /\ Cardinality(Leases') = Cardinality(Leases) + 1
      <3>1. PICK m \in LeaseRecord : m = l
        BY <1>2
      <3>2. m.slot = s /\ out' = [out EXCEPT ![c][i] = m]
        BY <1>0, <1>2, <3>1
      <3>3. /\ out \in [Clients -> [Positions -> LeaseRecord]] /\ out[c][i].slot = NONE
            /\ IsFiniteSet(Leases) /\ \A z \in Slots : IsFiniteSet(LeasesOn(z))
        BY <1>0, <2>1, <2>2
      <3> QED
        BY <3>2, <3>3, AddLease
    <2> QED
      <3>1. \A z \in Slots : IsFiniteSet(LeasesOn(z)') /\ slots'[z].pins = Cardinality(LeasesOn(z)')
        BY <1>1, <2>1, <2>3
      <3>2. IsFiniteSet(Leases') /\ pinsTotal' = Cardinality(Leases')
        BY <1>0, <2>2, <2>3
      <3> QED
        BY <3>1, <3>2 DEF CountOK
  <1>6. LeaseOK'
    <2> SUFFICES ASSUME NEW d \in Clients, NEW j \in Positions, out'[d][j].slot # NONE
                 PROVE  Names(out[d][j])'
      BY DEF LeaseOK
    <2>0. /\ \A e \in Clients \ {c} : out'[e] = out[e]
          /\ out'[c][i] = l
          /\ \A e \in Positions \ {i} : out'[c][e] = out[c][e]
      BY <1>0, <1>2, OutEffect
    <2>1. CASE d = c /\ j = i
      BY <1>0, <1>1, <1>2, <1>3, <2>0, <2>1 DEF Names, SameSlot
    <2>2. CASE ~(d = c /\ j = i)
      <3>1. out'[d][j] = out[d][j]
        BY <2>0, <2>2
      <3>2. out[d][j].slot \in Slots /\ Names(out[d][j])
        BY <3>1, LeaseSlot DEF SafeInv, LeaseOK
      <3> QED
        BY <1>1, <3>1, <3>2 DEF Names, SameSlot
    <2> QED
      BY <2>1, <2>2
  <1> QED
    BY <1>4, <1>5, <1>6 DEF Safe

\* A lease is dropped: it matches its slot, so release_lease gives its pin back.
LEMMA DropKind ==
  ASSUME SafeInv, NEW c \in Clients, NEW i \in Positions, ReleaseLease(c, i)
  PROVE  Safe /\ UNCHANGED life
  <1> DEFINE s == out[c][i].slot
  <1>0. /\ slots \in [Slots -> SlotRecord] /\ out \in [Clients -> [Positions -> LeaseRecord]]
        /\ out' = [out EXCEPT ![c][i] = NoLease] /\ s # NONE
    BY DEF ReleaseLease, SafeInv, ShapeInv, TypeOK
  <1>1. s \in Slots
    BY <1>0, LeaseSlot DEF SafeInv
  <1>2. slots[s].pins \in Nat \ {0}
    BY <1>1, PinnedFacts DEF SafeInv
  <1>3. slots[s].epoch = out[c][i].epoch
    BY <1>0 DEF SafeInv, LeaseOK, Names
  <1>4. slots' = [slots EXCEPT ![s].pins = @ - 1] /\ pinsTotal' = pinsTotal - 1 /\ UNCHANGED life
    BY <1>2, <1>3 DEF ReleaseLease
  <1>6. PICK z \in Slots : z = s
    BY <1>1
  <1> HIDE DEF s
  <1>7. /\ slots'[z].pins = slots[z].pins - 1
        /\ \A y \in Slots \ {z} : slots'[y].pins = slots[y].pins
        /\ \A y \in Slots : SameSlot(y)
    BY <1>0, <1>2, <1>4, <1>6, UnpinEffect
  <1>8. KeyOK' /\ \A y \in Slots : Kept(y)
    <2>1. slots[z].state # "free"
      BY <1>2, <1>6 DEF SafeInv, KeyOK
    <2> QED
      BY <1>7, <2>1, SameKeys DEF SafeInv, KeyOK
  <1>9. CountOK'
    <2>1. \A y \in Slots : IsFiniteSet(LeasesOn(y)) /\ slots[y].pins = Cardinality(LeasesOn(y))
      BY DEF SafeInv, CountOK
    <2>2. IsFiniteSet(Leases) /\ pinsTotal = Cardinality(Leases)
      BY DEF SafeInv, CountOK
    <2>3. /\ IsFiniteSet(LeasesOn(z)') /\ Cardinality(LeasesOn(z)') = Cardinality(LeasesOn(z)) - 1
          /\ \A y \in Slots \ {z} : LeasesOn(y)' = LeasesOn(y)
          /\ IsFiniteSet(Leases') /\ Cardinality(Leases') = Cardinality(Leases) - 1
      BY <1>0, <1>6, <2>1, <2>2, RemoveLease DEF s
    <2> QED
      BY <1>4, <1>7, <2>1, <2>2, <2>3 DEF CountOK
  <1>10. LeaseOK'
    <2> SUFFICES ASSUME NEW d \in Clients, NEW j \in Positions, out'[d][j].slot # NONE
                 PROVE  Names(out[d][j])'
      BY DEF LeaseOK
    <2>0. /\ \A e \in Clients \ {c} : out'[e] = out[e]
          /\ out'[c][i] = NoLease
          /\ \A e \in Positions \ {i} : out'[c][e] = out[c][e]
      BY <1>0, RecordFacts, OutEffect
    <2>1. ~(d = c /\ j = i)
      BY <2>0 DEF NoLease
    <2>2. out'[d][j] = out[d][j]
      BY <2>0, <2>1
    <2>3. out[d][j].slot \in Slots /\ Names(out[d][j])
      BY <2>2, LeaseSlot DEF SafeInv, LeaseOK
    <2> QED
      BY <1>7, <2>2, <2>3 DEF Names, SameSlot
  <1> QED
    BY <1>4, <1>8, <1>9, <1>10 DEF Safe

\* A fill is published: its slot keeps its key and leaves the index unless it is ready.
LEMMA PublishKind ==
  ASSUME SafeInv, NEW t \in Threads, Publish(t)
  PROVE  Safe
  <1> DEFINE s == fin[t].slot
             status == IF fin[t].pc = "wait" /\ FailedFirst(s) THEN "io_error" ELSE fin[t].status
             q == Published(s, status)
  <1>0. /\ slots \in [Slots -> SlotRecord] /\ fin[t] \in FinishRecord
        /\ s \in Slots /\ slots[s].state = "filling"
    BY DEF SafeInv, ShapeInv, TypeOK, FinOK, Publish, Publishes
  <1>1. status \in Statuses
    BY <1>0 DEF FinishRecord, Statuses
  <1>2. slots' = [slots EXCEPT ![s] = q] /\ UNCHANGED <<out, pinsTotal>>
    BY DEF Publish
  <1> HIDE DEF status
  <1>3. /\ q \in SlotRecord
        /\ q.row = slots[s].row /\ q.gen = slots[s].gen /\ q.epoch = slots[s].epoch
        /\ q.pins = slots[s].pins
        /\ q.state \in {"ready", "failed"}
        /\ q.indexed => slots[s].indexed
    BY <1>0, <1>1, PublishedFacts
  <1> HIDE DEF q
  <1>4. slots'[s] = q /\ \A z \in Slots \ {s} : slots'[z] = slots[z]
    BY <1>0, <1>2, <1>3
  <1>5. \A z \in Slots :
          /\ slots'[z].row = slots[z].row /\ slots'[z].gen = slots[z].gen
          /\ slots'[z].epoch = slots[z].epoch /\ slots'[z].pins = slots[z].pins
          /\ slots'[z].indexed => slots[z].indexed
          /\ slots'[z].state = "free" => slots[z].state = "free"
          /\ slots[z].state = "ready" => slots'[z].state = "ready"
    BY <1>0, <1>3, <1>4
  <1>6. CountOK'
    BY <1>2, <1>5, SameCounts DEF SafeInv
  <1>7. KeyOK'
    BY <1>5 DEF SafeInv, KeyOK
  <1>8. \A z \in Slots : Kept(z)
    BY <1>5 DEF SafeInv, KeyOK, Kept
  <1>9. LeaseOK'
    <2> SUFFICES ASSUME NEW d \in Clients, NEW j \in Positions, out[d][j].slot # NONE
                 PROVE  Names(out[d][j])'
      BY <1>2 DEF LeaseOK
    <2>1. out[d][j].slot \in Slots /\ Names(out[d][j]) /\ out'[d][j] = out[d][j]
      BY <1>2, LeaseSlot DEF SafeInv, LeaseOK
    <2> QED
      BY <1>5, <2>1 DEF Names
  <1> QED
    BY <1>6, <1>7, <1>8, <1>9 DEF Safe

\* A row is admitted into a slot nobody has a lease on.
LEMMA AdmitKind ==
  ASSUME SafeInv, NEW k \in Steps, NEW r \in Rows, NEW o \in FillOutcomes(At(k), r), NEW pin \in {0, 1},
         Admits(k, r, o, pin)
  PROVE  Safe
  <1> DEFINE s == At(k)
             q == AdmittedSlot(s, r, o, pin)
             ok == o.status = "ok"
             ep == (slots[s].epoch + 1) % WordModulus
             l == LeaseOn(s, r, ep, generation, FALSE)
  <1>0. /\ slots \in [Slots -> SlotRecord] /\ out \in [Clients -> [Positions -> LeaseRecord]]
        /\ clockHand \in Slots /\ generation \in Generations /\ ShapeInv
    BY DEF SafeInv, ShapeInv, TypeOK
  <1>1. /\ s \in Slots /\ slots'[s] = q
        /\ \A z \in Slots \ {s} : SameSlot(z) /\ slots'[z].pins = slots[z].pins
    BY <1>0, StartEffect DEF Admits
  <1>2. slots[s].pins = 0 /\ slots[s].state # "filling"
    BY <1>0, <1>1, VictimFacts DEF Admits, SafeInv, KeyOK
  <1>3. \A z \in Slots : slots[z].indexed => ~(slots[z].row = r /\ slots[z].gen = generation)
    BY DEF Admits, Missing, Indexed
  <1>4. ep \in Words
    <2>1. slots[s].epoch \in Words
      BY <1>0, <1>1 DEF SlotRecord
    <2> QED
      BY <2>1, WordFacts
  <1>5. \/ /\ ok /\ pin = 1 /\ pinsTotal' = pinsTotal + 1
           /\ \E c \in Clients, i \in Positions :
                out[c][i].slot = NONE /\ out' = [out EXCEPT ![c][i] = l]
        \/ ~(ok /\ pin = 1) /\ UNCHANGED <<out, pinsTotal>>
    BY DEF Admits
  <1>6. /\ q.row = r /\ q.gen = generation /\ q.epoch = ep
        /\ q.state = IF ok THEN "filling" ELSE "failed"
        /\ q.indexed <=> ok
    BY DEF AdmittedSlot
  <1>7. q.pins = IF ok /\ pin = 1 THEN 1 ELSE 0
    BY <1>2 DEF AdmittedSlot
  <1>8. /\ l \in LeaseRecord /\ l.slot = s /\ l.row = r /\ l.epoch = ep /\ l.gen = generation
        /\ l.ready = FALSE
    BY <1>0, <1>1, <1>4 DEF LeaseOn, LeaseRecord
  <1> HIDE DEF s, q, ok, ep, l
  <1>9. \A c \in Clients, i \in Positions : out[c][i].slot # s
    BY <1>1, <1>2, PinnedFacts DEF SafeInv
  <1>10. KeyOK'
    <2>1. \A z \in Slots : slots'[z].state = "free" => slots'[z].pins = 0
      BY <1>1, <1>6 DEF SafeInv, KeyOK, SameSlot
    <2>2. \A y \in Slots \ {s} : slots'[y].indexed => ~(slots'[y].row = r /\ slots'[y].gen = generation)
      BY <1>1, <1>3 DEF SameSlot
    <2>3. \A y, z \in Slots :
         /\ slots'[y].indexed /\ slots'[z].indexed
         /\ slots'[y].row = slots'[z].row /\ slots'[y].gen = slots'[z].gen
         => y = z
      BY <1>1, <1>6, <2>2 DEF SafeInv, KeyOK, SameSlot
    <2> QED
      BY <2>1, <2>3 DEF KeyOK
  <1>11. \A z \in Slots : Kept(z)
    BY <1>1, <1>2 DEF SafeInv, KeyOK, Kept, SameSlot
  <1>12. ASSUME NEW d \in Clients, NEW j \in Positions, out[d][j].slot # NONE, out'[d][j] = out[d][j]
         PROVE  Names(out[d][j])'
    <2>1. out[d][j].slot \in Slots \ {s} /\ Names(out[d][j])
      BY <1>0, <1>9, <1>12, LeaseSlot DEF SafeInv, LeaseOK
    <2> QED
      BY <1>1, <1>12, <2>1 DEF Names, SameSlot
  <1>13. \A z \in Slots : IsFiniteSet(LeasesOn(z)) /\ slots[z].pins = Cardinality(LeasesOn(z))
    BY DEF SafeInv, CountOK
  <1>14. IsFiniteSet(Leases) /\ pinsTotal = Cardinality(Leases)
    BY DEF SafeInv, CountOK
  <1>15. CASE ok /\ pin = 1
    <2>1. PICK c \in Clients, i \in Positions :
            out[c][i].slot = NONE /\ out' = [out EXCEPT ![c][i] = l]
      BY <1>5, <1>15
    <2>0. PICK x \in Slots, m \in LeaseRecord : x = s /\ m = l
      BY <1>1, <1>8
    <2>2. /\ IsFiniteSet(LeasesOn(x)') /\ Cardinality(LeasesOn(x)') = Cardinality(LeasesOn(x)) + 1
          /\ \A z \in Slots \ {x} : LeasesOn(z)' = LeasesOn(z)
          /\ IsFiniteSet(Leases') /\ Cardinality(Leases') = Cardinality(Leases) + 1
      <3>1. m.slot = x /\ out' = [out EXCEPT ![c][i] = m] /\ out[c][i].slot = NONE
        BY <1>8, <2>0, <2>1
      <3>2. /\ out \in [Clients -> [Positions -> LeaseRecord]] /\ IsFiniteSet(Leases)
            /\ \A z \in Slots : IsFiniteSet(LeasesOn(z))
        BY <1>0, <1>13, <1>14
      <3> QED
        BY <3>1, <3>2, AddLease
    <2>3. CountOK'
      <3>1. slots'[x].pins = slots[x].pins + 1 /\ \A z \in Slots \ {x} : slots'[z].pins = slots[z].pins
        BY <1>1, <1>2, <1>7, <1>15, <2>0
      <3>2. pinsTotal' = pinsTotal + 1
        BY <1>5, <1>15
      <3> QED
        BY <1>13, <1>14, <2>2, <3>1, <3>2 DEF CountOK
    <2>4. /\ \A e \in Clients \ {c} : out'[e] = out[e]
          /\ out'[c][i] = l
          /\ \A e \in Positions \ {i} : out'[c][e] = out[c][e]
      BY <1>0, <1>8, <2>1, OutEffect
    <2>5. LeaseOK'
      <3> SUFFICES ASSUME NEW d \in Clients, NEW j \in Positions, out'[d][j].slot # NONE
                   PROVE  Names(out[d][j])'
        BY DEF LeaseOK
      <3>1. CASE d = c /\ j = i
        BY <1>1, <1>6, <1>8, <1>15, <2>4, <3>1 DEF Names
      <3>2. CASE ~(d = c /\ j = i)
        <4>1. out'[d][j] = out[d][j]
          BY <2>4, <3>2
        <4> QED
          BY <1>12, <4>1
      <3> QED
        BY <3>1, <3>2
    <2> QED
      BY <1>10, <1>11, <2>3, <2>5 DEF Safe
  <1>16. CASE ~(ok /\ pin = 1)
    <2>1. UNCHANGED <<out, pinsTotal>>
      BY <1>5, <1>16
    <2>2. \A z \in Slots : slots'[z].pins = slots[z].pins
      BY <1>1, <1>2, <1>7, <1>16
    <2>3. CountOK'
      BY <2>1, <2>2, SameCounts DEF SafeInv
    <2>4. LeaseOK'
      BY <1>12, <2>1 DEF LeaseOK
    <2> QED
      BY <1>10, <1>11, <2>3, <2>4 DEF Safe
  <1> QED
    BY <1>15, <1>16

-----------------------------------------------------------------------------
(* The theorems *)

\* The constructor establishes the invariant.
LEMMA InitSafe == Init => SafeInv
  <1> SUFFICES ASSUME Init PROVE SafeInv
    OBVIOUS
  <1>1. ShapeInv
    BY InitShape
  <1>2. KeyOK /\ LeaseOK
    BY DEF Init, KeyOK, LeaseOK, FreeSlot, NoLease
  <1>3. Leases = {} /\ \A s \in Slots : LeasesOn(s) = {}
    BY ConstantFacts DEF Init, Leases, LeasesOn, NoLease, Slots, NONE
  <1>4. CountOK
    BY <1>3, FS_EmptySet DEF Init, CountOK, FreeSlot
  <1> QED
    BY <1>1, <1>2, <1>4 DEF SafeInv

\* Every step keeps the invariant, and every slot in use its key.
THEOREM SafeInductive == SafeInv /\ [Next]_vars => SafeInv' /\ \A s \in Slots : Kept(s)
  <1> SUFFICES ASSUME SafeInv, [Next]_vars PROVE SafeInv' /\ \A s \in Slots : Kept(s)
    OBVIOUS
  <1>1. ShapeInv'
    BY ShapeInductive DEF SafeInv
  <1>2. Kinds
    BY StepKinds DEF SafeInv
  <1>3. Safe
    BY <1>2, QuietKind, GrantKind, DropKind, AdmitKind, FlagKind, PublishKind, SettleKind DEF Kinds
  <1> QED
    BY <1>1, <1>3 DEF SafeInv, Safe

\* Every reachable state satisfies the invariant.
THEOREM SafeAlways == Spec => []SafeInv
  <1>1. SafeInv /\ [Next]_vars => SafeInv'
    BY SafeInductive
  <1> QED
    BY <1>1, InitSafe, PTL DEF Spec

\* pins counts exactly the leases on a slot and pins_total_ all leases, however calls fail, unwind and
\* interleave.
THEOREM PinsExact == Spec => []PinsCountLeases
  <1>1. SafeInv => PinsCountLeases
    BY DEF SafeInv, CountOK, PinsCountLeases
  <1> QED
    BY <1>1, SafeAlways, PTL

\* A lease names the row, generation and epoch its slot holds, pinned, and ready once published.
THEOREM LeasesSafe == Spec => []LeasesNameTheirSlot
  <1>1. SafeInv => LeasesNameTheirSlot
    <2> SUFFICES ASSUME SafeInv, NEW c \in Clients, NEW i \in Positions, out[c][i].slot # NONE
                 PROVE  Names(out[c][i]) /\ slots[out[c][i].slot].pins > 0
      BY DEF LeasesNameTheirSlot, Names
    <2>1. out[c][i].slot \in Slots
      BY LeaseSlot DEF SafeInv
    <2>2. slots[out[c][i].slot].pins \in Nat \ {0}
      BY <2>1, PinnedFacts DEF SafeInv
    <2> QED
      BY <2>2 DEF SafeInv, LeaseOK
  <1> QED
    BY <1>1, SafeAlways, PTL

\* R5: no two slots answer for one key, and a filling slot can be found.
THEOREM KeysUnique == Spec => []OneSlotPerKey
  <1>1. SafeInv => OneSlotPerKey
    BY DEF SafeInv, ShapeInv, SlotOK, KeyOK, OneSlotPerKey, Filling
  <1> QED
    BY <1>1, SafeAlways, PTL

\* A pinned or filling slot is never given to another row.
THEOREM UsedSlotsKept == Spec => KeptWhileInUse
  <1>1. SafeInv /\ [Next]_vars => \A s \in Slots : Kept(s)
    BY SafeInductive
  <1>2. (\A s \in Slots : Kept(s)) <=>
          \A s \in Slots :
            slots[s].pins > 0 \/ slots[s].state = "filling" =>
                /\ slots'[s].epoch = slots[s].epoch
                /\ slots'[s].row = slots[s].row
                /\ slots'[s].gen = slots[s].gen
                /\ slots'[s].state # "free"
    BY DEF Kept
  <1> QED
    BY <1>1, <1>2, SafeAlways, PTL DEF Spec, KeptWhileInUse
=============================================================================
