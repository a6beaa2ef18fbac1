--------------------------- MODULE RowIndexProofs ---------------------------
(***************************************************************************)
(* The index finds every row, for every hash function, key set and size.   *)
(*                                                                         *)
(* Distances along the array are cyclic; the lemmas of the first part are  *)
(* all that the rest uses of them.  The second part shows that an empty    *)
(* position exists, the third that every step keeps IndexInv.              *)
(***************************************************************************)
EXTENDS RowIndexProperties, FiniteSetTheorems, TLAPS

\* A distance is a position, and 0 only from a position to itself.
LEMMA DistanceIsPosition ==
    ASSUME NEW a \in Positions, NEW b \in Positions
    PROVE  /\ Distance(a, b) \in 0 .. IndexSize - 1
           /\ Distance(a, b) = 0 <=> a = b
BY SizeAssumption DEF Positions, Distance

\* Equal distances lead to one position.
LEMMA DistanceIsInjective ==
    ASSUME NEW a \in Positions, NEW b \in Positions, NEW c \in Positions, Distance(a, b) = Distance(a, c)
    PROVE  b = c
BY SizeAssumption DEF Positions, Distance

\* One step of a probe: the distance grows by one, unless the probe is back where it began.
LEMMA NextIsFurther ==
    ASSUME NEW a \in Positions, NEW b \in Positions
    PROVE  /\ NextPos(b) \in Positions
           /\ NextPos(b) # b
           /\ NextPos(b) # a => Distance(a, NextPos(b)) = Distance(a, b) + 1
           /\ NextPos(b) = a => Distance(a, b) = IndexSize - 1
BY SizeAssumption DEF Positions, Distance, NextPos

\* If b is on the way from a to c, so is what is on the way from b to c.
LEMMA BetweenIsTransitive ==
    ASSUME NEW a \in Positions, NEW b \in Positions, NEW c \in Positions, NEW d \in Positions,
           Distance(a, b) <= Distance(a, c), Distance(b, d) <= Distance(b, c)
    PROVE  Distance(a, d) <= Distance(a, c)
BY SizeAssumption DEF Positions, Distance

\* The test of index_erase: the hole is on the way from the home to the entry.
LEMMA MovesBackMeansBetween ==
    ASSUME NEW h \in Positions, NEW hole \in Positions, NEW pos \in Positions
    PROVE  Distance(h, pos) >= Distance(hole, pos) <=> Distance(h, hole) <= Distance(h, pos)
BY SizeAssumption DEF Positions, Distance

-----------------------------------------------------------------------------

\* The index is never full: an injection of its positions into the slots would be one into a smaller set.
LEMMA SomeEntryIsEmpty ==
    ASSUME TypeOK, EntriesAreSlots, LocalsOK
    PROVE  \E e \in Positions : index[e] = NONE
<1> SUFFICES ASSUME \A e \in Positions : index[e] # NONE PROVE FALSE
  OBVIOUS
<1> DEFINE f == [p \in Positions |-> IF Void(p) THEN op.slot ELSE index[p]]
<1>1. f \in [Positions -> Slots]
  BY DEF TypeOK, LocalsOK, Void
<1>2. /\ IsFiniteSet(Positions) /\ Cardinality(Positions) = IndexSize
      /\ IsFiniteSet(Slots) /\ Cardinality(Slots) = BudgetRows
  <2>1. 0 \in Int /\ IndexSize - 1 \in Int /\ BudgetRows - 1 \in Int /\ ~(0 > IndexSize - 1) /\ ~(0 > BudgetRows - 1)
        /\ IndexSize - 1 - 0 + 1 = IndexSize /\ BudgetRows - 1 - 0 + 1 = BudgetRows
    BY SizeAssumption
  <2> QED  BY <2>1, FS_Interval DEF Positions, Slots
<1>3. Cardinality(Slots) < Cardinality(Positions)
  BY <1>2, SizeAssumption
<1>4. PICK x \in Positions, y \in Positions : x # y /\ f[x] = f[y]
  <2> HIDE DEF f
  <2> QED  BY <1>1, <1>2, <1>3, FS_PigeonHole
<1>5. CASE Void(x) \/ Void(y)
  <2>1. PICK p \in Positions : Entry(p) /\ index[p] = op.slot
    BY <1>4, <1>5 DEF Void, Entry
  <2>2. op.pc = "shift" /\ Listed(op.slot)
    BY <1>5, <2>1 DEF Void, EntriesAreSlots
  <2> QED  BY <2>2 DEF Listed
<1>6. CASE ~Void(x) /\ ~Void(y)
  <2>1. Entry(x) /\ Entry(y) /\ index[x] = index[y]
    BY <1>4, <1>6 DEF Entry
  <2> QED  BY <1>4, <2>1 DEF EntriesAreSlots
<1> QED  BY <1>5, <1>6

-----------------------------------------------------------------------------

\* Outside a deletion every non-empty position is an entry and every indexed slot is listed.
LEMMA NoHole ==
    ASSUME op.pc # "shift"
    PROVE  /\ \A p \in Positions : Entry(p) <=> index[p] # NONE
           /\ \A s \in Slots : Listed(s) <=> indexed[s]
BY DEF Entry, Void, Listed

\* The empty index satisfies the invariant.
LEMMA InitKeepsIndex == Init => IndexInv
<1> SUFFICES ASSUME Init PROVE IndexInv
  OBVIOUS
<1>1. TypeOK
  BY SizeAssumption DEF Init, TypeOK, Idle, Operations, Positions, NONE
<1> QED  BY <1>1 DEF Init, IndexInv, EntriesAreSlots, KeysDiffer, NoGaps, HoleIsBehind, Passed, LocalsOK,
                 FindIsExact, EraseFindsItsEntry, Entry, Void, Listed, Idle

\* Steps that change neither the index nor the slots, outside a deletion.
LEMMA Frame ==
    ASSUME IndexInv, op.pc # "shift", op'.pc # "shift", UNCHANGED <<home, key, indexed, index>>
    PROVE  EntriesAreSlots' /\ NoGaps' /\ HoleIsBehind'
BY DEF IndexInv, EntriesAreSlots, NoGaps, HoleIsBehind, Entry, Void, Listed, HomeOf, Between

\* Starting a lookup keeps the invariant: nothing has been passed yet.
LEMMA FindKeeps ==
    ASSUME IndexInv, NEW k \in Keys, Find(k)
    PROVE  IndexInv'
<1>1. /\ op.pc = "idle" /\ miss = NONE /\ UNCHANGED <<home, key, indexed, index, miss>>
      /\ op' = [pc |-> "find", key |-> k, slot |-> NONE, hole |-> 0, pos |-> home[k]]
  BY DEF Find, Idle
<1>2. TypeOK'
  BY <1>1, SizeAssumption DEF IndexInv, TypeOK, Operations, Positions
<1>3. EntriesAreSlots' /\ NoGaps' /\ HoleIsBehind'
  BY <1>1, Frame
<1>4. KeysDiffer' /\ LocalsOK' /\ FindIsExact' /\ EraseFindsItsEntry'
  BY <1>1, KeyAssumption DEF IndexInv, KeysDiffer, LocalsOK, FindIsExact, EraseFindsItsEntry
<1>5. Passed'
  <2>1. \A q \in Positions : ~(Distance(home[k], q) < Distance(home[k], home[k]))
    BY DistanceIsPosition DEF IndexInv, TypeOK
  <2> QED  BY <1>1, <2>1 DEF Passed, Distance
<1> QED  BY <1>2, <1>3, <1>4, <1>5 DEF IndexInv

\* One probe of a lookup: the slot just passed is occupied and is not the key's.
LEMMA FindStepKeeps ==
    ASSUME IndexInv, FindStep
    PROVE  IndexInv'
<1>1. /\ op.pc = "find" /\ UNCHANGED <<home, key, indexed, index, miss>>
      /\ op \in Operations /\ op.key \in Keys /\ miss = NONE /\ op.pos \in Positions
      /\ home[op.key] \in Positions
  BY DEF FindStep, IndexInv, TypeOK, Operations, LocalsOK
<1>2. CASE index[op.pos] = NONE \/ Names(op.pos, op.key)
  <2>1. op' = [op EXCEPT !.pc = "answer", !.slot = index[op.pos]]
    BY <1>2 DEF FindStep
  <2>2. TypeOK' /\ op'.pc = "answer" /\ op'.key = op.key /\ op'.slot = index[op.pos]
    BY <1>1, <2>1 DEF IndexInv, TypeOK, Operations
  <2>3. EntriesAreSlots' /\ NoGaps' /\ HoleIsBehind'
    BY <1>1, <2>2, Frame
  <2>4. KeysDiffer' /\ LocalsOK' /\ Passed' /\ EraseFindsItsEntry'
    BY <1>1, <2>2 DEF IndexInv, KeysDiffer, LocalsOK, Passed, EraseFindsItsEntry
  <2>5. CASE index[op.pos] # NONE
    <3>1. index[op.pos] \in Slots /\ indexed[index[op.pos]] /\ key[index[op.pos]] = op.key
      BY <1>1, <1>2, <2>5, NoHole DEF IndexInv, TypeOK, EntriesAreSlots, Names
    <3>2. FindIsExact'
      BY <1>1, <2>2, <2>5, <3>1 DEF FindIsExact
    <3> QED  BY <2>2, <2>3, <2>4, <3>2 DEF IndexInv
  <2>6. CASE index[op.pos] = NONE
    <3>1. ASSUME NEW s \in Slots, indexed[s], key[s] = op.key PROVE FALSE
      <4>1. PICK p \in Positions : Entry(p) /\ index[p] = s
        BY <1>1, <3>1, NoHole DEF IndexInv, EntriesAreSlots
      <4>2. HomeOf(p) = home[op.key] /\ Names(p, op.key) /\ index[p] # NONE
        BY <3>1, <4>1 DEF HomeOf, Names, Entry
      <4>3. ~(Distance(home[op.key], op.pos) <= Distance(home[op.key], p))
        BY <1>1, <2>6, <4>1, <4>2 DEF IndexInv, NoGaps, Between
      <4>4. ~(Distance(home[op.key], p) < Distance(home[op.key], op.pos))
        BY <1>1, <4>2 DEF IndexInv, Passed
      <4> QED  BY <1>1, <4>3, <4>4, DistanceIsPosition
    <3>2. FindIsExact'
      BY <1>1, <2>2, <2>6, <3>1 DEF FindIsExact
    <3> QED  BY <2>2, <2>3, <2>4, <3>2 DEF IndexInv
  <2> QED  BY <2>5, <2>6
<1>3. CASE ~(index[op.pos] = NONE \/ Names(op.pos, op.key))
  <2>1. op' = [op EXCEPT !.pos = NextPos(op.pos)] /\ NextPos(op.pos) \in Positions
    BY <1>1, <1>3, NextIsFurther DEF FindStep
  <2>2. TypeOK' /\ op'.pc = "find" /\ op'.key = op.key /\ op'.pos = NextPos(op.pos)
    BY <1>1, <2>1 DEF IndexInv, TypeOK, Operations
  <2>3. EntriesAreSlots' /\ NoGaps' /\ HoleIsBehind'
    BY <1>1, <2>2, Frame
  <2>4. KeysDiffer' /\ LocalsOK' /\ FindIsExact' /\ EraseFindsItsEntry'
    BY <1>1, <2>2 DEF IndexInv, KeysDiffer, LocalsOK, FindIsExact, EraseFindsItsEntry
  <2>5. ASSUME NEW q \in Positions, Distance(home[op.key], q) < Distance(home[op.key], NextPos(op.pos))
        PROVE  index[q] # NONE /\ ~Names(q, op.key)
    <3>1. Distance(home[op.key], q) < Distance(home[op.key], op.pos) \/ q = op.pos
      BY <1>1, <2>5, NextIsFurther, DistanceIsPosition, DistanceIsInjective
    <3> QED  BY <1>1, <1>3, <3>1 DEF IndexInv, Passed
  <2>6. Passed'
    BY <1>1, <2>2, <2>5 DEF Passed, Names, Distance
  <2> QED  BY <2>2, <2>3, <2>4, <2>6 DEF IndexInv
<1> QED  BY <1>2, <1>3

\* Taking an answer, or finding no victim, leaves the probes alone.
LEMMA AnsweredKeeps ==
    ASSUME IndexInv, Answered \/ NoVictim
    PROVE  IndexInv'
<1>1. /\ op.pc \in {"idle", "answer"} /\ op'.pc = "idle" /\ UNCHANGED <<home, key, indexed, index>>
      /\ op' \in Operations /\ miss' \in Keys \cup {NONE}
  BY SizeAssumption DEF Answered, NoVictim, IndexInv, TypeOK, LocalsOK, Idle, Operations, Positions
<1>2. TypeOK'
  BY <1>1 DEF IndexInv, TypeOK
<1>3. EntriesAreSlots' /\ NoGaps' /\ HoleIsBehind'
  BY <1>1, Frame
<1>4. LocalsOK' /\ Passed' /\ FindIsExact' /\ EraseFindsItsEntry'
  BY <1>1 DEF LocalsOK, Passed, FindIsExact, EraseFindsItsEntry
<1>5. KeysDiffer'
  <2>1. miss' = NONE \/ \A s \in Slots : indexed[s] => key[s] # miss'
    BY DEF Answered, NoVictim, IndexInv, FindIsExact
  <2> QED  BY <1>1, <2>1 DEF IndexInv, KeysDiffer
<1> QED  BY <1>2, <1>3, <1>4, <1>5 DEF IndexInv

\* Starting an insertion keeps the invariant.
LEMMA InsertKeeps ==
    ASSUME IndexInv, NEW s \in Slots, Insert(s)
    PROVE  IndexInv'
<1>1. /\ op.pc = "idle" /\ miss \in Keys /\ ~indexed[s] /\ UNCHANGED <<home, indexed, index, miss>>
      /\ key' = [key EXCEPT ![s] = miss]
      /\ op' = [pc |-> "insert", key |-> miss, slot |-> s, hole |-> 0, pos |-> home[miss]]
  BY DEF Insert, Idle, IndexInv, TypeOK
<1>2. TypeOK'
  BY <1>1, SizeAssumption DEF IndexInv, TypeOK, Operations, Positions
<1>3. /\ \A p \in Positions : (Entry(p) <=> index[p] # NONE) /\ (Entry(p)' <=> index[p] # NONE)
      /\ \A z \in Slots : (Listed(z) <=> indexed[z]) /\ (Listed(z)' <=> indexed[z])
  BY <1>1 DEF Entry, Void, Listed
<1>4. \A z \in Slots : indexed[z] => key'[z] = key[z]
  BY <1>1 DEF IndexInv, TypeOK
<1>5. EntriesAreSlots'
  BY <1>1 DEF IndexInv, TypeOK, EntriesAreSlots, Entry, Void, Listed
<1>6. \A p \in Positions : index[p] # NONE => HomeOf(p)' = HomeOf(p)
  BY <1>1, <1>3, <1>4 DEF IndexInv, TypeOK, EntriesAreSlots, HomeOf
<1>7. NoGaps'
  BY <1>1, <1>3, <1>6 DEF IndexInv, NoGaps, Between, Distance
<1>8. KeysDiffer'
  BY <1>1, <1>4 DEF IndexInv, KeysDiffer
<1>9. HoleIsBehind' /\ LocalsOK' /\ FindIsExact' /\ EraseFindsItsEntry'
  BY <1>1 DEF IndexInv, TypeOK, HoleIsBehind, LocalsOK, FindIsExact, EraseFindsItsEntry
<1>10. Passed'
  <2>1. \A q \in Positions : ~(Distance(home[miss], q) < Distance(home[miss], home[miss]))
    BY <1>1, DistanceIsPosition DEF IndexInv, TypeOK
  <2> QED  BY <1>1, <2>1 DEF Passed, Distance
<1> QED  BY <1>2, <1>5, <1>7, <1>8, <1>9, <1>10 DEF IndexInv

\* One probe of an insertion: the row lands at the first free slot of its path.
LEMMA InsertStepKeeps ==
    ASSUME IndexInv, InsertStep
    PROVE  IndexInv'
<1>1. /\ op.pc = "insert" /\ UNCHANGED <<home, key>>
      /\ op \in Operations /\ op.key = miss /\ miss \in Keys /\ op.pos \in Positions
      /\ op.slot \in Slots /\ ~indexed[op.slot] /\ key[op.slot] = op.key /\ home[op.key] \in Positions
  BY DEF InsertStep, IndexInv, TypeOK, Operations, LocalsOK
<1>2. CASE index[op.pos] # NONE
  <2>1. op' = [op EXCEPT !.pos = NextPos(op.pos)] /\ NextPos(op.pos) \in Positions
        /\ UNCHANGED <<indexed, index, miss>>
    BY <1>1, <1>2, NextIsFurther DEF InsertStep
  <2>2. TypeOK' /\ op'.pc = "insert" /\ op'.key = op.key /\ op'.slot = op.slot /\ op'.pos = NextPos(op.pos)
    BY <1>1, <2>1 DEF IndexInv, TypeOK, Operations
  <2>3. EntriesAreSlots' /\ NoGaps' /\ HoleIsBehind'
    BY <1>1, <2>1, <2>2, Frame
  <2>4. KeysDiffer' /\ LocalsOK' /\ FindIsExact' /\ EraseFindsItsEntry'
    BY <1>1, <2>1, <2>2 DEF IndexInv, KeysDiffer, LocalsOK, FindIsExact, EraseFindsItsEntry
  <2>5. ASSUME NEW q \in Positions, Distance(home[op.key], q) < Distance(home[op.key], NextPos(op.pos))
        PROVE  index[q] # NONE
    <3>1. Distance(home[op.key], q) < Distance(home[op.key], op.pos) \/ q = op.pos
      BY <1>1, <2>5, NextIsFurther, DistanceIsPosition, DistanceIsInjective
    <3> QED  BY <1>1, <1>2, <3>1 DEF IndexInv, Passed
  <2>6. Passed'
    BY <1>1, <2>1, <2>2, <2>5 DEF Passed, Distance
  <2> QED  BY <2>2, <2>3, <2>4, <2>6 DEF IndexInv
<1>3. CASE index[op.pos] = NONE
  <2>1. /\ index' = [index EXCEPT ![op.pos] = op.slot]
        /\ indexed' = [indexed EXCEPT ![op.slot] = TRUE]
        /\ miss' = NONE /\ op' = Idle
    BY <1>3 DEF InsertStep
  <2>2. TypeOK' /\ op'.pc = "idle"
    BY <1>1, <2>1, SizeAssumption DEF IndexInv, TypeOK, Operations, Idle, Positions
  <2>3. /\ \A p \in Positions : (Entry(p) <=> index[p] # NONE) /\ (Entry(p)' <=> index'[p] # NONE)
        /\ \A z \in Slots : (Listed(z) <=> indexed[z]) /\ (Listed(z)' <=> indexed'[z])
    BY <1>1, <2>2 DEF Entry, Void, Listed
  <2>4. /\ index'[op.pos] = op.slot /\ op.slot # NONE
        /\ \A p \in Positions \ {op.pos} : index'[p] = index[p]
        /\ indexed'[op.slot]
        /\ \A z \in Slots \ {op.slot} : indexed'[z] = indexed[z]
    <3>1. op.slot # NONE
      BY <1>1, SizeAssumption DEF Slots, NONE
    <3> QED  BY <1>1, <2>1, <3>1 DEF IndexInv, TypeOK
  <2>5. EntriesAreSlots'
    <3>1. \A p \in Positions : index[p] # NONE => index[p] \in Slots /\ indexed[index[p]]
      BY <2>3 DEF IndexInv, TypeOK, EntriesAreSlots
    <3>2. \A p \in Positions : index'[p] # NONE => index'[p] \in Slots /\ indexed'[index'[p]]
      BY <1>1, <2>4, <3>1
    <3>3. \A p, q \in Positions : index'[p] # NONE /\ index'[p] = index'[q] => p = q
      BY <1>1, <2>3, <2>4, <3>1 DEF IndexInv, EntriesAreSlots
    <3>4. \A z \in Slots : indexed'[z] => \E p \in Positions : index'[p] # NONE /\ index'[p] = z
      BY <1>1, <1>3, <2>3, <2>4 DEF IndexInv, EntriesAreSlots
    <3> QED  BY <2>2, <3>2, <3>3, <3>4 DEF EntriesAreSlots, Entry, Void, Listed
  <2>6. KeysDiffer'
    <3>1. \A z \in Slots : indexed[z] => key[z] # op.key
      BY <1>1, KeyAssumption DEF IndexInv, KeysDiffer
    <3> QED  BY <1>1, <2>1, <2>4, <3>1 DEF IndexInv, KeysDiffer
  <2>7. ASSUME NEW p \in Positions, NEW q \in Positions, Entry(p)', Between(HomeOf(p), q, p)'
        PROVE  index'[q] # NONE
    <3>1. CASE p = op.pos
      <4>1. Distance(home[op.key], q) <= Distance(home[op.key], op.pos)
        BY <1>1, <2>4, <2>7, <3>1 DEF HomeOf, Between, Distance
      <4>2. q = op.pos \/ Distance(home[op.key], q) < Distance(home[op.key], op.pos)
        BY <1>1, <4>1, DistanceIsPosition, DistanceIsInjective
      <4>3. q = op.pos \/ index[q] # NONE
        BY <1>1, <4>2 DEF IndexInv, Passed
      <4> QED  BY <2>4, <4>3
    <3>2. CASE p # op.pos
      <4>1. Entry(p) /\ Between(HomeOf(p), q, p)
        BY <1>1, <2>3, <2>4, <2>7, <3>2 DEF HomeOf, Between, Distance
      <4>2. index[q] # NONE
        BY <4>1 DEF IndexInv, NoGaps
      <4> QED  BY <2>4, <4>2
    <3> QED  BY <3>1, <3>2
  <2>8. NoGaps'
    BY <2>7 DEF NoGaps
  <2>9. HoleIsBehind' /\ Passed' /\ LocalsOK' /\ FindIsExact' /\ EraseFindsItsEntry'
    BY <2>2 DEF HoleIsBehind, Passed, LocalsOK, FindIsExact, EraseFindsItsEntry
  <2> QED  BY <2>2, <2>5, <2>6, <2>8, <2>9 DEF IndexInv
<1> QED  BY <1>2, <1>3

\* The argument of EraseFindsItsEntry, for any position that index_erase has got to.
LEMMA SeekIsSafe ==
    ASSUME IndexInv, NEW s \in Slots, indexed[s], op.pc # "shift", NEW at \in Positions,
           \A q \in Positions : Distance(home[key[s]], q) < Distance(home[key[s]], at) => index[q] # s
    PROVE  /\ index[at] # NONE
           /\ Names(at, key[s]) => index[at] = s
<1>1. home[key[s]] \in Positions
  BY DEF IndexInv, TypeOK
<1>2. PICK p \in Positions : Entry(p) /\ index[p] = s
  BY NoHole DEF IndexInv, EntriesAreSlots
<1>3. Distance(home[key[s]], at) <= Distance(home[key[s]], p)
  BY <1>1, <1>2, DistanceIsPosition
<1>4. index[at] # NONE
  BY <1>2, <1>3 DEF IndexInv, NoGaps, Between, HomeOf
<1>5. index[at] \in Slots /\ indexed[index[at]]
  BY <1>4, NoHole DEF IndexInv, TypeOK, EntriesAreSlots
<1> QED  BY <1>4, <1>5 DEF IndexInv, KeysDiffer, Names

\* Starting an erasure keeps the invariant.
LEMMA EraseKeeps ==
    ASSUME IndexInv, NEW s \in Slots, Erase(s)
    PROVE  IndexInv'
<1>1. /\ op.pc = "idle" /\ indexed[s] /\ UNCHANGED <<home, key, indexed, index, miss>>
      /\ op' = [pc |-> "seek", key |-> key[s], slot |-> s, hole |-> home[key[s]], pos |-> 0]
      /\ home[key[s]] \in Positions
  BY DEF Erase, Idle, IndexInv, TypeOK
<1>2. TypeOK'
  BY <1>1, SizeAssumption DEF IndexInv, TypeOK, Operations, Positions
<1>3. EntriesAreSlots' /\ NoGaps' /\ HoleIsBehind'
  BY <1>1, Frame
<1>4. KeysDiffer' /\ LocalsOK' /\ FindIsExact'
  BY <1>1 DEF IndexInv, KeysDiffer, LocalsOK, FindIsExact
<1>5. \A q \in Positions : ~(Distance(home[key[s]], q) < Distance(home[key[s]], home[key[s]]))
  BY <1>1, DistanceIsPosition
<1>6. Passed'
  BY <1>1, <1>5 DEF Passed, Distance
<1>7. EraseFindsItsEntry'
  BY <1>1, <1>5, SeekIsSafe DEF EraseFindsItsEntry, Names
<1> QED  BY <1>2, <1>3, <1>4, <1>6, <1>7 DEF IndexInv

\* One probe of an erasure that looks for the entry: the slot just passed is occupied.
LEMMA SeekStepKeeps ==
    ASSUME IndexInv, SeekStep
    PROVE  IndexInv'
<1>1. /\ op.pc = "seek" /\ UNCHANGED <<home, key, indexed, index, miss>>
      /\ op \in Operations /\ op.slot \in Slots /\ indexed[op.slot] /\ key[op.slot] = op.key
      /\ op.hole \in Positions /\ home[op.key] \in Positions
      /\ NextPos(op.hole) \in Positions
  BY NextIsFurther DEF SeekStep, IndexInv, TypeOK, Operations, LocalsOK
<1>2. index[op.hole] # NONE /\ (Names(op.hole, op.key) => index[op.hole] = op.slot)
  BY <1>1 DEF IndexInv, EraseFindsItsEntry
<1>3. CASE Names(op.hole, op.key)
  <2>1. op' = [op EXCEPT !.pc = "shift", !.pos = NextPos(op.hole)]
    BY <1>3 DEF SeekStep
  <2>2. /\ TypeOK' /\ op'.pc = "shift" /\ op'.key = op.key /\ op'.slot = op.slot /\ op'.hole = op.hole
        /\ op'.pos = NextPos(op.hole)
    BY <1>1, <2>1 DEF IndexInv, TypeOK, Operations
  <2>3. /\ \A p \in Positions : (Entry(p) <=> index[p] # NONE)
                                 /\ (Entry(p)' <=> index[p] # NONE /\ p # op.hole)
        /\ \A z \in Slots : (Listed(z) <=> indexed[z]) /\ (Listed(z)' <=> indexed[z] /\ z # op.slot)
    BY <1>1, <2>2 DEF Entry, Void, Listed
  <2>4. EntriesAreSlots'
    <3>1. \A p \in Positions : index[p] # NONE => index[p] \in Slots /\ indexed[index[p]]
      BY <2>3 DEF IndexInv, TypeOK, EntriesAreSlots
    <3>2. index[op.hole] = op.slot
      BY <1>2, <1>3
    <3>3. \A p \in Positions : index[p] # NONE /\ p # op.hole => index[p] # op.slot
      BY <1>1, <1>2, <2>3, <3>2 DEF IndexInv, EntriesAreSlots
    <3>4. \A p, q \in Positions : index[p] # NONE /\ index[p] = index[q] => p = q
      BY <2>3 DEF IndexInv, EntriesAreSlots
    <3>5. \A z \in Slots : indexed[z] => \E p \in Positions : index[p] # NONE /\ index[p] = z
      BY <2>3 DEF IndexInv, EntriesAreSlots
    <3>6. \A z \in Slots : indexed[z] /\ z # op.slot =>
                            \E p \in Positions : index[p] # NONE /\ p # op.hole /\ index[p] = z
      BY <3>2, <3>5
    <3> QED  BY <1>1, <2>2, <3>1, <3>3, <3>4, <3>6 DEF EntriesAreSlots, Entry, Void, Listed
  <2>5. NoGaps'
    BY <1>1, <2>3 DEF IndexInv, NoGaps, HomeOf, Between, Distance
  <2>6. KeysDiffer' /\ LocalsOK' /\ FindIsExact' /\ EraseFindsItsEntry' /\ Passed'
    BY <1>1, <2>2 DEF IndexInv, KeysDiffer, LocalsOK, FindIsExact, EraseFindsItsEntry, Passed
  <2>7. Distance(op.hole, NextPos(op.hole)) = 1 /\ NextPos(op.hole) # op.hole
    BY <1>1, NextIsFurther, DistanceIsPosition
  <2>8. \A q \in Positions : Distance(op.hole, q) < 1 <=> q = op.hole
    BY <1>1, DistanceIsPosition
  <2>9. \A q \in Positions : q # op.hole => 1 <= Distance(op.hole, q)
    BY <1>1, DistanceIsPosition
  <2>10. HoleIsBehind'
    BY <1>1, <1>2, <2>2, <2>3, <2>7, <2>8, <2>9 DEF HoleIsBehind, Distance
  <2> QED  BY <2>2, <2>4, <2>5, <2>6, <2>10 DEF IndexInv
<1>4. CASE ~Names(op.hole, op.key)
  <2>1. op' = [op EXCEPT !.hole = NextPos(op.hole)]
    BY <1>4 DEF SeekStep
  <2>2. /\ TypeOK' /\ op'.pc = "seek" /\ op'.key = op.key /\ op'.slot = op.slot
        /\ op'.hole = NextPos(op.hole)
    BY <1>1, <2>1 DEF IndexInv, TypeOK, Operations
  <2>3. EntriesAreSlots' /\ NoGaps' /\ HoleIsBehind'
    BY <1>1, <2>2, Frame
  <2>4. KeysDiffer' /\ LocalsOK' /\ FindIsExact'
    BY <1>1, <2>2 DEF IndexInv, KeysDiffer, LocalsOK, FindIsExact
  <2>5. ASSUME NEW q \in Positions, Distance(home[op.key], q) < Distance(home[op.key], NextPos(op.hole))
        PROVE  index[q] # op.slot
    <3>1. Distance(home[op.key], q) < Distance(home[op.key], op.hole) \/ q = op.hole
      BY <1>1, <2>5, NextIsFurther, DistanceIsPosition, DistanceIsInjective
    <3>2. index[op.hole] # op.slot
      BY <1>1, <1>4 DEF Names
    <3> QED  BY <1>1, <3>1, <3>2 DEF IndexInv, Passed
  <2>6. Passed'
    BY <1>1, <2>2, <2>5 DEF Passed, Distance
  <2>7. EraseFindsItsEntry'
    BY <1>1, <2>2, <2>5, SeekIsSafe DEF EraseFindsItsEntry, Names
  <2> QED  BY <2>2, <2>3, <2>4, <2>6, <2>7 DEF IndexInv
<1> QED  BY <1>3, <1>4

\* The facts the three cases of ShiftStep share.
LEMMA ShiftFacts ==
    ASSUME IndexInv, op.pc = "shift"
    PROVE  /\ op \in Operations /\ op.slot \in Slots /\ indexed[op.slot] /\ key[op.slot] = op.key
           /\ op.hole \in Positions /\ op.pos \in Positions /\ NextPos(op.pos) \in Positions
           /\ op.pos # op.hole /\ index[op.hole] # NONE
           /\ \A p \in Positions : Entry(p) <=> index[p] # NONE /\ p # op.hole
           /\ \A z \in Slots : Listed(z) <=> indexed[z] /\ z # op.slot
           /\ \A p \in Positions : Entry(p) => index[p] \in Slots /\ HomeOf(p) \in Positions
<1>1. /\ op \in Operations /\ op.slot \in Slots /\ indexed[op.slot] /\ key[op.slot] = op.key
      /\ op.hole \in Positions /\ op.pos \in Positions
      /\ op.pos # op.hole /\ index[op.hole] # NONE
  BY DEF IndexInv, TypeOK, Operations, LocalsOK, HoleIsBehind
<1>2. NextPos(op.pos) \in Positions
  BY <1>1, NextIsFurther
<1>3. /\ \A p \in Positions : Entry(p) <=> index[p] # NONE /\ p # op.hole
      /\ \A z \in Slots : Listed(z) <=> indexed[z] /\ z # op.slot
  BY DEF Entry, Void, Listed
<1>4. \A p \in Positions : Entry(p) => index[p] \in Slots /\ HomeOf(p) \in Positions
  BY DEF IndexInv, TypeOK, Entry, HomeOf
<1> QED  BY <1>1, <1>2, <1>3, <1>4

\* The deletion ends: the hole becomes empty.
LEMMA CloseKeeps ==
    ASSUME IndexInv, ShiftStep, index[op.pos] = NONE
    PROVE  IndexInv'
<1>1. /\ op.pc = "shift" /\ UNCHANGED <<home, key, miss>> /\ op' = Idle
      /\ index' = [index EXCEPT ![op.hole] = NONE]
      /\ indexed' = [indexed EXCEPT ![op.slot] = FALSE]
  BY DEF ShiftStep
<1>2. TypeOK' /\ op'.pc = "idle"
  <2>1. op' \in Operations /\ op'.pc = "idle"
    BY <1>1, SizeAssumption DEF Operations, Idle, Positions
  <2> QED  BY <1>1, <2>1, ShiftFacts DEF IndexInv, TypeOK
<1>3. /\ index'[op.hole] = NONE
      /\ \A p \in Positions \ {op.hole} : index'[p] = index[p]
      /\ ~indexed'[op.slot]
      /\ \A z \in Slots \ {op.slot} : indexed'[z] = indexed[z]
  BY <1>1, ShiftFacts DEF IndexInv, TypeOK
<1>4. EntriesAreSlots'
  <2>1. \A p \in Positions : index'[p] # NONE => Entry(p) /\ index'[p] = index[p]
    BY <1>1, <1>3, ShiftFacts
  <2>2. \A p \in Positions : index'[p] # NONE => index'[p] \in Slots /\ indexed'[index'[p]]
    BY <1>1, <1>3, <2>1, ShiftFacts DEF IndexInv, EntriesAreSlots
  <2>3. \A p, q \in Positions : index'[p] # NONE /\ index'[p] = index'[q] => p = q
    BY <2>1 DEF IndexInv, EntriesAreSlots
  <2>4. \A z \in Slots : indexed'[z] => \E p \in Positions : index'[p] # NONE /\ index'[p] = z
    BY <1>1, <1>3, ShiftFacts DEF IndexInv, EntriesAreSlots
  <2> QED  BY <1>2, <2>2, <2>3, <2>4 DEF EntriesAreSlots, Entry, Void, Listed
<1>5. KeysDiffer'
  BY <1>1, <1>3 DEF IndexInv, KeysDiffer
<1>6. ASSUME NEW p \in Positions, NEW q \in Positions, Entry(p)', Between(HomeOf(p), q, p)'
      PROVE  index'[q] # NONE
  <2>1. Entry(p) /\ index'[p] = index[p]
    BY <1>1, <1>2, <1>3, <1>6, ShiftFacts DEF Entry, Void
  <2>2. Between(HomeOf(p), q, p) /\ HomeOf(p) \in Positions
    BY <1>1, <1>6, <2>1, ShiftFacts DEF HomeOf, Between, Distance
  <2>3. index[q] # NONE
    BY <2>1, <2>2 DEF IndexInv, NoGaps
  <2>4. ASSUME q = op.hole PROVE FALSE
    <3>1. Distance(op.hole, op.pos) <= Distance(op.hole, p)
      BY <1>1, <2>1, <2>2, <2>4 DEF IndexInv, HoleIsBehind
    <3>2. Distance(HomeOf(p), op.pos) <= Distance(HomeOf(p), p)
      BY <1>1, <2>2, <2>4, <3>1, ShiftFacts, BetweenIsTransitive DEF Between
    <3> QED  BY <1>1, <2>1, <3>2, ShiftFacts DEF IndexInv, NoGaps, Between
  <2> QED  BY <1>3, <2>3, <2>4
<1>7. NoGaps'
  BY <1>6 DEF NoGaps
<1>8. HoleIsBehind' /\ Passed' /\ LocalsOK' /\ FindIsExact' /\ EraseFindsItsEntry'
  BY <1>2 DEF HoleIsBehind, Passed, LocalsOK, FindIsExact, EraseFindsItsEntry
<1> QED  BY <1>2, <1>4, <1>5, <1>7, <1>8 DEF IndexInv

\* An entry is moved back into the hole, and leaves the new hole behind.
LEMMA MoveKeeps ==
    ASSUME IndexInv, ShiftStep, index[op.pos] # NONE, MovesBack(op.pos, op.hole)
    PROVE  IndexInv'
<1>1. /\ op.pc = "shift" /\ UNCHANGED <<home, key, miss, indexed>>
      /\ index' = [index EXCEPT ![op.hole] = index[op.pos]]
      /\ op' = [op EXCEPT !.hole = op.pos, !.pos = NextPos(op.pos)]
  BY DEF ShiftStep
<1>2. /\ TypeOK' /\ op'.pc = "shift" /\ op'.key = op.key /\ op'.slot = op.slot /\ op'.hole = op.pos
      /\ op'.pos = NextPos(op.pos)
  BY <1>1, ShiftFacts DEF IndexInv, TypeOK, Operations
<1>3. /\ index'[op.hole] = index[op.pos]
      /\ \A p \in Positions \ {op.hole} : index'[p] = index[p]
  BY <1>1, ShiftFacts DEF IndexInv, TypeOK
<1>4. Entry(op.pos)
  BY <1>1, ShiftFacts
<1>5. \A p \in Positions : Entry(p)' <=> index'[p] # NONE /\ p # op.pos
  BY <1>2 DEF Entry, Void
<1>6. EntriesAreSlots'
  <2>1. \A p \in Positions : index'[p] # NONE /\ p # op.pos => index'[p] \in Slots /\ indexed[index'[p]]
                                                               /\ index'[p] # op.slot
    BY <1>1, <1>3, <1>4, ShiftFacts DEF IndexInv, EntriesAreSlots
  <2>2. \A p, q \in Positions : index'[p] # NONE /\ p # op.pos /\ q # op.pos /\ index'[p] = index'[q] => p = q
    BY <1>1, <1>3, <1>4, ShiftFacts DEF IndexInv, EntriesAreSlots
  <2>3. \A z \in Slots : indexed[z] /\ z # op.slot =>
                          \E p \in Positions : index'[p] # NONE /\ p # op.pos /\ index'[p] = z
    <3> SUFFICES ASSUME NEW z \in Slots, indexed[z], z # op.slot
                 PROVE  \E p \in Positions : index'[p] # NONE /\ p # op.pos /\ index'[p] = z
      OBVIOUS
    <3>1. PICK p \in Positions : Entry(p) /\ index[p] = z
      BY <1>1, ShiftFacts DEF IndexInv, EntriesAreSlots
    <3>2. CASE p = op.pos
      BY <1>1, <1>3, <3>1, <3>2, ShiftFacts
    <3>3. CASE p # op.pos
      BY <1>1, <1>3, <3>1, <3>3, ShiftFacts
    <3> QED  BY <3>2, <3>3
  <2> QED  BY <1>1, <1>2, <2>1, <2>2, <2>3 DEF EntriesAreSlots, Entry, Void, Listed
<1>7. ASSUME NEW p \in Positions, NEW q \in Positions, Entry(p)', Between(HomeOf(p), q, p)'
      PROVE  index'[q] # NONE
  <2>1. CASE p = op.hole
    <3> DEFINE h == HomeOf(op.pos)
    <3>1. h \in Positions
      BY <1>1, <1>4, ShiftFacts
    <3>2. Distance(h, q) <= Distance(h, op.hole)
      BY <1>1, <1>3, <1>7, <2>1 DEF HomeOf, Between, Distance
    <3>3. Distance(h, op.hole) <= Distance(h, op.pos)
      BY <1>1, <3>1, MovesBackMeansBetween, ShiftFacts DEF MovesBack, HomeOf
    <3>4. Distance(h, q) <= Distance(h, op.pos)
      BY <1>1, <3>1, <3>2, <3>3, DistanceIsPosition, ShiftFacts
    <3>5. index[q] # NONE
      BY <1>1, <1>4, <3>4, ShiftFacts DEF IndexInv, NoGaps, Between
    <3> QED  BY <1>3, <3>5
  <2>2. CASE p # op.hole
    <3>1. Entry(p) /\ Between(HomeOf(p), q, p)
      BY <1>1, <1>3, <1>5, <1>7, <2>2, ShiftFacts DEF HomeOf, Between, Distance
    <3>2. index[q] # NONE
      BY <3>1 DEF IndexInv, NoGaps
    <3> QED  BY <1>3, <3>2
  <2> QED  BY <2>1, <2>2
<1>8. NoGaps'
  BY <1>7 DEF NoGaps
<1>9. HoleIsBehind'
  <2>1. Distance(op.pos, NextPos(op.pos)) = 1 /\ NextPos(op.pos) # op.pos
    BY <1>1, NextIsFurther, DistanceIsPosition, ShiftFacts
  <2>2. \A q \in Positions : (Distance(op.pos, q) < 1 <=> q = op.pos) /\ (q # op.pos => 1 <= Distance(op.pos, q))
    BY <1>1, DistanceIsPosition, ShiftFacts
  <2>3. index'[op.pos] # NONE
    BY <1>1, <1>3, ShiftFacts
  <2> QED  BY <1>2, <1>5, <2>1, <2>2, <2>3 DEF HoleIsBehind, Distance
<1>10. KeysDiffer' /\ Passed' /\ LocalsOK' /\ FindIsExact' /\ EraseFindsItsEntry'
  BY <1>1, <1>2 DEF IndexInv, KeysDiffer, Passed, LocalsOK, FindIsExact, EraseFindsItsEntry
<1> QED  BY <1>2, <1>6, <1>8, <1>9, <1>10 DEF IndexInv

\* An entry that has its home behind the hole stays.
LEMMA StayKeeps ==
    ASSUME IndexInv, ShiftStep, index[op.pos] # NONE, ~MovesBack(op.pos, op.hole)
    PROVE  IndexInv'
<1>1. /\ op.pc = "shift" /\ UNCHANGED <<home, key, miss, indexed, index>>
      /\ op' = [op EXCEPT !.pos = NextPos(op.pos)]
  BY DEF ShiftStep
<1>2. /\ TypeOK' /\ op'.pc = "shift" /\ op'.key = op.key /\ op'.slot = op.slot /\ op'.hole = op.hole
      /\ op'.pos = NextPos(op.pos)
  BY <1>1, ShiftFacts DEF IndexInv, TypeOK, Operations
<1>3. EntriesAreSlots' /\ NoGaps'
  BY <1>1, <1>2 DEF IndexInv, EntriesAreSlots, NoGaps, Entry, Void, Listed, HomeOf, Between, Distance
<1>4. KeysDiffer' /\ Passed' /\ LocalsOK' /\ FindIsExact' /\ EraseFindsItsEntry'
  BY <1>1, <1>2 DEF IndexInv, KeysDiffer, Passed, LocalsOK, FindIsExact, EraseFindsItsEntry
<1>5. \A q \in Positions : Distance(op.hole, q) <= Distance(op.hole, op.pos) => index[q] # NONE
  <2>1. \A q \in Positions : Distance(op.hole, q) <= Distance(op.hole, op.pos) =>
                                q = op.pos \/ Distance(op.hole, q) < Distance(op.hole, op.pos)
    BY <1>1, DistanceIsPosition, DistanceIsInjective, ShiftFacts
  <2> QED  BY <1>1, <2>1 DEF IndexInv, HoleIsBehind
<1>6. NextPos(op.pos) # op.hole
  <2>1. PICK e \in Positions : index[e] = NONE
    BY SomeEntryIsEmpty DEF IndexInv
  <2>2. Distance(op.hole, op.pos) # IndexSize - 1
    BY <1>1, <1>5, <2>1, DistanceIsPosition, ShiftFacts, SizeAssumption
  <2> QED  BY <1>1, <2>2, NextIsFurther, ShiftFacts
<1>7. Distance(op.hole, NextPos(op.pos)) = Distance(op.hole, op.pos) + 1
  BY <1>1, <1>6, NextIsFurther, ShiftFacts
<1>8. \A q \in Positions : Distance(op.hole, q) < Distance(op.hole, NextPos(op.pos)) => index[q] # NONE
  BY <1>1, <1>5, <1>7, DistanceIsPosition, ShiftFacts
<1>9. ASSUME NEW p \in Positions, Entry(p), Between(HomeOf(p), op.hole, p)
      PROVE  Distance(op.hole, NextPos(op.pos)) <= Distance(op.hole, p)
  <2>1. Distance(op.hole, op.pos) <= Distance(op.hole, p)
    BY <1>1, <1>9 DEF IndexInv, HoleIsBehind
  <2>2. p # op.pos
    BY <1>1, <1>9, MovesBackMeansBetween, ShiftFacts DEF MovesBack, HomeOf, Between
  <2>3. Distance(op.hole, op.pos) # Distance(op.hole, p)
    BY <1>1, <2>2, DistanceIsInjective, ShiftFacts
  <2> QED  BY <1>1, <1>7, <2>1, <2>3, DistanceIsPosition, ShiftFacts
<1>10. HoleIsBehind'
  <2>1. op.hole \in Positions /\ index[op.hole] # NONE
    BY <1>1, ShiftFacts
  <2>2. \A p \in Positions : (index[p] # NONE /\ p # op.hole) /\ Distance(home[key[index[p]]], op.hole) <= Distance(home[key[index[p]]], p)
                             => Distance(op.hole, NextPos(op.pos)) <= Distance(op.hole, p)
    BY <1>1, <1>9, ShiftFacts DEF HomeOf, Between
  <2> QED  BY <1>1, <1>2, <1>6, <1>8, <2>1, <2>2 DEF HoleIsBehind, Entry, Void, HomeOf, Between, Distance
<1> QED  BY <1>2, <1>3, <1>4, <1>10 DEF IndexInv

\* Every step of the index keeps the invariant.
LEMMA NextKeepsIndex ==
    ASSUME IndexInv, [Next]_vars
    PROVE  IndexInv'
<1>1. CASE \E k \in Keys : Find(k)
  BY <1>1, FindKeeps
<1>2. CASE FindStep
  BY <1>2, FindStepKeeps
<1>3. CASE Answered \/ NoVictim
  BY <1>3, AnsweredKeeps
<1>4. CASE \E s \in Slots : Insert(s)
  BY <1>4, InsertKeeps
<1>5. CASE InsertStep
  BY <1>5, InsertStepKeeps
<1>6. CASE \E s \in Slots : Erase(s)
  BY <1>6, EraseKeeps
<1>7. CASE SeekStep
  BY <1>7, SeekStepKeeps
<1>8. CASE ShiftStep
  BY <1>8, CloseKeeps, MoveKeeps, StayKeeps
<1>9. CASE UNCHANGED vars
  BY <1>9 DEF vars, IndexInv, TypeOK, EntriesAreSlots, KeysDiffer, NoGaps, HoleIsBehind, Passed, LocalsOK,
              FindIsExact, EraseFindsItsEntry, Entry, Void, Listed, HomeOf, Between, Names, Distance
<1> QED  BY <1>1, <1>2, <1>3, <1>4, <1>5, <1>6, <1>7, <1>8, <1>9 DEF Next, Step

\* The index is well formed in every reachable state.
THEOREM IndexIsSound == Spec => []IndexInv
<1>1. Init => IndexInv
  BY InitKeepsIndex
<1>2. IndexInv /\ [Next]_vars => IndexInv'
  BY NextKeepsIndex
<1> QED  BY <1>1, <1>2, PTL DEF Spec

\* index_find answers exactly, for every hash function: the justification of the map that Table uses.
THEOREM FindIsSound == Spec => []FindIsExact
<1>1. IndexInv => FindIsExact
  BY DEF IndexInv
<1> QED  BY <1>1, IndexIsSound, PTL

\* index_erase never reads through an empty entry, and removes its own.
THEOREM EraseIsSafe == Spec => []EraseFindsItsEntry
<1>1. IndexInv => EraseFindsItsEntry
  BY DEF IndexInv
<1> QED  BY <1>1, IndexIsSound, PTL
=============================================================================
