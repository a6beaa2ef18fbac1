------------------------ MODULE SizeClassedTableProofs ------------------------
(***************************************************************************)
(* What a size-classed table promises, for every list of extents,          *)
(* alignment, chunk size, storage and share that Configs may hold, and for *)
(* every number of callers and rows asked for.                             *)
(*                                                                         *)
(* The first part is the arithmetic of one fill: the window of a row fits  *)
(* the slot that aligned_slot_bytes makes for it, holds the row, and takes *)
(* no more reads than the slot has claims for.  The second is the layout   *)
(* that create makes: the classes it finds, the shares and the slices of   *)
(* the storage they get.  The third is the invariant of the calls and the  *)
(* fills that run over that layout, and what follows from it.              *)
(***************************************************************************)
EXTENDS SizeClassedTableProperties, FiniteSetTheorems, WellFoundedInduction, TLAPS

\* The numbers above zero.
Positive == Nat \ {0}

-----------------------------------------------------------------------------
(* Division *)

\* n div a is the number of whole a's in n.
LEMMA DivBounds ==
    ASSUME NEW n \in Nat, NEW a \in Positive
    PROVE  /\ n \div a \in Nat
           /\ (n \div a) * a <= n
           /\ n < (n \div a) * a + a
BY SMT DEF Positive

\* It is the largest number of a's that fit.
LEMMA DivLargest ==
    ASSUME NEW n \in Nat, NEW a \in Positive, NEW m \in Int, m * a <= n
    PROVE  m <= n \div a
<1> DEFINE q == n \div a
<1>1. q \in Nat /\ n < q * a + a
      BY DivBounds
<1>2. SUFFICES ASSUME m >= q + 1 PROVE FALSE
      BY <1>1
<1>3. m * a >= (q + 1) * a
      BY <1>1, <1>2 DEF Positive
<1>4. (q + 1) * a = q * a + a
      BY <1>1 DEF Positive
<1>5. q * a \in Int /\ m * a \in Int
      BY <1>1 DEF Positive
<1> QED BY <1>1, <1>3, <1>4, <1>5 DEF Positive

\* Integer division by a positive number is monotone.
LEMMA DivMonotone ==
    ASSUME NEW n \in Nat, NEW m \in Nat, NEW a \in Positive, n <= m
    PROVE  n \div a <= m \div a
<1>1. (n \div a) * a <= n /\ n \div a \in Nat
      BY DivBounds
<1>2. (n \div a) * a \in Int
      BY <1>1 DEF Positive
<1>3. (n \div a) * a <= m
      BY <1>1, <1>2
<1> QED BY <1>1, <1>3, DivLargest

\* Rounding stays within one block.
LEMMA RoundDownBounds ==
    ASSUME NEW n \in Nat, NEW a \in Positive
    PROVE  RoundDown(n, a) \in Nat /\ RoundDown(n, a) <= n /\ n < RoundDown(n, a) + a
<1>1. (n \div a) * a \in Nat
      BY DivBounds DEF Positive
<1> QED BY <1>1, DivBounds DEF RoundDown

\* Rounding up to a multiple of a adds less than a.
LEMMA RoundUpBounds ==
    ASSUME NEW n \in Nat, NEW a \in Positive
    PROVE  RoundUp(n, a) \in Nat /\ n <= RoundUp(n, a) /\ RoundUp(n, a) <= n + a - 1
<1>1. n + a - 1 \in Nat
      BY DEF Positive
<1>2. RoundDown(n + a - 1, a) \in Nat /\ RoundDown(n + a - 1, a) <= n + a - 1
      /\ n + a - 1 < RoundDown(n + a - 1, a) + a
      BY <1>1, RoundDownBounds
<1> QED BY <1>2 DEF RoundUp, Positive

\* Rounding up to a block, less rounding down to one, is at most what the larger bound rounds down to.
LEMMA BlocksBetween ==
    ASSUME NEW m \in Nat, NEW n \in Nat, NEW k \in Nat, NEW a \in Positive,
           RoundUp(n, a) - RoundDown(m, a) <= k
    PROVE  RoundUp(n, a) - RoundDown(m, a) <= RoundDown(k, a)
<1> DEFINE p == m \div a
           q == (n + a - 1) \div a
           r == k \div a
<1>1. n + a - 1 \in Nat
      BY DEF Positive
<1>2. p \in Nat /\ q \in Nat /\ r \in Nat
      BY <1>1, DivBounds
<1>3. q * a - p * a = (q - p) * a
      BY <1>2 DEF Positive
<1>4. (q - p) * a <= k
      BY <1>3 DEF RoundUp, RoundDown
<1>5. q - p <= r
      BY <1>2, <1>4, DivLargest
<1>6. (q - p) * a <= r * a
      BY <1>2, <1>5 DEF Positive
<1> QED BY <1>3, <1>6 DEF RoundUp, RoundDown

-----------------------------------------------------------------------------
(* The window of a row *)

\* Whatever block boundaries a row straddles and wherever its source ends, the bytes read for it hold the
\* row, lie within the source, and fit the slot of an identity table: aligned_slot_bytes is wide enough.
THEOREM WindowFitsSlot ==
    ASSUME NEW offset \in Nat, NEW width \in Positive, NEW alignment \in Nat, NEW source \in Nat,
           offset + width <= source
    PROVE  /\ WindowFrom(offset, alignment) \in Nat
           /\ WindowFrom(offset, alignment) <= offset
           /\ WindowTo(offset, width, alignment, source) \in Nat
           /\ offset + width <= WindowTo(offset, width, alignment, source)
           /\ WindowTo(offset, width, alignment, source) <= source
           /\ WindowTo(offset, width, alignment, source) - WindowFrom(offset, alignment)
                <= SlotFor(width, alignment)
<1>1. CASE alignment = 0
      BY <1>1 DEF WindowFrom, WindowTo, SlotFor, Positive
<1>2. CASE alignment # 0
  <2>a. alignment \in Positive /\ offset + width \in Nat
        BY <1>2 DEF Positive
  <2> DEFINE from == RoundDown(offset, alignment)
             up == RoundUp(offset + width, alignment)
  <2>1. from \in Nat /\ from <= offset /\ offset < from + alignment
        BY <2>a, RoundDownBounds
  <2>2. up \in Nat /\ offset + width <= up /\ up <= offset + width + alignment - 1
        BY <2>a, RoundUpBounds
  <2>3. up - from <= width + 2 * alignment - 2 /\ width + 2 * alignment - 2 \in Nat
        BY <2>a, <2>1, <2>2 DEF Positive
  <2>4. up - from <= RoundDown(width + 2 * alignment - 2, alignment)
        BY <2>a, <2>3, BlocksBetween
  <2>5. /\ WindowFrom(offset, alignment) = from
        /\ SlotFor(width, alignment) = RoundDown(width + 2 * alignment - 2, alignment)
        BY <1>2 DEF WindowFrom, SlotFor, AlignedSlot
  <2>6. WindowTo(offset, width, alignment, source) = Lesser(up, source)
        BY <1>2 DEF WindowTo
  <2>7. Lesser(up, source) \in Nat /\ Lesser(up, source) <= up /\ Lesser(up, source) <= source
        /\ offset + width <= Lesser(up, source)
        BY <2>2 DEF Lesser
  <2>8. RoundDown(width + 2 * alignment - 2, alignment) \in Nat
        BY <2>a, <2>3, RoundDownBounds
  <2> HIDE DEF from, up
  <2> QED BY <2>1, <2>2, <2>4, <2>5, <2>6, <2>7, <2>8
<1> QED BY <1>1, <1>2

\* The row that a lease publishes, HeadOf bytes into the slot, lies within what was read.
COROLLARY RowWithinSlot ==
    ASSUME NEW offset \in Nat, NEW width \in Positive, NEW alignment \in Nat, NEW source \in Nat,
           offset + width <= source
    PROVE  /\ HeadOf(offset, alignment) \in Nat
           /\ HeadOf(offset, alignment) + width <= SlotFor(width, alignment)
<1>1. SlotFor(width, alignment) \in Int
  <2>1. CASE alignment = 0
        BY <2>1 DEF SlotFor, Positive
  <2>2. CASE alignment # 0
    <3>1. width + 2 * alignment - 2 \in Nat /\ alignment \in Positive
          BY <2>2 DEF Positive
    <3>2. RoundDown(width + 2 * alignment - 2, alignment) \in Nat
          BY <3>1, RoundDownBounds
    <3> QED BY <2>2, <3>2 DEF SlotFor, AlignedSlot
  <2> QED BY <2>1, <2>2
<1> DEFINE from == WindowFrom(offset, alignment)
           to == WindowTo(offset, width, alignment, source)
<1>2. /\ from \in Nat /\ from <= offset /\ to \in Nat /\ offset + width <= to
      /\ to - from <= SlotFor(width, alignment)
      BY WindowFitsSlot
<1>3. HeadOf(offset, alignment) = offset - from
      BY DEF HeadOf
<1> HIDE DEF from, to
<1> QED BY <1>1, <1>2, <1>3 DEF Positive

-----------------------------------------------------------------------------
(* The reads of a window *)

\* A range of one block needs exactly one block.
LEMMA OneRead ==
    ASSUME NEW b \in Positive
    PROVE  (b + b - 1) \div b = 1
<1> DEFINE q == (b + b - 1) \div b
<1>1. b + b - 1 \in Nat
      BY DEF Positive
<1>2. q \in Nat /\ q * b <= b + b - 1
      BY <1>1, DivBounds
<1>3. 1 <= q
      BY <1>1, DivLargest DEF Positive
<1>4. q < 2
  <2>1. SUFFICES ASSUME 2 <= q PROVE FALSE
        BY <1>2
  <2>2. 2 * b <= q * b /\ q * b \in Int
        BY <1>2, <2>1 DEF Positive
  <2> QED BY <1>2, <2>2 DEF Positive
<1> QED BY <1>2, <1>3, <1>4

\* A slot has a claim for every read of its row: chunk_claims[chunk_count++] in start_fill_locked stays
\* within the claims that the constructor made, however the window falls.
THEOREM ReadsFitClaims ==
    ASSUME NEW width \in Positive, NEW alignment \in Nat, NEW chunk \in Nat,
           NEW bytes \in Positive, bytes <= SlotFor(width, alignment), SlotFor(width, alignment) \in Nat
    PROVE  ReadCount(Step(width, alignment, chunk, bytes), bytes) <= ChunksPerRow(width, alignment, chunk)
<1> DEFINE fill == SlotFor(width, alignment)
           count == ChunksPerRow(width, alignment, chunk)
<1>1. CASE count > 1
  <2>1. chunk \in Positive /\ count = (fill + chunk - 1) \div chunk
        BY <1>1 DEF ChunksPerRow, Positive
  <2>2. Step(width, alignment, chunk, bytes) = chunk
        BY <1>1 DEF Step
  <2>3. bytes + chunk - 1 \in Nat /\ fill + chunk - 1 \in Nat /\ bytes + chunk - 1 <= fill + chunk - 1
        BY <2>1 DEF Positive
  <2> HIDE DEF fill
  <2> QED BY <2>1, <2>2, <2>3, DivMonotone DEF ReadCount
<1>2. CASE ~(count > 1)
  <2>1. Step(width, alignment, chunk, bytes) = bytes
        BY <1>2 DEF Step
  <2>2. ReadCount(bytes, bytes) = 1
        BY OneRead DEF ReadCount
  <2>3. count \in Nat /\ count >= 1
    <3>1. CASE chunk # 0 /\ chunk < fill
      <4>1. count = (fill + chunk - 1) \div chunk /\ chunk \in Positive
            BY <3>1 DEF ChunksPerRow, Positive
      <4>2. fill + chunk - 1 \in Nat /\ 1 * chunk <= fill + chunk - 1
            BY <3>1, <4>1 DEF Positive
      <4> HIDE DEF fill, count
      <4> QED BY <4>1, <4>2, DivLargest, DivBounds
    <3>2. CASE ~(chunk # 0 /\ chunk < fill)
          BY <3>2 DEF ChunksPerRow
    <3> QED BY <3>1, <3>2
  <2> QED BY <2>1, <2>2, <2>3
<1> QED BY <1>1, <1>2

\* The reads of start_fill_locked cover the window: every byte of it is within the read its number says, the
\* last read, which may be shorter, included.
THEOREM ReadsCoverWindow ==
    ASSUME NEW step \in Positive, NEW bytes \in Positive, NEW b \in 0 .. bytes - 1
    PROVE  LET n == b \div step + 1 IN
           /\ n \in 1 .. ReadCount(step, bytes)
           /\ (n - 1) * step <= b
           /\ b < (n - 1) * step + Lesser(step, bytes - (n - 1) * step)
<1> DEFINE q == b \div step
<1>1. b \in Nat /\ bytes + step - 1 \in Nat
      BY DEF Positive
<1>2. q \in Nat /\ q * step <= b /\ b < q * step + step /\ q * step \in Int
      BY <1>1, DivBounds DEF Positive
<1>3. (q + 1) * step = q * step + step
      BY <1>2 DEF Positive
<1>4. (q + 1) * step <= bytes + step - 1
      BY <1>2, <1>3 DEF Positive
<1>5. q + 1 <= (bytes + step - 1) \div step /\ (bytes + step - 1) \div step \in Nat
      BY <1>1, <1>2, <1>4, DivLargest, DivBounds
<1> HIDE DEF q
<1>6. q + 1 \in 1 .. ReadCount(step, bytes)
      BY <1>2, <1>5 DEF ReadCount
<1>7. (q + 1) - 1 = q
      BY <1>2
<1>8. b < q * step + Lesser(step, bytes - q * step)
      BY <1>2 DEF Lesser, Positive
<1> QED BY <1>2, <1>6, <1>7, <1>8 DEF q

-----------------------------------------------------------------------------
(* Induction over numbers and over finite sets *)

\* A set of numbers that is not empty has a least element.
LEMMA LeastNat ==
    ASSUME NEW T, T \subseteq Nat, T # {}
    PROVE  \E n \in T : \A m \in T : n <= m
<1>1. PICK R : R = OpToRel(<, Nat)
      BY Zenon
<1>2. \A x, y \in Nat : x < y <=> <<x, y>> \in R
      BY <1>1 DEF OpToRel
<1>3. IsWellFoundedOn(R, Nat)
      BY <1>1, NatLessThanWellFounded, Zenon
<1>4. PICK x \in T : \A y \in T : ~ (<<y, x>> \in R)
      BY <1>3, WFMin
<1>5. \A y \in T : ~(y < x)
      BY <1>2, <1>4
<1> QED BY <1>5

\* A set of numbers that holds n whenever it holds every number below n holds every number.
LEMMA NatInductive ==
    ASSUME NEW Good, \A n \in Nat : (\A m \in Nat : m < n => m \in Good) => n \in Good
    PROVE  Nat \subseteq Good
<1>1. PICK T : T = {n \in Nat : n \notin Good}
      OBVIOUS
<1>2. SUFFICES ASSUME T # {} PROVE FALSE
      BY <1>1
<1>3. PICK n \in T : \A m \in T : n <= m
      BY <1>1, <1>2, LeastNat
<1>4. n \in Nat /\ n \notin Good
      BY <1>1, <1>3
<1>5. \A m \in Nat : m < n => m \in Good
      BY <1>1, <1>3, <1>4
<1> QED BY <1>4, <1>5

\* A family that holds a set whenever it holds its proper subsets holds every subset of a finite set.
LEMMA SetInductive ==
    ASSUME NEW S, IsFiniteSet(S), NEW Good,
           \A U \in SUBSET S : (\A V \in SUBSET U : V # U => V \in Good) => U \in Good
    PROVE  \A U \in SUBSET S : U \in Good
<1>1. PICK bad : bad = {U \in SUBSET S : U \notin Good}
      OBVIOUS
<1>2. SUFFICES ASSUME bad # {} PROVE FALSE
      BY <1>1
<1>3. PICK T : T = {Cardinality(U) : U \in bad}
      OBVIOUS
<1>4. T \subseteq Nat /\ T # {}
  <2>1. \A U \in bad : Cardinality(U) \in Nat
        BY <1>1, FS_Subset, FS_CardinalityType
  <2> QED BY <1>2, <1>3, <2>1
<1>5. PICK n \in T : \A m \in T : n <= m
      BY <1>4, LeastNat
<1>6. PICK U \in bad : n = Cardinality(U)
      BY <1>3, <1>5
<1>7. U \in SUBSET S /\ U \notin Good /\ IsFiniteSet(U) /\ Cardinality(U) \in Nat
      BY <1>1, <1>6, FS_Subset, FS_CardinalityType
<1>8. ASSUME NEW V \in SUBSET U, V # U PROVE V \in Good
  <2>1. Cardinality(V) \in Nat /\ Cardinality(V) < Cardinality(U)
        BY <1>7, <1>8, FS_Subset, FS_CardinalityType
  <2>2. V \in SUBSET S
        BY <1>7
  <2>3. SUFFICES ASSUME V \in bad PROVE FALSE
        BY <1>1, <2>2
  <2>4. Cardinality(V) \in T
        BY <1>3, <2>3
  <2> QED BY <1>5, <1>6, <1>7, <2>1, <2>4
<1> QED BY <1>7, <1>8

-----------------------------------------------------------------------------
(* Sums over finite sets *)

\* The element that SumFunctionOnSet takes out of a set first.
PickOf(s) == CHOOSE x \in s : TRUE
\* f is the recursive function that SumFunctionOnSet applies.
Adds(f, g, D) == f = [s \in D |-> IF s = {} THEN 0 ELSE g[PickOf(s)] + f[s \ {PickOf(s)}]]

\* A set that is not empty has the element taken from it.
LEMMA PickOfIn ==
    ASSUME NEW s, s # {}
    PROVE  PickOf(s) \in s
BY DEF PickOf

\* SumFunctionOnSet is what that recursive function gives for the whole set.
LEMMA SumIs ==
    ASSUME NEW g, NEW S
    PROVE  SumFunctionOnSet(g, S) = (CHOOSE f : Adds(f, g, SUBSET S))[S]
BY DEF SumFunctionOnSet, FoldFunctionOnSet, MapThenFoldSet, Adds, PickOf

\* It exists: it is built up by the size of the sets.
LEMMA AddsExists ==
    ASSUME NEW g, NEW S, IsFiniteSet(S)
    PROVE  \E f : Adds(f, g, SUBSET S)
<1> DEFINE Upto(n) == {s \in SUBSET S : Cardinality(s) <= n}
<1>1. PICK Good : Good = {n \in Nat : \E f : Adds(f, g, Upto(n))}
      OBVIOUS
<1>2. \A s \in SUBSET S : IsFiniteSet(s) /\ Cardinality(s) \in Nat
      BY FS_Subset, FS_CardinalityType
<1>3. ASSUME NEW n \in Nat, \A m \in Nat : m < n => m \in Good PROVE n \in Good
  <2>1. CASE n = 0
    <3>1. \A s \in Upto(n) : s = {}
          BY <1>2, <2>1, FS_EmptySet
    <3>2. PICK f : f = [s \in Upto(n) |-> 0]
          OBVIOUS
    <3>3. f = [s \in Upto(n) |-> IF s = {} THEN 0 ELSE g[PickOf(s)] + f[s \ {PickOf(s)}]]
      <4> HIDE DEF Upto
      <4> QED BY <3>1, <3>2
    <3> QED BY <1>1, <3>3 DEF Adds
  <2>2. CASE n # 0
    <3>1. n - 1 \in Nat /\ n - 1 \in Good
          BY <1>3, <2>2
    <3>2. PICK f : Adds(f, g, Upto(n - 1))
          BY <1>1, <3>1
    <3>3. PICK h : h = [s \in Upto(n) |-> IF s \in Upto(n - 1) THEN f[s] ELSE g[PickOf(s)] + f[s \ {PickOf(s)}]]
          OBVIOUS
    <3>4. ASSUME NEW s \in Upto(n), s # {}
          PROVE  s \ {PickOf(s)} \in Upto(n - 1) /\ s \ {PickOf(s)} \in Upto(n)
      <4>1. PICK x : x = PickOf(s)
            OBVIOUS
      <4>2. x \in s
            BY <3>4, <4>1, PickOfIn
      <4>3. Cardinality(s \ {x}) = Cardinality(s) - 1 /\ Cardinality(s) <= n /\ Cardinality(s) \in Nat
            BY <1>2, <4>2, FS_RemoveElement
      <4> QED BY <4>1, <4>3, <3>1
    <3>5. {} \in Upto(n - 1)
      <4>1. Cardinality({}) <= n - 1
            BY <3>1, FS_EmptySet
      <4> QED BY <4>1
    <3>6. \A s \in Upto(n) : h[s] = IF s = {} THEN 0 ELSE g[PickOf(s)] + h[s \ {PickOf(s)}]
      <4> HIDE DEF Upto
      <4> QED BY <3>2, <3>3, <3>4, <3>5 DEF Adds
    <3>7. Adds(h, g, Upto(n))
      <4> HIDE DEF Upto
      <4> QED BY <3>3, <3>6 DEF Adds
    <3> QED BY <1>1, <3>7
  <2> QED BY <2>1, <2>2
<1>4. Cardinality(S) \in Good
  <2>1. Nat \subseteq Good
        BY <1>3, NatInductive
  <2> QED BY <1>2, <2>1
<1>5. Upto(Cardinality(S)) = SUBSET S
      BY FS_Subset
<1> HIDE DEF Upto
<1> QED BY <1>1, <1>4, <1>5

\* It is unique.
LEMMA AddsUnique ==
    ASSUME NEW g, NEW S, NEW T, IsFiniteSet(S), S \subseteq T, NEW f, NEW h,
           Adds(f, g, SUBSET S), Adds(h, g, SUBSET T)
    PROVE  \A U \in SUBSET S : f[U] = h[U]
<1>1. PICK Good : Good = {U \in SUBSET S : f[U] = h[U]}
      OBVIOUS
<1>2. ASSUME NEW U \in SUBSET S, \A V \in SUBSET U : V # U => V \in Good PROVE U \in Good
  <2>0. U \in SUBSET T
        OBVIOUS
  <2>1. CASE U = {}
    <3>1. f[U] = 0 /\ h[U] = 0
          BY <2>0, <2>1 DEF Adds
    <3> QED BY <1>1, <3>1
  <2>2. CASE U # {}
    <3>1. PICK x : x = PickOf(U)
          OBVIOUS
    <3>2. x \in U
          BY <2>2, <3>1, PickOfIn
    <3>3. f[U] = g[x] + f[U \ {x}] /\ h[U] = g[x] + h[U \ {x}]
          BY <2>0, <2>2, <3>1 DEF Adds
    <3>4. f[U \ {x}] = h[U \ {x}]
          BY <1>1, <1>2, <3>2
    <3> QED BY <1>1, <3>3, <3>4
  <2> QED BY <2>1, <2>2
<1>3. \A U \in SUBSET S : U \in Good
      BY <1>2, SetInductive
<1> QED BY <1>1, <1>3

\* SumFunctionOnSet follows its recursion.
LEMMA SumStep ==
    ASSUME NEW g, NEW S, IsFiniteSet(S)
    PROVE  IF S = {} THEN SumFunctionOnSet(g, S) = 0
           ELSE SumFunctionOnSet(g, S) = g[PickOf(S)] + SumFunctionOnSet(g, S \ {PickOf(S)})
<1>1. PICK f : f = (CHOOSE h : Adds(h, g, SUBSET S))
      OBVIOUS
<1>2. Adds(f, g, SUBSET S) /\ SumFunctionOnSet(g, S) = f[S]
      BY <1>1, AddsExists, SumIs
<1>3. CASE S = {}
      BY <1>2, <1>3 DEF Adds
<1>4. CASE S # {}
  <2>1. PICK U : U = S \ {PickOf(S)}
        OBVIOUS
  <2>2. IsFiniteSet(U) /\ U \subseteq S
        BY <2>1, FS_Subset
  <2>3. PICK k : k = (CHOOSE h : Adds(h, g, SUBSET U))
        OBVIOUS
  <2>4. Adds(k, g, SUBSET U) /\ SumFunctionOnSet(g, U) = k[U]
        BY <2>2, <2>3, AddsExists, SumIs
  <2>a. \A V \in SUBSET U : k[V] = f[V]
    <3>1. Adds(f, g, SUBSET S) /\ Adds(k, g, SUBSET U) /\ IsFiniteSet(U) /\ U \subseteq S
          BY <1>2, <2>2, <2>4
    <3> QED BY <3>1, AddsUnique, SMTT(30)
  <2>5. k[U] = f[U]
        BY <2>a
  <2>6. f[S] = g[PickOf(S)] + f[U]
        BY <1>2, <1>4, <2>1 DEF Adds
  <2> QED BY <1>2, <1>4, <2>1, <2>4, <2>5, <2>6
<1> QED BY <1>3, <1>4

\* The sum of numbers is a number, and any element can be taken off it.
LEMMA SumFacts ==
    ASSUME NEW S, IsFiniteSet(S), NEW g, \A x \in S : g[x] \in Nat
    PROVE  /\ SumFunctionOnSet(g, {}) = 0
           /\ \A U \in SUBSET S :
                /\ SumFunctionOnSet(g, U) \in Nat
                /\ \A x \in U : SumFunctionOnSet(g, U) = g[x] + SumFunctionOnSet(g, U \ {x})
<1>1. SumFunctionOnSet(g, {}) = 0
      BY FS_EmptySet, SumStep
<1>2. PICK sum : sum = [U \in SUBSET S |-> SumFunctionOnSet(g, U)]
      OBVIOUS
<1>3. \A U \in SUBSET S : SumFunctionOnSet(g, U) = sum[U]
      BY <1>2
<1>4. \A U \in SUBSET S : U # {} => PickOf(U) \in U /\ sum[U] = g[PickOf(U)] + sum[U \ {PickOf(U)}]
  <2>1. SUFFICES ASSUME NEW U \in SUBSET S, U # {} PROVE PickOf(U) \in U /\ sum[U] = g[PickOf(U)] + sum[U \ {PickOf(U)}]
        OBVIOUS
  <2>2. SumFunctionOnSet(g, U) = g[PickOf(U)] + SumFunctionOnSet(g, U \ {PickOf(U)})
        BY <2>1, FS_Subset, SumStep
  <2> QED BY <1>3, <2>1, <2>2, PickOfIn
<1>5. PICK Good : Good = {U \in SUBSET S : sum[U] \in Nat /\ \A x \in U : sum[U] = g[x] + sum[U \ {x}]}
      OBVIOUS
<1>6. ASSUME NEW U \in SUBSET S, \A V \in SUBSET U : V # U => V \in Good PROVE U \in Good
  <2>1. CASE U = {}
        BY <1>1, <1>3, <1>5, <2>1
  <2>2. CASE U # {}
    <3>1. PICK p : p = PickOf(U)
          OBVIOUS
    <3>2. p \in U /\ sum[U] = g[p] + sum[U \ {p}] /\ g[p] \in Nat
          BY <1>4, <2>2, <3>1
    <3>3. U \ {p} \in Good
          BY <1>6, <3>2
    <3>4. sum[U] \in Nat
          BY <1>5, <3>2, <3>3
    <3>5. ASSUME NEW x \in U, x # p PROVE sum[U] = g[x] + sum[U \ {x}]
      <4>1. U \ {x} \in Good
            BY <1>6
      <4>2. PICK W : W = (U \ {p}) \ {x}
            OBVIOUS
      <4>3. W = (U \ {x}) \ {p} /\ W \in Good
            BY <1>6, <3>2, <4>2
      <4>4. sum[U \ {p}] = g[x] + sum[W]
            BY <1>5, <3>3, <3>5, <4>2
      <4>5. sum[U \ {x}] = g[p] + sum[W]
            BY <1>5, <3>2, <3>5, <4>1, <4>3
      <4>6. sum[W] \in Nat /\ g[x] \in Nat
            BY <1>5, <4>3
      <4> QED BY <3>2, <4>4, <4>5, <4>6
    <3> QED BY <1>5, <3>2, <3>4, <3>5
  <2> QED BY <2>1, <2>2
<1>7. \A U \in SUBSET S : U \in Good
      BY <1>6, SetInductive
<1>8. ASSUME NEW U \in SUBSET S, NEW x \in U PROVE U \ {x} \in SUBSET S
      OBVIOUS
<1> QED BY <1>1, <1>3, <1>5, <1>7, <1>8

\* A larger set of numbers has no smaller sum.
LEMMA SumMonotone ==
    ASSUME NEW S, IsFiniteSet(S), NEW g, \A x \in S : g[x] \in Nat
    PROVE  \A U \in SUBSET S : \A V \in SUBSET U : SumFunctionOnSet(g, V) <= SumFunctionOnSet(g, U)
<1>1. PICK sum : sum = [U \in SUBSET S |-> SumFunctionOnSet(g, U)]
      OBVIOUS
<1>2. \A U \in SUBSET S : sum[U] \in Nat /\ \A x \in U : sum[U] = g[x] + sum[U \ {x}]
      BY <1>1, SumFacts
<1>3. PICK Good : Good = {U \in SUBSET S : \A V \in SUBSET U : sum[V] <= sum[U]}
      OBVIOUS
<1>4. ASSUME NEW U \in SUBSET S, \A V \in SUBSET U : V # U => V \in Good PROVE U \in Good
  <2>1. ASSUME NEW V \in SUBSET U, V # U PROVE sum[V] <= sum[U]
    <3>1. PICK x \in U : x \notin V
          BY <2>1
    <3>2. U \ {x} \in Good /\ V \in SUBSET (U \ {x})
          BY <1>4, <3>1
    <3>3. sum[V] <= sum[U \ {x}]
          BY <1>3, <3>2
    <3>4. sum[U] = g[x] + sum[U \ {x}] /\ sum[U \ {x}] \in Nat /\ g[x] \in Nat /\ sum[V] \in Nat
          BY <1>2
    <3> QED BY <3>3, <3>4
  <2>2. sum[U] <= sum[U]
        BY <1>2
  <2> QED BY <1>3, <2>1, <2>2
<1>5. \A U \in SUBSET S : U \in Good
      BY <1>4, SetInductive
<1>6. \A U \in SUBSET S : \A V \in SUBSET U : V \in SUBSET S
      OBVIOUS
<1> QED BY <1>1, <1>3, <1>5, <1>6

\* A sum of multiples of a is a multiple of a.
Multiples(a) == {m * a : m \in Nat}
\* A sum of multiples of a is a multiple of a.
LEMMA SumMultiple ==
    ASSUME NEW S, IsFiniteSet(S), NEW a \in Nat, NEW g, \A x \in S : g[x] \in Multiples(a)
    PROVE  \A U \in SUBSET S : SumFunctionOnSet(g, U) \in Multiples(a)
<1>a. Multiples(a) \subseteq Nat /\ 0 \in Multiples(a)
  <2>1. 0 = 0 * a
        OBVIOUS
  <2> QED BY <2>1 DEF Multiples
<1>b. \A x, y \in Multiples(a) : x + y \in Multiples(a)
  <2>1. SUFFICES ASSUME NEW m \in Nat, NEW n \in Nat PROVE m * a + n * a \in Multiples(a)
        BY DEF Multiples
  <2>2. m * a + n * a = (m + n) * a /\ m + n \in Nat
        OBVIOUS
  <2> QED BY <2>2 DEF Multiples
<1>1. PICK sum : sum = [U \in SUBSET S |-> SumFunctionOnSet(g, U)]
      OBVIOUS
<1>2. sum[{}] = 0 /\ \A U \in SUBSET S : \A x \in U : sum[U] = g[x] + sum[U \ {x}]
  <2>1. \A x \in S : g[x] \in Nat
        BY <1>a
  <2> QED BY <1>1, <2>1, SumFacts
<1>3. PICK Good : Good = {U \in SUBSET S : sum[U] \in Multiples(a)}
      OBVIOUS
<1>4. ASSUME NEW U \in SUBSET S, \A V \in SUBSET U : V # U => V \in Good PROVE U \in Good
  <2>1. CASE U = {}
        BY <1>a, <1>2, <1>3, <2>1
  <2>2. CASE U # {}
    <3>1. PICK x \in U : TRUE
          BY <2>2
    <3>2. U \ {x} \in Good
          BY <1>4, <3>1
    <3> QED BY <1>b, <1>2, <1>3, <3>1, <3>2
  <2> QED BY <2>1, <2>2
<1>5. \A U \in SUBSET S : U \in Good
      BY <1>4, SetInductive
<1> QED BY <1>1, <1>3, <1>5

-----------------------------------------------------------------------------
(* Sorting a finite set of numbers *)

\* How many elements of S are below x.
Rank(S, x) == Cardinality({y \in S : y < x})

\* The rank of an element is a number below the size of the set, and grows with the element.
LEMMA RankFacts ==
    ASSUME NEW S, S \subseteq Nat, IsFiniteSet(S)
    PROVE  /\ Cardinality(S) \in Nat
           /\ \A x \in S : Rank(S, x) \in Nat /\ Rank(S, x) < Cardinality(S)
           /\ \A x, z \in S : x < z => Rank(S, x) < Rank(S, z)
<1>1. Cardinality(S) \in Nat
      BY FS_CardinalityType
<1>2. ASSUME NEW x \in S PROVE Rank(S, x) \in Nat /\ Rank(S, x) < Cardinality(S)
  <2>1. PICK A : A = {y \in S : y < x}
        OBVIOUS
  <2>2. A \in SUBSET S /\ A # S
        BY <2>1
  <2>3. IsFiniteSet(A) /\ Cardinality(A) <= Cardinality(S) /\ Cardinality(A) # Cardinality(S)
        BY <2>2, FS_Subset
  <2> QED BY <1>1, <2>1, <2>3, FS_CardinalityType DEF Rank
<1>3. ASSUME NEW x \in S, NEW z \in S, x < z PROVE Rank(S, x) < Rank(S, z)
  <2>1. PICK A : A = {y \in S : y < x}
        OBVIOUS
  <2>2. PICK B : B = {y \in S : y < z}
        OBVIOUS
  <2>a. x \in B /\ x \notin A
        BY <1>3, <2>1, <2>2
  <2>b. \A y \in S : y < x => y < z
        BY <1>3
  <2>3. A \in SUBSET B /\ A # B /\ B \in SUBSET S
        BY <2>a, <2>b, <2>1, <2>2
  <2>4. IsFiniteSet(B)
        BY <2>3, FS_Subset
  <2>5. IsFiniteSet(A) /\ Cardinality(A) <= Cardinality(B) /\ Cardinality(A) # Cardinality(B)
        BY <2>3, <2>4, FS_Subset
  <2> QED BY <2>1, <2>2, <2>4, <2>5, FS_CardinalityType DEF Rank
<1> QED BY <1>1, <1>2, <1>3

\* Sorted lists every element of a finite set of numbers once, at its rank.
LEMMA SortedFacts ==
    ASSUME NEW S, S \subseteq Nat, IsFiniteSet(S)
    PROVE  /\ Cardinality(S) \in Nat
           /\ DOMAIN Sorted(S) = 1 .. Cardinality(S)
           /\ \A n \in 1 .. Cardinality(S) : Sorted(S)[n] \in S /\ Rank(S, Sorted(S)[n]) = n - 1
           /\ \A x \in S : Rank(S, x) + 1 \in 1 .. Cardinality(S) /\ Sorted(S)[Rank(S, x) + 1] = x
<1>1. PICK N \in Nat : N = Cardinality(S)
      BY RankFacts
<1>a. /\ \A x \in S : Rank(S, x) \in Nat /\ Rank(S, x) < Cardinality(S)
      /\ \A x, z \in S : x < z => Rank(S, x) < Rank(S, z)
      BY RankFacts
<1>2. \A x \in S : Rank(S, x) \in 0 .. N - 1
      BY <1>1, <1>a
<1>3. \A x, z \in S : Rank(S, x) = Rank(S, z) => x = z
  <2>1. SUFFICES ASSUME NEW x \in S, NEW z \in S, Rank(S, x) = Rank(S, z), x # z PROVE FALSE
        OBVIOUS
  <2>2. x < z \/ z < x
        BY <2>1
  <2>3. Rank(S, x) \in Int /\ Rank(S, z) \in Int
        BY <1>2
  <2> QED BY <1>a, <2>1, <2>2, <2>3
<1>4. \A n \in 0 .. N - 1 : \E x \in S : Rank(S, x) = n
  <2>1. PICK f : f = [x \in S |-> Rank(S, x)]
        OBVIOUS
  <2>2. PICK T : T = 0 .. N - 1
        OBVIOUS
  <2>3. f \in Injection(S, T)
        BY <1>2, <1>3, <2>1, <2>2 DEF Injection, IsInjective
  <2>4. IsFiniteSet(T) /\ Cardinality(T) = N
        BY <1>1, <2>2, FS_Interval
  <2>5. f \in Surjection(S, T)
        BY <1>1, <2>3, <2>4, FS_Injection
  <2> QED BY <2>1, <2>2, <2>5 DEF Surjection
<1>5. PICK s : s = Sorted(S)
      OBVIOUS
<1>6. DOMAIN s = 1 .. N /\ \A n \in 1 .. N : s[n] = CHOOSE x \in S : Rank(S, x) = n - 1
      BY <1>1, <1>5 DEF Sorted, Rank
<1>7. ASSUME NEW n \in 1 .. N PROVE s[n] \in S /\ Rank(S, s[n]) = n - 1
  <2>1. n - 1 \in 0 .. N - 1
        OBVIOUS
  <2>2. \E x \in S : Rank(S, x) = n - 1
        BY <1>4, <2>1
  <2> QED BY <1>6, <2>2
<1>8. ASSUME NEW x \in S PROVE Rank(S, x) + 1 \in 1 .. N /\ s[Rank(S, x) + 1] = x
  <2>1. PICK n \in 1 .. N : n = Rank(S, x) + 1
        BY <1>2
  <2>2. s[n] \in S /\ Rank(S, s[n]) = n - 1
        BY <1>7
  <2>3. Rank(S, x) = n - 1
        BY <1>2, <2>1
  <2> QED BY <1>3, <2>1, <2>2, <2>3
<1> QED BY <1>1, <1>5, <1>6, <1>7, <1>8

\* It is in increasing order.
LEMMA SortedIncreases ==
    ASSUME NEW S, S \subseteq Nat, IsFiniteSet(S),
           NEW m \in 1 .. Cardinality(S), NEW n \in 1 .. Cardinality(S), m < n
    PROVE  Sorted(S)[m] < Sorted(S)[n]
<1>1. PICK x \in S : x = Sorted(S)[m] /\ Rank(S, x) = m - 1
      BY SortedFacts
<1>2. PICK z \in S : z = Sorted(S)[n] /\ Rank(S, z) = n - 1
      BY SortedFacts
<1>3. Rank(S, x) < Rank(S, z) /\ m - 1 \in Int /\ n - 1 \in Int
      BY <1>1, <1>2
<1>4. SUFFICES ASSUME ~(x < z) PROVE FALSE
      BY <1>1, <1>2
<1>5. x = z \/ z < x
      BY <1>4
<1>6. z < x => Rank(S, z) < Rank(S, x)
      BY RankFacts
<1> QED BY <1>1, <1>2, <1>3, <1>5, <1>6

-----------------------------------------------------------------------------
(* Registrations *)

\* What ConfigsAssumption says of one registration.
Config(cfg) ==
    /\ IsFiniteSet(Rows(cfg))
    /\ Rows(cfg) = 0 .. RowCount(cfg) - 1
    /\ \A r \in Rows(cfg) : /\ cfg.extent[r].shard \in Nat
                            /\ cfg.extent[r].offset \in Nat /\ cfg.extent[r].length \in Nat
    /\ \A n \in DOMAIN cfg.sources : cfg.sources[n] \in Nat
    /\ cfg.storage \in Nat /\ cfg.base \in Nat /\ cfg.batch \in Nat
    /\ cfg.tickets \in Nat /\ cfg.alignment \in Nat /\ cfg.chunk \in Nat /\ cfg.maxClasses \in Nat

\* Every registration the model is given is one the proofs can use.
LEMMA ConfigFacts ==
    ASSUME NEW cfg \in Configs
    PROVE  Config(cfg)
<1>1. \A r \in DOMAIN cfg.extent : /\ cfg.extent[r].shard \in Nat
                                   /\ cfg.extent[r].offset \in Nat /\ cfg.extent[r].length \in Nat
  <2>1. SUFFICES ASSUME NEW r \in DOMAIN cfg.extent
                 PROVE  /\ cfg.extent[r].shard \in Nat
                        /\ cfg.extent[r].offset \in Nat /\ cfg.extent[r].length \in Nat
        OBVIOUS
  <2>2. PICK e \in [status : STRING, shard : Nat, offset : Nat, length : Nat] : e = cfg.extent[r]
        BY ConfigsAssumption
  <2> QED BY <2>2
<1>a. \A n \in DOMAIN cfg.sources : cfg.sources[n] \in Nat
  <2>1. PICK sources \in Seq(Nat) : sources = cfg.sources
        BY ConfigsAssumption
  <2>2. \A n \in DOMAIN sources : sources[n] \in Nat
        OBVIOUS
  <2> QED BY <2>1, <2>2
<1>2. /\ {cfg.storage, cfg.base, cfg.batch} \subseteq Nat
      /\ {cfg.tickets, cfg.alignment, cfg.chunk, cfg.maxClasses} \subseteq Nat
      BY ConfigsAssumption
<1>3. /\ cfg.storage \in Nat /\ cfg.base \in Nat /\ cfg.batch \in Nat
      /\ cfg.tickets \in Nat /\ cfg.alignment \in Nat /\ cfg.chunk \in Nat /\ cfg.maxClasses \in Nat
      BY <1>2, Zenon
<1>4. IsFiniteSet(DOMAIN cfg.extent) /\ DOMAIN cfg.extent = 0 .. Cardinality(DOMAIN cfg.extent) - 1
      BY ConfigsAssumption
<1> QED BY <1>1, <1>a, <1>3, <1>4, Zenon DEF Config, Rows, RowCount

\* A registration whose scan ends well has only rows that are not empty.
LEMMA ScanFacts ==
    ASSUME NEW cfg, Config(cfg), ScanStatus(cfg) = "ok"
    PROVE  \A r \in Rows(cfg) : cfg.extent[r].length \in Positive
<1>1. PICK bad : bad = {r \in Rows(cfg) : RowStatus(cfg, r) # "ok"}
      OBVIOUS
<1>2. bad = {}
  <2>1. SUFFICES ASSUME bad # {} PROVE FALSE
        OBVIOUS
  <2>2. bad \subseteq Nat
        BY <1>1 DEF Config
  <2>3. \E r \in bad : \A q \in bad : r <= q
        BY <2>1, <2>2, LeastNat
  <2>4. PICK r : r = CHOOSE p \in bad : \A q \in bad : p <= q
        OBVIOUS
  <2>5. r \in bad
        BY <2>3, <2>4
  <2>6. ScanStatus(cfg) = RowStatus(cfg, r)
        BY <1>1, <2>1, <2>4 DEF ScanStatus
  <2> QED BY <1>1, <2>5, <2>6
<1>a. \A r \in Rows(cfg) : cfg.extent[r].length \in Nat
      BY DEF Config
<1>3. SUFFICES ASSUME NEW r \in Rows(cfg), cfg.extent[r].length = 0 PROVE FALSE
      BY <1>a DEF Positive
<1>4. RowStatus(cfg, r) = "ok"
      BY <1>1, <1>2
<1>5. cfg.extent[r].status # "ok" => RowStatus(cfg, r) = cfg.extent[r].status
      BY <1>3 DEF RowStatus
<1>6. cfg.extent[r].status = "ok" => RowStatus(cfg, r) = "invalid_argument"
      BY <1>3 DEF RowStatus
<1> QED BY <1>4, <1>5, <1>6

\* A registration that create does not refuse before the split.
Scanned(cfg) == Config(cfg) /\ RowCount(cfg) # 0 /\ ScanStatus(cfg) = "ok"

\* Its classes are a finite set of widths, not empty.
LEMMA WidthsFacts ==
    ASSUME NEW cfg, Scanned(cfg)
    PROVE  /\ Widths(cfg) \subseteq Positive /\ Widths(cfg) \subseteq Nat
           /\ IsFiniteSet(Widths(cfg)) /\ Widths(cfg) # {}
           /\ \A r \in Rows(cfg) : cfg.extent[r].length \in Widths(cfg)
<1>1. \A r \in Rows(cfg) : cfg.extent[r].length \in Positive
      BY ScanFacts DEF Scanned
<1>2. IsFiniteSet(Widths(cfg))
  <2>1. PICK f : f = [r \in Rows(cfg) |-> cfg.extent[r].length]
        OBVIOUS
  <2>2. f \in Surjection(Rows(cfg), Widths(cfg))
        BY <2>1 DEF Widths, Surjection
  <2>3. IsFiniteSet(Rows(cfg))
        BY DEF Scanned, Config
  <2> QED BY <2>2, <2>3, FS_Surjection
<1>3. Rows(cfg) # {}
  <2>1. RowCount(cfg) # 0 /\ IsFiniteSet(Rows(cfg))
        BY DEF Scanned, Config
  <2> QED BY <2>1, FS_EmptySet DEF RowCount
<1>4. Widths(cfg) # {} /\ \A r \in Rows(cfg) : cfg.extent[r].length \in Widths(cfg)
      BY <1>3 DEF Widths
<1>5. Widths(cfg) \subseteq Positive
      BY <1>1 DEF Widths
<1> QED BY <1>2, <1>4, <1>5 DEF Positive

\* The rows of a class: a finite set, not empty, and as many as ClassRows says.
RowsOf(cfg, w) == {r \in Rows(cfg) : cfg.extent[r].length = w}
\* The rows of a class are finitely many numbers, and a class has at least one.
LEMMA RowsOfFacts ==
    ASSUME NEW cfg, Scanned(cfg), NEW w \in Widths(cfg)
    PROVE  /\ RowsOf(cfg, w) \subseteq Nat /\ IsFiniteSet(RowsOf(cfg, w))
           /\ ClassRows(cfg, w) = Cardinality(RowsOf(cfg, w))
           /\ ClassRows(cfg, w) \in Positive
<1>1. RowsOf(cfg, w) \in SUBSET Rows(cfg) /\ RowsOf(cfg, w) # {}
      BY DEF RowsOf, Widths
<1>2. IsFiniteSet(Rows(cfg)) /\ Rows(cfg) \subseteq Nat
      BY DEF Scanned, Config
<1>3. IsFiniteSet(RowsOf(cfg, w))
      BY <1>1, <1>2, FS_Subset
<1>4. Cardinality(RowsOf(cfg, w)) \in Nat /\ Cardinality(RowsOf(cfg, w)) # 0
      BY <1>1, <1>3, FS_CardinalityType, FS_EmptySet
<1>5. ClassRows(cfg, w) = Cardinality(RowsOf(cfg, w))
      BY DEF ClassRows, RowsOf
<1> QED BY <1>1, <1>2, <1>3, <1>4, <1>5 DEF Positive

\* A slot is as large as its row, at least, and a whole number of blocks.
LEMMA SlotForFacts ==
    ASSUME NEW width \in Positive, NEW alignment \in Nat
    PROVE  /\ SlotFor(width, alignment) \in Positive
           /\ width <= SlotFor(width, alignment)
           /\ alignment # 0 => \E m \in Nat : SlotFor(width, alignment) = m * alignment
<1>1. CASE alignment = 0
      BY <1>1 DEF SlotFor, Positive
<1>2. CASE alignment # 0
  <2>1. PICK n \in Nat : n = width + 2 * alignment - 2
        BY <1>2 DEF Positive
  <2>2. alignment \in Positive
        BY <1>2 DEF Positive
  <2>3. PICK s \in Nat : s = RoundDown(n, alignment) /\ n < s + alignment
        BY <2>2, RoundDownBounds
  <2>4. SlotFor(width, alignment) = s
        BY <1>2, <2>1, <2>3 DEF SlotFor, AlignedSlot
  <2>5. s >= width /\ s \in Positive
        BY <2>1, <2>2, <2>3 DEF Positive
  <2>6. n \div alignment \in Nat /\ s = (n \div alignment) * alignment
        BY <2>2, <2>3, DivBounds DEF RoundDown
  <2> QED BY <2>4, <2>5, <2>6
<1> QED BY <1>1, <1>2

\* The bytes the whole table needs.
LEMMA TotalFacts ==
    ASSUME NEW cfg, Scanned(cfg)
    PROVE  /\ \A w \in Widths(cfg) : /\ ClassRows(cfg, w) \in Positive /\ SlotBytes(cfg, w) \in Positive
                                     /\ ClassRows(cfg, w) * SlotBytes(cfg, w) \in Positive
                                     /\ ClassRows(cfg, w) * SlotBytes(cfg, w) <= TotalBytes(cfg)
           /\ TotalBytes(cfg) \in Positive
<1>1. \A w \in Widths(cfg) : ClassRows(cfg, w) \in Positive
      BY RowsOfFacts
<1>2. \A w \in Widths(cfg) : SlotBytes(cfg, w) \in Positive
  <2>1. cfg.alignment \in Nat /\ Widths(cfg) \subseteq Positive
        BY WidthsFacts DEF Scanned, Config
  <2> QED BY <2>1, SlotForFacts DEF SlotBytes
<1>a. \A m, n \in Positive : m * n \in Positive
      BY DEF Positive
<1>3. \A w \in Widths(cfg) : ClassRows(cfg, w) * SlotBytes(cfg, w) \in Positive
      BY <1>1, <1>2, <1>a
<1>4. PICK g : g = [w \in Widths(cfg) |-> ClassRows(cfg, w) * SlotBytes(cfg, w)]
      OBVIOUS
<1>5. PICK W : W = Widths(cfg)
      OBVIOUS
<1>6. IsFiniteSet(W) /\ W # {} /\ \A w \in W : g[w] \in Nat
      BY <1>3, <1>4, <1>5, WidthsFacts DEF Positive
<1>7. TotalBytes(cfg) = SumFunctionOnSet(g, W)
      BY <1>4, <1>5 DEF TotalBytes, SumFunction
<1>8. /\ SumFunctionOnSet(g, W) \in Nat
      /\ \A w \in W : SumFunctionOnSet(g, W \ {w}) \in Nat
      /\ \A w \in W : SumFunctionOnSet(g, W) = g[w] + SumFunctionOnSet(g, W \ {w})
  <2>1. \A U \in SUBSET W :
                /\ SumFunctionOnSet(g, U) \in Nat
                /\ \A x \in U : SumFunctionOnSet(g, U) = g[x] + SumFunctionOnSet(g, U \ {x})
        BY <1>6, SumFacts
  <2>2. W \in SUBSET W /\ \A w \in W : W \ {w} \in SUBSET W
        OBVIOUS
  <2> QED BY <2>1, <2>2
<1>9. \A w \in W : g[w] \in Positive
      BY <1>3, <1>4, <1>5
<1>10. PICK t \in Nat : t = SumFunctionOnSet(g, W)
      BY <1>8
<1>11. ASSUME NEW w \in W PROVE g[w] <= t
  <2>1. PICK u \in Nat : u = SumFunctionOnSet(g, W \ {w})
        BY <1>8
  <2>2. t = g[w] + u /\ g[w] \in Nat
        BY <1>6, <1>8, <1>10, <2>1
  <2> QED BY <2>2
<1>12. t \in Positive
      BY <1>6, <1>9, <1>10, <1>11 DEF Positive
<1> QED BY <1>1, <1>2, <1>3, <1>4, <1>5, <1>7, <1>10, <1>11, <1>12

-----------------------------------------------------------------------------
(* The layout *)

\* What create has made sure of for a class: its slots are wide enough, within the storage, and aligned.
GoodClass(cfg, cls) ==
    /\ cls.width \in Positive
    /\ cls.slotBytes = SlotFor(cls.width, cfg.alignment)
    /\ cls.slotBytes \in Positive
    /\ cls.budget \in Positive
    /\ cls.at \in Nat
    /\ cls.at + cls.budget * cls.slotBytes <= cfg.storage
    /\ cfg.alignment # 0 => (cfg.base + cls.at) % cfg.alignment = 0 /\ cfg.chunk % cfg.alignment = 0

\* The slice of class c ends before the slice of class d starts.
Ordered(classes, c, d) == classes[c].at + classes[c].budget * classes[c].slotBytes <= classes[d].at

\* A row is where the class it belongs to, and its index there, say.
GoodRow(cfg, lay, r) ==
    /\ lay.classOf[r] \in DOMAIN lay.classes
    /\ lay.localOf[r] \in Nat
    /\ lay.globalOf[lay.classOf[r]][lay.localOf[r] + 1] = r
    /\ lay.classes[lay.classOf[r]].width = cfg.extent[r].length

\* A layout whose classes are good, lie one after the other in the storage, and number every row.
GoodLayout(cfg, lay) ==
    /\ Len(lay.classes) \in Nat /\ DOMAIN lay.classes = 1 .. Len(lay.classes)
    /\ \A c \in DOMAIN lay.classes : GoodClass(cfg, lay.classes[c])
    /\ \A c, d \in DOMAIN lay.classes : c < d => Ordered(lay.classes, c, d)
    /\ \A r \in Rows(cfg) : GoodRow(cfg, lay, r)

\* The product of numbers above zero is above zero.
LEMMA ProductOfPositives ==
    ASSUME NEW m \in Positive, NEW n \in Positive
    PROVE  m * n \in Positive
BY SMT DEF Positive

\* The ends of the range of a share are whole numbers.
LEMMA RoundedInt ==
    ASSUME NEW exact \in Nat, NEW total \in Positive, NEW p \in Positive
    PROVE  /\ (exact * (p - 1)) \div (total * p) \in Int
           /\ (exact * (p + 1)) \div (total * p) \in Int
<1>1. PICK n \in Positive : n = total * p
      BY ProductOfPositives
<1>2. PICK x \in Nat : x = exact * (p - 1)
      BY DEF Positive
<1>3. PICK y \in Nat : y = exact * (p + 1)
      BY DEF Positive
<1>4. x \div n \in Nat /\ y \div n \in Nat
      BY DivBounds
<1> QED BY <1>1, <1>2, <1>3, <1>4

\* A share is a whole number of bytes.
LEMMA SharesFacts ==
    ASSUME NEW cfg, Scanned(cfg), NEW share \in Splits(cfg), NEW w \in Widths(cfg)
    PROVE  share[w] \in Int
<1>1. share[w] \in Shares(cfg, w)
      BY DEF Splits
<1>2. PICK exact \in Nat : exact = ClassRows(cfg, w) * SlotBytes(cfg, w) * cfg.storage
  <2>1. ClassRows(cfg, w) * SlotBytes(cfg, w) \in Nat /\ cfg.storage \in Nat
        BY TotalFacts DEF Scanned, Config, Positive
  <2> QED BY <2>1
<1>3. PICK total \in Positive : total = TotalBytes(cfg)
      BY TotalFacts
<1>4. PICK lo \in Int : lo = (exact * (Precision - 1)) \div (total * Precision)
      BY PrecisionAssumption, RoundedInt DEF Positive
<1>5. PICK hi \in Int : hi = (exact * (Precision + 1)) \div (total * Precision)
      BY PrecisionAssumption, RoundedInt DEF Positive
<1>6. share[w] \in lo .. hi
      BY <1>1, <1>2, <1>3, <1>4, <1>5, Zenon DEF Shares
<1> QED BY <1>6

\* The budget of a class is a number of rows; what it takes, of bytes.
LEMMA BudgetFacts ==
    ASSUME NEW cfg, Scanned(cfg), NEW share \in Splits(cfg), NEW w \in Widths(cfg)
    PROVE  /\ Budget(cfg, w, share[w]) \in Int
           /\ Budget(cfg, w, share[w]) <= ClassRows(cfg, w)
<1>1. PICK s \in Positive : s = SlotBytes(cfg, w)
      BY TotalFacts
<1>2. PICK n \in Positive : n = ClassRows(cfg, w)
      BY TotalFacts
<1>3. PICK h \in Int : h = share[w]
      BY SharesFacts
<1>4. h \div s \in Int
      BY DEF Positive
<1>5. Budget(cfg, w, share[w]) = Lesser(h \div s, n)
      BY <1>1, <1>2, <1>3 DEF Budget
<1> QED BY <1>2, <1>4, <1>5 DEF Lesser, Positive

\* The layout by class: what class c, of the c-th width, is.
LEMMA LayoutClasses ==
    ASSUME NEW cfg, Scanned(cfg), NEW share \in Splits(cfg)
    PROVE  \E n \in Nat :
           /\ n = Cardinality(Widths(cfg))
           /\ DOMAIN LayoutOf(cfg, share).classes = 1 .. n
           /\ DOMAIN LayoutOf(cfg, share).globalOf = 1 .. n
           /\ Len(LayoutOf(cfg, share).classes) = n
           /\ \A c \in 1 .. n :
                LET w == Sorted(Widths(cfg))[c] IN
                /\ w \in Widths(cfg)
                /\ Rank(Widths(cfg), w) = c - 1
                /\ LayoutOf(cfg, share).globalOf[c] = GlobalOf(cfg, w)
                /\ LayoutOf(cfg, share).classes[c] =
                    [width |-> w, slotBytes |-> SlotBytes(cfg, w), budget |-> Budget(cfg, w, share[w]),
                     at |-> Slice(cfg, share, w)]
<1>1. PICK W : W = Widths(cfg)
      OBVIOUS
<1>2. W \subseteq Nat /\ IsFiniteSet(W)
      BY <1>1, WidthsFacts
<1>3. PICK n \in Nat : n = Cardinality(W)
      BY <1>2, FS_CardinalityType
<1>4. PICK ws : ws = Sorted(W)
      OBVIOUS
<1>5. DOMAIN ws = 1 .. n /\ \A c \in 1 .. n : ws[c] \in W /\ Rank(W, ws[c]) = c - 1
      BY <1>2, <1>3, <1>4, SortedFacts
<1>6. PICK classes : classes = [c \in 1 .. n |->
                        [width |-> ws[c], slotBytes |-> SlotBytes(cfg, ws[c]),
                         budget |-> Budget(cfg, ws[c], share[ws[c]]),
                         at |-> Slice(cfg, share, ws[c])]]
      OBVIOUS
<1>7. LayoutOf(cfg, share).classes = classes
      BY <1>1, <1>4, <1>5, <1>6 DEF LayoutOf
<1>8. LayoutOf(cfg, share).globalOf = [c \in 1 .. n |-> GlobalOf(cfg, ws[c])]
      BY <1>1, <1>4, <1>5 DEF LayoutOf
<1>9. Len(classes) = n
  <2>1. PICK T : T = {classes[c] : c \in 1 .. n}
        OBVIOUS
  <2>2. classes \in [1 .. n -> T]
        BY <1>6, <2>1
  <2>3. classes \in Seq(T)
        BY <2>2
  <2> QED BY <2>2, <2>3
<1> QED BY <1>1, <1>3, <1>4, <1>5, <1>6, <1>7, <1>8, <1>9

\* Every row is in the class of its length, at its place among the rows of that length.
LEMMA LayoutRows ==
    ASSUME NEW cfg, Scanned(cfg), NEW share \in Splits(cfg), NEW r \in Rows(cfg)
    PROVE  GoodRow(cfg, LayoutOf(cfg, share), r)
<1> DEFINE lay == LayoutOf(cfg, share)
<1>1. PICK w \in Widths(cfg) : w = cfg.extent[r].length
      BY WidthsFacts
<1>2. PICK W : W = Widths(cfg)
      OBVIOUS
<1>3. W \subseteq Nat /\ IsFiniteSet(W) /\ w \in W
      BY <1>1, <1>2, WidthsFacts
<1>4. PICK n \in Nat : n = Cardinality(W)
      BY <1>3, FS_CardinalityType
<1>5. PICK c : c = lay.classOf[r]
      OBVIOUS
<1>6. c = Rank(W, w) + 1
  <2>1. PICK A : A = {v \in W : v < w}
        OBVIOUS
  <2>a. (\A v \in W : v <= w <=> v < w \/ v = w) /\ ~(w < w)
        BY <1>3
  <2>2. {v \in W : v <= w} = A \cup {w} /\ w \notin A /\ A \in SUBSET W
        BY <1>3, <2>a, <2>1
  <2>3. IsFiniteSet(A)
        BY <1>3, <2>2, FS_Subset
  <2>4. Cardinality(A \cup {w}) = Cardinality(A) + 1
        BY <2>2, <2>3, FS_AddElement
  <2>5. c = ClassOf(cfg, r)
        BY <1>5 DEF LayoutOf
  <2>6. ClassOf(cfg, r) = Cardinality({v \in W : v <= w})
        BY <1>1, <1>2 DEF ClassOf
  <2>7. Rank(W, w) = Cardinality(A)
        BY <2>1 DEF Rank
  <2> QED BY <2>2, <2>4, <2>5, <2>6, <2>7
<1>7. c \in 1 .. n /\ Sorted(W)[c] = w
  <2>1. Rank(W, w) + 1 \in 1 .. Cardinality(W) /\ Sorted(W)[Rank(W, w) + 1] = w
        BY <1>3, SortedFacts
  <2> QED BY <1>4, <1>6, <2>1
<1>8. /\ DOMAIN lay.classes = 1 .. n
      /\ lay.globalOf[c] = GlobalOf(cfg, w)
      /\ lay.classes[c].width = w
  <2>1. PICK k \in Nat :
           /\ k = Cardinality(Widths(cfg))
           /\ DOMAIN lay.classes = 1 .. k
           /\ \A d \in 1 .. k :
                LET v == Sorted(Widths(cfg))[d] IN
                /\ lay.globalOf[d] = GlobalOf(cfg, v)
                /\ lay.classes[d] =
                    [width |-> v, slotBytes |-> SlotBytes(cfg, v), budget |-> Budget(cfg, v, share[v]),
                     at |-> Slice(cfg, share, v)]
        BY LayoutClasses, Zenon
  <2>2. k = n
        BY <1>2, <1>4, <2>1
  <2> HIDE DEF lay
  <2>3. /\ lay.globalOf[c] = GlobalOf(cfg, w)
        /\ lay.classes[c] = [width |-> w, slotBytes |-> SlotBytes(cfg, w), budget |-> Budget(cfg, w, share[w]),
                             at |-> Slice(cfg, share, w)]
        BY <1>2, <1>7, <2>1, <2>2
  <2> QED BY <2>1, <2>2, <2>3
<1>9. PICK S : S = RowsOf(cfg, w)
      OBVIOUS
<1>10. S \subseteq Nat /\ IsFiniteSet(S) /\ r \in S
      BY <1>1, <1>9, RowsOfFacts DEF RowsOf
<1>11. lay.localOf[r] = Rank(S, r)
  <2>1. lay.localOf[r] = LocalOf(cfg, r)
        BY DEF LayoutOf
  <2>2. {q \in 0 .. r - 1 : cfg.extent[q].length = cfg.extent[r].length} = {y \in S : y < r}
    <3>1. Rows(cfg) = 0 .. RowCount(cfg) - 1 /\ RowCount(cfg) \in Nat
          BY FS_CardinalityType DEF Scanned, Config, RowCount
    <3>2. \A q : q \in 0 .. r - 1 <=> q \in Rows(cfg) /\ q < r
          BY <3>1
    <3> QED BY <1>1, <1>9, <3>2 DEF RowsOf
  <2> QED BY <2>1, <2>2 DEF LocalOf, Rank
<1>12. Rank(S, r) \in Nat /\ Sorted(S)[Rank(S, r) + 1] = r
      BY <1>10, RankFacts, SortedFacts
<1>13. GlobalOf(cfg, w) = Sorted(S)
      BY <1>9 DEF GlobalOf, RowsOf
<1> HIDE DEF lay
<1>14. GoodRow(cfg, lay, r)
      BY <1>1, <1>5, <1>7, <1>8, <1>11, <1>12, <1>13 DEF GoodRow
<1> QED BY <1>14 DEF lay

\* The bytes of the slice of a class.
SliceBytes(cfg, share, w) == Budget(cfg, w, share[w]) * SlotBytes(cfg, w)

\* The slices of the classes lie one after the other, in the order of the widths.
LEMMA SliceFacts ==
    ASSUME NEW cfg, Scanned(cfg), NEW share, \A w \in Widths(cfg) : Budget(cfg, w, share[w]) \in Nat
    PROVE  /\ \A w \in Widths(cfg) :
                /\ Slice(cfg, share, w) \in Nat
                /\ SliceBytes(cfg, share, w) \in Nat
                /\ Slice(cfg, share, w) + SliceBytes(cfg, share, w) <= Used(cfg, share, Widths(cfg))
           /\ \A v, w \in Widths(cfg) :
                v < w => Slice(cfg, share, v) + SliceBytes(cfg, share, v) <= Slice(cfg, share, w)
           /\ Used(cfg, share, Widths(cfg)) \in Nat
<1>1. PICK W : W = Widths(cfg)
      OBVIOUS
<1>2. PICK g : g = [w \in W |-> Budget(cfg, w, share[w]) * SlotBytes(cfg, w)]
      OBVIOUS
<1>3. W \subseteq Nat /\ IsFiniteSet(W)
      BY <1>1, WidthsFacts
<1>4. \A w \in W : g[w] \in Nat /\ g[w] = SliceBytes(cfg, share, w)
  <2>1. \A w \in W : Budget(cfg, w, share[w]) \in Nat /\ SlotBytes(cfg, w) \in Nat
        BY <1>1, TotalFacts DEF Positive
  <2>2. \A m, n \in Nat : m * n \in Nat
        OBVIOUS
  <2> QED BY <1>2, <2>1, <2>2 DEF SliceBytes
<1>a. IsFiniteSet(W) /\ \A w \in W : g[w] \in Nat
      BY <1>3, <1>4
<1>5. PICK sum : sum = [U \in SUBSET W |-> SumFunctionOnSet(g, U)]
      OBVIOUS
<1>6. /\ \A U \in SUBSET W : sum[U] \in Nat /\ \A x \in U : sum[U] = g[x] + sum[U \ {x}]
      /\ \A U \in SUBSET W : \A V \in SUBSET U : sum[V] <= sum[U]
  <2>1. \A U \in SUBSET W :
                /\ SumFunctionOnSet(g, U) \in Nat
                /\ \A x \in U : SumFunctionOnSet(g, U) = g[x] + SumFunctionOnSet(g, U \ {x})
        BY <1>a, SumFacts
  <2>2. \A U \in SUBSET W : \A V \in SUBSET U : SumFunctionOnSet(g, V) <= SumFunctionOnSet(g, U)
        BY <1>a, SumMonotone
  <2>3. \A U \in SUBSET W : \A V \in SUBSET U : V \in SUBSET W
        OBVIOUS
  <2>4. \A U \in SUBSET W : \A x \in U : U \ {x} \in SUBSET W
        OBVIOUS
  <2> QED BY <1>5, <2>1, <2>2, <2>3, <2>4
<1>7. \A U \in SUBSET W : Used(cfg, share, U) = sum[U]
      BY <1>1, <1>2, <1>5 DEF Used
<1>8. \A w \in W : Slice(cfg, share, w) = sum[{u \in W : u < w}]
      BY <1>1, <1>7 DEF Slice
<1>9. ASSUME NEW w \in W PROVE sum[{u \in W : u < w}] \in Nat
      BY <1>6
<1>10. ASSUME NEW w \in W, NEW U \in SUBSET W, w \in U, {u \in W : u < w} \subseteq U
       PROVE  sum[{u \in W : u < w}] + g[w] <= sum[U]
  <2>1. PICK B : B = {u \in W : u < w}
        OBVIOUS
  <2>2. PICK A : A = B \cup {w}
        OBVIOUS
  <2>a. ~(w < w)
        BY <1>3
  <2>3. A \in SUBSET U /\ A \in SUBSET W /\ w \in A /\ A \ {w} = B
        BY <1>10, <2>a, <2>1, <2>2
  <2>4. sum[A] = g[w] + sum[B] /\ sum[A] <= sum[U] /\ sum[B] \in Nat /\ g[w] \in Nat
        BY <1>4, <1>6, <1>9, <2>1, <2>3
  <2> QED BY <2>1, <2>4
<1>11. ASSUME NEW w \in W PROVE sum[{u \in W : u < w}] + g[w] <= sum[W]
      BY <1>10
<1>12. ASSUME NEW v \in W, NEW w \in W, v < w
       PROVE  sum[{u \in W : u < v}] + g[v] <= sum[{u \in W : u < w}]
  <2>1. PICK U : U = {u \in W : u < w}
        OBVIOUS
  <2>2. \A u \in W : u < v => u < w
        BY <1>3, <1>12
  <2>3. U \in SUBSET W /\ v \in U /\ {u \in W : u < v} \subseteq U
        BY <1>12, <2>1, <2>2
  <2>4. sum[{u \in W : u < v}] + g[v] <= sum[U]
        BY <1>10, <2>3
  <2> QED BY <2>1, <2>4
<1>13. W \in SUBSET W
      OBVIOUS
<1>14. Used(cfg, share, Widths(cfg)) = sum[W] /\ sum[W] \in Nat
      BY <1>1, <1>6, <1>7, <1>13
<1>15. \A w \in Widths(cfg) :
                /\ Slice(cfg, share, w) \in Nat
                /\ SliceBytes(cfg, share, w) \in Nat
                /\ Slice(cfg, share, w) + SliceBytes(cfg, share, w) <= Used(cfg, share, Widths(cfg))
      BY <1>1, <1>4, <1>8, <1>9, <1>11, <1>14
<1>16. \A v, w \in Widths(cfg) :
                v < w => Slice(cfg, share, v) + SliceBytes(cfg, share, v) <= Slice(cfg, share, w)
  <2>1. SUFFICES ASSUME NEW v \in W, NEW w \in W, v < w
                 PROVE  Slice(cfg, share, v) + SliceBytes(cfg, share, v) <= Slice(cfg, share, w)
        BY <1>1
  <2>2. sum[{u \in W : u < v}] + g[v] <= sum[{u \in W : u < w}]
        BY <1>12, <2>1
  <2> QED BY <1>4, <1>8, <2>2, Zenon
<1> QED BY <1>14, <1>15, <1>16

\* A split that fits makes a good layout.
LEMMA LayoutGood ==
    ASSUME NEW cfg, Scanned(cfg), NEW share \in Splits(cfg), Fits(cfg, share)
    PROVE  GoodLayout(cfg, LayoutOf(cfg, share))
<1>1. PICK lay : lay = LayoutOf(cfg, share)
      OBVIOUS
<1>2. PICK n \in Nat :
           /\ n = Cardinality(Widths(cfg))
           /\ DOMAIN lay.classes = 1 .. n
           /\ Len(lay.classes) = n
           /\ \A c \in 1 .. n :
                LET w == Sorted(Widths(cfg))[c] IN
                /\ w \in Widths(cfg)
                /\ lay.classes[c] =
                    [width |-> w, slotBytes |-> SlotBytes(cfg, w), budget |-> Budget(cfg, w, share[w]),
                     at |-> Slice(cfg, share, w)]
      BY <1>1, LayoutClasses, Zenon
<1>3. PICK ws : ws = Sorted(Widths(cfg))
      OBVIOUS
<1>b. \A c \in 1 .. n :
        /\ ws[c] \in Widths(cfg)
        /\ lay.classes[c] =
             [width |-> ws[c], slotBytes |-> SlotBytes(cfg, ws[c]), budget |-> Budget(cfg, ws[c], share[ws[c]]),
              at |-> Slice(cfg, share, ws[c])]
      BY <1>2, <1>3, Zenon
<1>4. \A c \in 1 .. n :
        /\ ws[c] \in Widths(cfg)
        /\ lay.classes[c].width = ws[c]
        /\ lay.classes[c].slotBytes = SlotBytes(cfg, ws[c])
        /\ lay.classes[c].budget = Budget(cfg, ws[c], share[ws[c]])
        /\ lay.classes[c].at = Slice(cfg, share, ws[c])
  <2>1. SUFFICES ASSUME NEW c \in 1 .. n
                 PROVE  /\ ws[c] \in Widths(cfg)
                        /\ lay.classes[c].width = ws[c]
                        /\ lay.classes[c].slotBytes = SlotBytes(cfg, ws[c])
                        /\ lay.classes[c].budget = Budget(cfg, ws[c], share[ws[c]])
                        /\ lay.classes[c].at = Slice(cfg, share, ws[c])
        OBVIOUS
  <2>2. PICK w : w = ws[c]
        OBVIOUS
  <2>3. PICK cls : cls = lay.classes[c]
        OBVIOUS
  <2>4. cls = [width |-> w, slotBytes |-> SlotBytes(cfg, w), budget |-> Budget(cfg, w, share[w]),
               at |-> Slice(cfg, share, w)]
        BY <1>b, <2>2, <2>3
  <2>5. /\ cls.width = w /\ cls.slotBytes = SlotBytes(cfg, w) /\ cls.budget = Budget(cfg, w, share[w])
        /\ cls.at = Slice(cfg, share, w)
        BY <2>4
  <2>6. w \in Widths(cfg)
        BY <1>b, <2>2
  <2> QED BY <2>2, <2>3, <2>5, <2>6
<1>5. \A c \in 1 .. n : TableAccepts(cfg, lay.classes[c])
  <2>1. \A cls \in Range(lay.classes) : TableAccepts(cfg, cls)
        BY <1>1 DEF Fits
  <2> QED BY <1>2, <2>1 DEF Range
<1>6. \A c \in 1 .. n : Budget(cfg, ws[c], share[ws[c]]) \in Positive
  <2>1. SUFFICES ASSUME NEW c \in 1 .. n PROVE Budget(cfg, ws[c], share[ws[c]]) \in Positive
        OBVIOUS
  <2>2. lay.classes[c].budget > 0
        BY <1>5 DEF TableAccepts
  <2>3. Budget(cfg, ws[c], share[ws[c]]) \in Int
        BY <1>4, BudgetFacts
  <2> QED BY <1>4, <2>2, <2>3 DEF Positive
<1>7. \A w \in Widths(cfg) : Budget(cfg, w, share[w]) \in Nat
  <2>1. SUFFICES ASSUME NEW w \in Widths(cfg) PROVE \E c \in 1 .. n : ws[c] = w
        BY <1>6 DEF Positive
  <2>2. PICK W : W = Widths(cfg)
        OBVIOUS
  <2>3. W \subseteq Nat /\ IsFiniteSet(W) /\ w \in W
        BY <2>2, WidthsFacts
  <2>4. Rank(W, w) + 1 \in 1 .. Cardinality(W) /\ Sorted(W)[Rank(W, w) + 1] = w
        BY <2>3, SortedFacts
  <2> QED BY <1>2, <1>3, <2>2, <2>4
<1>8. ASSUME NEW c \in 1 .. n PROVE GoodClass(cfg, lay.classes[c])
  <2>1. PICK w \in Widths(cfg) : w = ws[c]
        BY <1>4
  <2>2. w \in Positive /\ SlotBytes(cfg, w) = SlotFor(w, cfg.alignment) /\ SlotBytes(cfg, w) \in Positive
        BY WidthsFacts, TotalFacts DEF SlotBytes
  <2>3. PICK at \in Nat : at = Slice(cfg, share, w)
        BY <1>7, SliceFacts
  <2>4. at + Budget(cfg, w, share[w]) * SlotBytes(cfg, w) <= cfg.storage
    <3>1. PICK b \in Nat : b = SliceBytes(cfg, share, w)
          BY <1>7, SliceFacts
    <3>2. PICK u \in Nat : u = Used(cfg, share, Widths(cfg))
          BY <1>7, SliceFacts
    <3>3. at + b <= u
          BY <1>7, <2>3, <3>1, <3>2, SliceFacts
    <3>4. u <= cfg.storage /\ cfg.storage \in Nat
          BY <3>2 DEF Fits, Scanned, Config
    <3>5. at + b <= cfg.storage
          BY <3>3, <3>4
    <3> QED BY <3>1, <3>5 DEF SliceBytes
  <2>5. TableAccepts(cfg, lay.classes[c])
        BY <1>5
  <2> QED BY <1>4, <1>6, <2>1, <2>2, <2>3, <2>4, <2>5 DEF GoodClass, TableAccepts
<1>9. ASSUME NEW c \in 1 .. n, NEW d \in 1 .. n, c < d PROVE Ordered(lay.classes, c, d)
  <2>1. ws[c] < ws[d]
    <3>1. PICK W : W = Widths(cfg)
          OBVIOUS
    <3>2. W \subseteq Nat /\ IsFiniteSet(W) /\ n = Cardinality(W)
          BY <1>2, <3>1, WidthsFacts
    <3> QED BY <1>3, <1>9, <3>1, <3>2, SortedIncreases
  <2>2. PICK v \in Widths(cfg) : v = ws[c]
        BY <1>4
  <2>3. PICK w \in Widths(cfg) : w = ws[d]
        BY <1>4
  <2>4. v < w
        BY <2>1, <2>2, <2>3
  <2>5. Slice(cfg, share, v) + SliceBytes(cfg, share, v) <= Slice(cfg, share, w)
        BY <1>7, <2>4, SliceFacts
  <2>6. Slice(cfg, share, v) + Budget(cfg, v, share[v]) * SlotBytes(cfg, v) <= Slice(cfg, share, w)
        BY <2>5 DEF SliceBytes
  <2> QED BY <1>4, <2>2, <2>3, <2>6, Zenon DEF Ordered
<1>10. \A r \in Rows(cfg) : GoodRow(cfg, lay, r)
      BY <1>1, LayoutRows
<1>11. GoodLayout(cfg, lay)
      BY <1>2, <1>8, <1>9, <1>10 DEF GoodLayout
<1> QED BY <1>1, <1>11

-----------------------------------------------------------------------------
(* Storage for more than the whole table *)

\* A product of numbers is positive only if they all are.
LEMMA ProductPositive ==
    ASSUME NEW a \in Nat, NEW b \in Nat, a * b > 0
    PROVE  a > 0 /\ b > 0
<1>1. a = 0 => a * b = 0
      OBVIOUS
<1>2. b = 0 => a * b = 0
      OBVIOUS
<1> QED BY <1>1, <1>2

\* Multiples and remainders.
LEMMA ModZero ==
    ASSUME NEW a \in Positive, NEW m \in Int
    PROVE  (m * a) % a = 0
BY DEF Positive
\* A number with no remainder is a multiple.
LEMMA ModZeroMultiple ==
    ASSUME NEW a \in Positive, NEW n \in Nat, n % a = 0
    PROVE  \E m \in Nat : n = m * a
<1>1. n \div a \in Nat
      BY DivBounds
<1>2. n = (n \div a) * a
      BY DEF Positive
<1> QED BY <1>1, <1>2

\* What WellFormed says of a registration.
LEMMA WellFormedFacts ==
    ASSUME NEW cfg, Config(cfg), WellFormed(cfg)
    PROVE  /\ Scanned(cfg)
           /\ RowCount(cfg) > 0 /\ cfg.batch > 0 /\ cfg.maxClasses > 0 /\ cfg.tickets > 0
<1>1. RowCount(cfg) \in Nat /\ cfg.batch \in Nat /\ cfg.maxClasses \in Nat /\ cfg.tickets \in Nat
      BY FS_CardinalityType DEF Config, RowCount
<1>2. PICK p \in Nat : p = RowCount(cfg) * cfg.batch
      BY <1>1
<1>3. PICK q \in Nat : q = p * cfg.maxClasses
      BY <1>1
<1>6. q * cfg.tickets > 0
      BY <1>2, <1>3 DEF WellFormed
<1>7. q > 0 /\ cfg.tickets > 0
      BY <1>1, <1>6, ProductPositive
<1>8. p > 0 /\ cfg.maxClasses > 0
      BY <1>1, <1>3, <1>7, ProductPositive
<1>9. RowCount(cfg) > 0 /\ cfg.batch > 0
      BY <1>1, <1>2, <1>8, ProductPositive
<1> QED BY <1>7, <1>8, <1>9 DEF WellFormed, Scanned

\* Whatever rounding does to it, the share of a class then has room for all its rows: a table of `total` bytes
\* in storage of one byte more, or of many more, leaves a share above `need` by more than it can lose.
LEMMA WholeShare ==
    ASSUME NEW need \in Positive, NEW total \in Positive, NEW room \in Nat, room > total,
           NEW p \in Positive, total < p
    PROVE  need <= (need * room * (p - 1)) \div (total * p)
<1>1. PICK d \in Nat : d = p - 1 - total
      BY DEF Positive
<1>2. PICK e \in Nat : e = room - total - 1
      BY DEF Positive
<1>3. room * (p - 1) = total * p + d + e * (p - 1)
  <2>1. p = d + total + 1 /\ room = e + total + 1 /\ total \in Nat
        BY <1>1, <1>2 DEF Positive
  <2>2. (e + total + 1) * (d + total) = total * (d + total + 1) + d + e * (d + total)
        BY <2>1
  <2>3. p - 1 = d + total
        BY <2>1
  <2> QED BY <2>1, <2>2, <2>3
<1>4. PICK f \in Nat : f = e * (p - 1)
      BY DEF Positive
<1>5. PICK n \in Positive : n = total * p
      BY ProductOfPositives
<1>6. need * room * (p - 1) = need * (room * (p - 1))
      BY DEF Positive
<1>7. PICK x \in Nat : x = need * (n + d + f) /\ x = need * room * (p - 1)
      BY <1>3, <1>4, <1>5, <1>6 DEF Positive
<1>8. need * n <= x
  <2>1. need * (n + d + f) = need * n + need * (d + f)
        BY DEF Positive
  <2>2. need * (d + f) \in Nat /\ need * n \in Nat
        BY DEF Positive
  <2> QED BY <1>7, <2>1, <2>2
<1>9. need <= x \div n
      BY <1>8, DivLargest DEF Positive
<1> QED BY <1>5, <1>7, <1>9

\* The budget of a class with such a share is all its rows.
LEMMA WholeBudget ==
    ASSUME NEW cfg, Scanned(cfg), cfg.storage > TotalBytes(cfg), TotalBytes(cfg) < Precision,
           NEW share \in Splits(cfg), NEW w \in Widths(cfg)
    PROVE  Budget(cfg, w, share[w]) = ClassRows(cfg, w)
<1>1. PICK n \in Positive : n = ClassRows(cfg, w)
      BY TotalFacts
<1>2. PICK s \in Positive : s = SlotBytes(cfg, w)
      BY TotalFacts
<1>3. PICK need \in Positive : need = n * s
      BY <1>1, <1>2, TotalFacts
<1>4. PICK total \in Positive : total = TotalBytes(cfg)
      BY TotalFacts
<1>5. PICK room \in Nat : room = cfg.storage
      BY DEF Scanned, Config
<1>6. PICK h : h = share[w]
      OBVIOUS
<1>7. h \in Shares(cfg, w)
      BY <1>6 DEF Splits
<1>8. PICK lo \in Int : lo = (need * room * (Precision - 1)) \div (total * Precision)
  <2>1. PICK exact \in Nat : exact = need * room
        BY DEF Positive
  <2> QED BY <2>1, PrecisionAssumption, RoundedInt DEF Positive
<1>9. h \in Int /\ h >= lo
  <2>1. ClassRows(cfg, w) * SlotBytes(cfg, w) * cfg.storage = need * room
        BY <1>1, <1>2, <1>3, <1>5
  <2>2. PICK hi \in Int : hi = (need * room * (Precision + 1)) \div (total * Precision)
    <3>1. PICK exact \in Nat : exact = need * room
          BY DEF Positive
    <3> QED BY <3>1, PrecisionAssumption, RoundedInt DEF Positive
  <2>3. h \in lo .. hi
        BY <1>4, <1>7, <1>8, <2>1, <2>2, Zenon DEF Shares
  <2> QED BY <2>3
<1>10. lo >= need
  <2>1. room > total /\ total < Precision
        BY <1>4, <1>5
  <2>2. PICK p \in Positive : p = Precision
        BY PrecisionAssumption DEF Positive
  <2>3. need <= (need * room * (p - 1)) \div (total * p)
        BY <2>1, <2>2, WholeShare
  <2> QED BY <1>8, <2>2, <2>3 DEF Positive
<1>11. h \in Nat /\ n * s <= h
      BY <1>3, <1>9, <1>10 DEF Positive
<1>12. n <= h \div s
      BY <1>11, DivLargest DEF Positive
<1>13. Lesser(h \div s, n) = n
      BY <1>11, <1>12, DivBounds DEF Lesser, Positive
<1> QED BY <1>1, <1>2, <1>6, <1>13 DEF Budget

\* Then the slices start at multiples of the alignment.
LEMMA SliceAligned ==
    ASSUME NEW cfg, Scanned(cfg), cfg.alignment # 0, NEW share,
           \A w \in Widths(cfg) : Budget(cfg, w, share[w]) \in Nat, NEW w \in Widths(cfg)
    PROVE  \E m \in Nat : Slice(cfg, share, w) = m * cfg.alignment
<1>1. PICK W : W = Widths(cfg)
      OBVIOUS
<1>2. PICK g : g = [v \in W |-> Budget(cfg, v, share[v]) * SlotBytes(cfg, v)]
      OBVIOUS
<1>3. PICK a \in Nat : a = cfg.alignment
      BY DEF Scanned, Config
<1>4. \A v \in W : g[v] \in Multiples(a)
  <2>1. SUFFICES ASSUME NEW v \in W PROVE \E m \in Nat : g[v] = m * a
        BY DEF Multiples
  <2>2. v \in Positive
        BY <1>1, WidthsFacts
  <2>3. PICK k \in Nat : SlotBytes(cfg, v) = k * a
        BY <1>3, <2>2, SlotForFacts DEF SlotBytes
  <2>4. PICK b \in Nat : b = Budget(cfg, v, share[v])
        BY <1>1
  <2>5. g[v] = b * (k * a)
        BY <1>2, <2>3, <2>4
  <2>6. b * (k * a) = (b * k) * a /\ b * k \in Nat
        OBVIOUS
  <2> QED BY <2>5, <2>6
<1>6. IsFiniteSet(W)
      BY <1>1, WidthsFacts
<1>7. \A U \in SUBSET W : SumFunctionOnSet(g, U) \in Multiples(a)
      BY <1>4, <1>6, SumMultiple
<1>8. PICK U : U = {v \in W : v < w}
      OBVIOUS
<1>9. Slice(cfg, share, w) = SumFunctionOnSet(g, U)
      BY <1>1, <1>2, <1>8 DEF Slice, Used
<1>10. U \in SUBSET W
      BY <1>8
<1> QED BY <1>3, <1>7, <1>9, <1>10 DEF Multiples

\* Nothing is refused then: Table::create accepts every class.
LEMMA WholeFits ==
    ASSUME NEW cfg, Config(cfg), WellFormed(cfg), cfg.storage > TotalBytes(cfg),
           TotalBytes(cfg) < Precision, NEW share \in Splits(cfg)
    PROVE  Fits(cfg, share)
<1>1. /\ Scanned(cfg) /\ cfg.batch > 0 /\ cfg.tickets > 0
      /\ cfg.sources # <<>> /\ \A bytes \in Range(cfg.sources) : bytes > 0
      BY WellFormedFacts DEF WellFormed
<1>2. \A w \in Widths(cfg) : Budget(cfg, w, share[w]) = ClassRows(cfg, w) /\ ClassRows(cfg, w) \in Positive
      BY <1>1, WholeBudget, TotalFacts
<1>3. ASSUME NEW w \in Widths(cfg) PROVE Enough(cfg, w, share[w])
  <2>1. PICK n \in Positive : n = ClassRows(cfg, w)
        BY <1>2
  <2>2. PICK b \in Nat : b = 2 * cfg.batch
        BY DEF Config
  <2>3. n >= Lesser(b, n)
        BY DEF Lesser, Positive
  <2> QED BY <1>2, <2>1, <2>2, <2>3 DEF Enough
<1>4. Used(cfg, share, Widths(cfg)) <= cfg.storage
  <2>1. PICK g : g = [w \in Widths(cfg) |-> ClassRows(cfg, w) * SlotBytes(cfg, w)]
        OBVIOUS
  <2>2. [w \in Widths(cfg) |-> Budget(cfg, w, share[w]) * SlotBytes(cfg, w)] = g
        BY <1>2, <2>1
  <2>3. Used(cfg, share, Widths(cfg)) = SumFunctionOnSet(g, Widths(cfg))
        BY <2>2 DEF Used
  <2>4. TotalBytes(cfg) = SumFunctionOnSet(g, Widths(cfg))
        BY <2>1 DEF TotalBytes, SumFunction
  <2>5. PICK t \in Nat : t = TotalBytes(cfg)
        BY <1>1, TotalFacts DEF Positive
  <2> QED BY <2>3, <2>4, <2>5 DEF Config
<1>5. ASSUME NEW cls \in Range(LayoutOf(cfg, share).classes) PROVE TableAccepts(cfg, cls)
  <2>1. PICK w \in Widths(cfg) :
            cls = [width |-> w, slotBytes |-> SlotBytes(cfg, w), budget |-> Budget(cfg, w, share[w]),
                   at |-> Slice(cfg, share, w)]
    <3>1. PICK n \in Nat :
           /\ DOMAIN LayoutOf(cfg, share).classes = 1 .. n
           /\ \A c \in 1 .. n :
                LET w == Sorted(Widths(cfg))[c] IN
                /\ w \in Widths(cfg)
                /\ LayoutOf(cfg, share).classes[c] =
                    [width |-> w, slotBytes |-> SlotBytes(cfg, w), budget |-> Budget(cfg, w, share[w]),
                     at |-> Slice(cfg, share, w)]
          BY <1>1, LayoutClasses, Zenon
    <3>2. PICK c \in 1 .. n : cls = LayoutOf(cfg, share).classes[c]
          BY <1>5, <3>1, Zenon DEF Range
    <3> QED BY <3>1, <3>2, Zenon
  <2>2. cls.budget > 0
    <3>1. cls.budget = ClassRows(cfg, w) /\ ClassRows(cfg, w) \in Positive
          BY <1>2, <2>1
    <3> QED BY <3>1 DEF Positive
  <2>3. ASSUME cfg.alignment # 0
        PROVE  /\ cfg.alignment \in PowersOfTwo
               /\ (cfg.base + cls.at) % cfg.alignment = 0
               /\ cfg.chunk % cfg.alignment = 0
    <3>1. cfg.alignment \in PowersOfTwo /\ cfg.base % cfg.alignment = 0 /\ cfg.chunk % cfg.alignment = 0
          BY <2>3 DEF WellFormed
    <3>2. PICK a \in Positive : a = cfg.alignment
          BY <2>3 DEF Config, Positive
    <3>3. PICK b \in Nat : cfg.base = b * a
      <4>1. PICK base \in Nat : base = cfg.base
            BY DEF Config
      <4> QED BY <3>1, <3>2, <4>1, ModZeroMultiple
    <3>4. PICK m \in Nat : Slice(cfg, share, w) = m * a
      <4>1. \A v \in Widths(cfg) : Budget(cfg, v, share[v]) \in Nat
            BY <1>2 DEF Positive
      <4> QED BY <1>1, <2>3, <3>2, <4>1, SliceAligned
    <3>5. cls.at = m * a
          BY <2>1, <3>4
    <3>6. b * a + m * a = (b + m) * a /\ b + m \in Int
          BY DEF Positive
    <3>7. ((b + m) * a) % a = 0
          BY <3>6, ModZero
    <3> QED BY <3>1, <3>2, <3>3, <3>5, <3>6, <3>7
  <2> QED BY <1>1, <2>2, <2>3 DEF TableAccepts
<1> QED BY <1>3, <1>4, <1>5 DEF Fits

-----------------------------------------------------------------------------
(* The slots and their reads, for a registration `cfg` and a layout `lay` *)

\* Where slot k of class c starts in the storage: row_ptr of the class's table.
BaseOf(lay, c, k) == lay.classes[c].at + k * lay.classes[c].slotBytes
\* The extent of a row that the table of class c calls `row`: extents[global_of].
ExtentOf(cfg, lay, c, row) == cfg.extent[lay.globalOf[c][row + 1]]

\* The size of the shard the row is in: sources[shard].bytes.
SourceOf(cfg, lay, c, row) == cfg.sources[ExtentOf(cfg, lay, c, row).shard]

\* The reads of a fill of slot k of class c with `row`.
FillOf(cfg, lay, c, k, row) ==
    LET reads == ReadsOf(ExtentOf(cfg, lay, c, row), BaseOf(lay, c, k), cfg.alignment, cfg.chunk,
                         SourceOf(cfg, lay, c, row))
    IN  [n \in DOMAIN reads |-> [shard |-> ExtentOf(cfg, lay, c, row).shard, from |-> reads[n].from,
                                 to |-> reads[n].to, length |-> reads[n].length, state |-> "pending"]]

\* The rows of class c, as its table numbers them.
LocalRows(cfg, lay, c) == {lay.localOf[r] : r \in {q \in Rows(cfg) : lay.classOf[q] = c}}

\* The slots of class c.
SlotsOf(lay, c) == 0 .. lay.classes[c].budget - 1

\* What a slot that is filling or ready was given.
Occupied(cfg, lay, c, row, head) ==
    /\ row \in LocalRows(cfg, lay, c)
    /\ ExtentOf(cfg, lay, c, row).shard \in DOMAIN cfg.sources
    /\ ExtentOf(cfg, lay, c, row).offset <= SourceOf(cfg, lay, c, row)
    /\ ExtentOf(cfg, lay, c, row).length <= SourceOf(cfg, lay, c, row) - ExtentOf(cfg, lay, c, row).offset
    /\ head = HeadOf(ExtentOf(cfg, lay, c, row).offset, cfg.alignment)

\* The storage `sto` holds what read r was to bring.
Holds(sto, r) == \A b \in r.to .. r.to + r.length - 1 : sto[b] = <<r.shard, r.from + (b - r.to)>>

\* Read r of a slot is read p of its fill.
Tracks(p, r) == r.shard = p.shard /\ r.from = p.from /\ r.to = p.to /\ r.length = p.length

\* Where no late read can meet a fill that it does not stop, no read that nobody waits for comes near fill f ...
Clear(cfg, drp, f) == Guarded(cfg) => \A n \in DOMAIN f : \A d \in drp : Apart(f[n], d)
\* ... and what it was to bring is there: read by read while the slot is filling, all of it when it is ready.
Brought(cfg, f, sto, s) ==
    Guarded(cfg) => \A n \in DOMAIN f :
        s.state = "ready" \/ (s.state = "filling" /\ s.reads[n].state = "ok") => Holds(sto, f[n])

\* Slot s of fill f.
Shows(cfg, f, drp, sto, s) ==
    /\ Clear(cfg, drp, f)
    /\ s.state = "filling" => DOMAIN s.reads = DOMAIN f /\ \A n \in DOMAIN f : Tracks(f[n], s.reads[n])
    /\ Brought(cfg, f, sto, s)

\* A slot has reads only while it is filling; filling or ready, it was given a row and shows it.
GoodSlot(cfg, lay, drp, sto, c, k, s) ==
    /\ s.state # "filling" => s.reads = <<>>
    /\ s.state \in {"filling", "ready"} =>
        /\ Occupied(cfg, lay, c, s.row, s.head)
        /\ Shows(cfg, FillOf(cfg, lay, c, k, s.row), drp, sto, s)

-----------------------------------------------------------------------------
(* The invariant *)

\* A read of a fill, or one that was dropped.
ReadRecord == [shard : Int, from : Int, to : Int, length : Int, state : {"pending", "ok", "failed"}]
\* A slot of a class's table.
SlotRecord == [row : Int, state : {"free", "filling", "ready", "failed"}, pins : Int, reads : Seq(ReadRecord),
               head : Int]
\* A lease in a caller's array.
LeaseRecord == [cls : Int, slot : Int, row : Int, from : Int, bytes : Int, asked : Int]
\* The calls of the interface.
Ops == {"none", "try", "resolve", "prefetch", "drain"}
\* Where a call is.
Points == {"idle", "row", "admit", "await", "unwind", "split", "prefetch", "drain", "returned"}
\* What a call returns.
Statuses == {"ok", "out_of_range", "fill_failed", "pool_exhausted", "batch_too_large", "timeout"}
\* A call, with what it found when it started.
CallRecord == [op : Ops, pc : Points, rows : Seq(Nat), i : Int, cls : Int, status : Statuses,
               before : Seq(LeaseRecord), await : SUBSET (Int \X Int)]

\* The storage is a byte array of the size it was registered with.
IsStorage(cfg, sto) == DOMAIN sto = 0 .. cfg.storage - 1
\* There is a table for each class, with a slot for each row of its budget.
SlotTables(lay, sl) ==
    DOMAIN sl = DOMAIN lay.classes /\ \A c \in DOMAIN sl : sl[c] \in [SlotsOf(lay, c) -> SlotRecord]
\* The types of the variables.
TypeInv ==
    /\ config \in Configs
    /\ IsStorage(config, storage)
    /\ dropped \subseteq ReadRecord
    /\ SlotTables(layout, slots)
    /\ out \in [Callers -> [1 .. OutSize -> LeaseRecord]]
    /\ call \in [Callers -> CallRecord]

\* Before the tables are made there is nothing; then the layout is good.
CreatedInv ==
    IF created = "ok" THEN GoodLayout(config, layout)
    ELSE /\ slots = <<>> /\ dropped = {}
         /\ \A t \in Callers : call[t].pc = "idle" /\ \A i \in 1 .. OutSize : out[t][i] = NoLease

\* Where no late read can meet a fill that it does not stop, the reads that were dropped are of the shard of
\* every row: rows have one shard, or there are no such reads.
GoodDropped(cfg, drp) == Guarded(cfg) => \A d \in drp : \A r \in Rows(cfg) : d.shard = cfg.extent[r].shard

\* Every slot of every class is good.
AllSlots(cfg, lay, drp, sto, sl) ==
    \A c \in DOMAIN sl : \A k \in SlotsOf(lay, c) : GoodSlot(cfg, lay, drp, sto, c, k, sl[c][k])

\* A lease is on a slot that has the row it was asked for; it has bytes only if the slot is ready.
GoodLease(cfg, lay, sl, l) ==
    l # NoLease =>
        /\ l.asked \in Rows(cfg)
        /\ l.cls = lay.classOf[l.asked] /\ l.row = lay.localOf[l.asked]
        /\ l.slot \in SlotsOf(lay, l.cls)
        /\ sl[l.cls][l.slot].row = l.row
        /\ l.bytes # 0 =>
            /\ sl[l.cls][l.slot].state = "ready"
            /\ l.from = BaseOf(lay, l.cls, l.slot) + sl[l.cls][l.slot].head
            /\ l.bytes = lay.classes[l.cls].width
\* Every lease in a caller's array is good.
AllLeases(cfg, lay, sl, o) == \A t \in Callers : \A i \in 1 .. OutSize : GoodLease(cfg, lay, sl, o[t][i])

\* The leases on slot k of class c, and the pins that count them.
Leases(o, c, k) == {x \in Callers \X (1 .. OutSize) : o[x[1]][x[2]].cls = c /\ o[x[1]][x[2]].slot = k}
\* n is the number of leases on slot k of class c.
GoodPins(o, c, k, n) == IsFiniteSet(Leases(o, c, k)) /\ n = Cardinality(Leases(o, c, k))
\* The pins of every slot count its leases.
AllPins(lay, sl, o) == \A c \in DOMAIN sl : \A k \in SlotsOf(lay, c) : GoodPins(o, c, k, sl[c][k].pins)

\* What a call in resolve_into knows: the leases it has not come to are the caller's from before.
Resolving(o, k) ==
    /\ k.op = "resolve"
    /\ k.i <= OutSize
    /\ Len(k.before) = OutSize
    /\ \A j \in 1 .. OutSize : j > k.i => o[j] = k.before[j]
\* What a call in resolve_into knows of the row it is at, and what is left when it has failed.
AtRow(cfg, o, k) ==
    /\ k.pc \in {"row", "admit", "await", "unwind"} => Resolving(o, k)
    /\ k.pc \in {"row", "admit", "await"} => k.i \in DOMAIN k.rows /\ Len(k.rows) <= OutSize
    /\ k.pc = "row" => o[k.i] = k.before[k.i]
    /\ k.pc = "admit" => o[k.i] = NoLease /\ k.rows[k.i] \in Rows(cfg)
    /\ k.pc = "await" => o[k.i] # NoLease
    /\ k.pc = "unwind" => k.status # "ok"
    /\ k.op = "resolve" /\ k.pc = "returned" /\ k.status # "ok" =>
        \A j \in 1 .. OutSize : o[j] \in {NoLease, k.before[j]}
\* What a call in prefetch knows: its rows are in range; the row it is at is of the class it is at.
AtClass(cfg, lay, k) ==
    /\ k.pc \in {"split", "prefetch"} => k.op = "prefetch" /\ Range(k.rows) \subseteq Rows(cfg)
    /\ k.pc = "split" => k.cls > 0
    /\ k.pc = "prefetch" => k.i \in DOMAIN k.rows /\ lay.classOf[k.rows[k.i]] = k.cls
\* What a call in drain knows: the old fills that have not ended are in classes it has not passed.
Draining(lay, sl, k) ==
    /\ k.pc = "drain" =>
        /\ k.op = "drain"
        /\ \A x \in k.await : /\ x[1] \in DOMAIN sl /\ x[2] \in SlotsOf(lay, x[1]) /\ x[1] >= k.cls
                              /\ sl[x[1]][x[2]].state = "filling"
    /\ k.op = "drain" /\ k.pc = "returned" /\ k.status = "ok" => k.await = {}
\* What a call knows, whichever it is.
GoodCall(cfg, lay, sl, o, k) == AtRow(cfg, o, k) /\ AtClass(cfg, lay, k) /\ Draining(lay, sl, k)
\* What every call knows.
AllCalls(cfg, lay, sl, o, cl) == \A t \in Callers : GoodCall(cfg, lay, sl, o[t], cl[t])

\* The inductive invariant: types, layout, dropped reads, slots, leases, pins and calls.
Inv ==
    /\ TypeInv
    /\ CreatedInv
    /\ GoodDropped(config, dropped)
    /\ AllSlots(config, layout, dropped, storage, slots)
    /\ AllLeases(config, layout, slots, out)
    /\ AllPins(layout, slots, out)
    /\ AllCalls(config, layout, slots, out, call)

-----------------------------------------------------------------------------
(* Multiples *)

\* The multiples of a are closed under sums, differences and products.
LEMMA MultiplesFacts ==
    ASSUME NEW a \in Positive
    PROVE  /\ Multiples(a) \subseteq Nat /\ 0 \in Multiples(a)
           /\ \A x, y \in Multiples(a) : x + y \in Multiples(a)
           /\ \A x, y \in Multiples(a) : x >= y => x - y \in Multiples(a)
           /\ \A n \in Nat : \A x \in Multiples(a) : n * x \in Multiples(a)
<1>0. a \in Nat /\ a > 0
      BY DEF Positive
<1>1. Multiples(a) \subseteq Nat /\ 0 \in Multiples(a)
  <2>1. 0 = 0 * a /\ \A m \in Nat : m * a \in Nat
        BY <1>0
  <2> QED BY <2>1 DEF Multiples
<1>2. ASSUME NEW x \in Multiples(a), NEW y \in Multiples(a)
      PROVE  x + y \in Multiples(a) /\ (x >= y => x - y \in Multiples(a))
  <2>1. PICK m \in Nat : x = m * a
        BY DEF Multiples
  <2>2. PICK n \in Nat : y = n * a
        BY DEF Multiples
  <2>3. x + y = (m + n) * a /\ m + n \in Nat
        BY <1>0, <2>1, <2>2
  <2>4. x - y = (m - n) * a
        BY <1>0, <2>1, <2>2
  <2>5. x >= y => m >= n
    <3>1. SUFFICES ASSUME n >= m + 1 PROVE y > x
          BY <1>0, <1>1
    <3>2. n * a >= (m + 1) * a /\ (m + 1) * a = m * a + a /\ m * a \in Int /\ n * a \in Int
          BY <1>0, <3>1
    <3> QED BY <1>0, <2>1, <2>2, <3>2
  <2>6. x >= y => m - n \in Nat
        BY <2>5
  <2> QED BY <2>3, <2>4, <2>6 DEF Multiples
<1>3. ASSUME NEW n \in Nat, NEW x \in Multiples(a) PROVE n * x \in Multiples(a)
  <2>1. PICK m \in Nat : x = m * a
        BY DEF Multiples
  <2>2. n * (m * a) = (n * m) * a /\ n * m \in Nat
        BY <1>0
  <2> QED BY <2>1, <2>2 DEF Multiples
<1> QED BY <1>1, <1>2, <1>3

\* The multiples of a are what has no remainder.
LEMMA MultipleMod ==
    ASSUME NEW a \in Positive, NEW n \in Nat
    PROVE  n \in Multiples(a) <=> n % a = 0
<1>1. ASSUME n \in Multiples(a) PROVE n % a = 0
  <2>1. PICK m \in Nat : n = m * a
        BY <1>1 DEF Multiples
  <2> QED BY <2>1, ModZero
<1>2. ASSUME n % a = 0 PROVE n \in Multiples(a)
      BY <1>2, ModZeroMultiple DEF Multiples
<1> QED BY <1>1, <1>2

-----------------------------------------------------------------------------
(* The reads of a window *)

\* Read n starts within the window, is not empty, and ends within it.
LEMMA StepFacts ==
    ASSUME NEW step \in Positive, NEW bytes \in Positive, NEW n \in 1 .. ReadCount(step, bytes)
    PROVE  /\ (n - 1) * step \in Nat
           /\ Lesser(step, bytes - (n - 1) * step) \in Positive
           /\ (n - 1) * step + Lesser(step, bytes - (n - 1) * step) <= bytes
<1>1. PICK q \in Nat : q = ReadCount(step, bytes) /\ q * step <= bytes + step - 1
  <2>1. bytes + step - 1 \in Nat
        BY DEF Positive
  <2> QED BY <2>1, DivBounds DEF ReadCount
<1>2. n \in Nat /\ n <= q /\ n - 1 \in Nat /\ q \in Nat
      BY <1>1
<1>3. PICK m \in Nat : m = (n - 1) * step
      BY <1>2 DEF Positive
<1>4. n * step = m + step
      BY <1>2, <1>3 DEF Positive
<1>5. n * step <= q * step /\ q * step \in Int /\ n * step \in Int
      BY <1>2 DEF Positive
<1>6. m < bytes
      BY <1>1, <1>4, <1>5 DEF Positive
<1>7. Lesser(step, bytes - m) \in Positive /\ m + Lesser(step, bytes - m) <= bytes
      BY <1>6 DEF Lesser, Positive
<1> QED BY <1>3, <1>7

\* The reads before a read end before it starts.
LEMMA StepsApart ==
    ASSUME NEW step \in Positive, NEW m \in Nat, NEW n \in Nat, m < n
    PROVE  (m - 1) * step + step <= (n - 1) * step /\ (m - 1) * step \in Int /\ (n - 1) * step \in Int
<1>1. (m - 1) * step + step = m * step
      BY DEF Positive
<1>2. m <= n - 1 /\ n - 1 \in Nat
      OBVIOUS
<1>3. m * step <= (n - 1) * step
      BY <1>2 DEF Positive
<1>4. (m - 1) * step \in Int /\ (n - 1) * step \in Int
      BY DEF Positive
<1> QED BY <1>1, <1>3, <1>4

\* The window of extent e: `bytes` bytes at `from`, read by `step`.
WindowIs(e, alignment, chunk, source, from, bytes, step) ==
    /\ from = WindowFrom(e.offset, alignment)
    /\ from + bytes = WindowTo(e.offset, e.length, alignment, source)
    /\ from <= e.offset /\ e.offset + e.length <= from + bytes
    /\ from + bytes <= source /\ bytes <= SlotFor(e.length, alignment)
    /\ step = Step(e.length, alignment, chunk, bytes)
    /\ ReadCount(step, bytes) \in Nat
    /\ ReadCount(step, bytes) <= ChunksPerRow(e.length, alignment, chunk)

\* The reads of that window into the slot at `base`: step by step, the last one shorter.
WindowReads(e, base, alignment, chunk, source, from, bytes, step) ==
    /\ WindowIs(e, alignment, chunk, source, from, bytes, step)
    /\ ReadsOf(e, base, alignment, chunk, source) =
        [n \in 1 .. ReadCount(step, bytes) |->
            [from |-> from + (n - 1) * step, to |-> base + (n - 1) * step,
             length |-> Lesser(step, bytes - (n - 1) * step)]]

\* A row that lies within the source has such a window.
LEMMA WindowFacts ==
    ASSUME NEW e, e.offset \in Nat, e.length \in Positive, NEW base \in Nat, NEW alignment \in Nat,
           NEW chunk \in Nat, NEW source \in Nat, e.offset + e.length <= source
    PROVE  \E from \in Nat : \E bytes \in Positive : \E step \in Positive :
                WindowReads(e, base, alignment, chunk, source, from, bytes, step)
<1>1. PICK o \in Nat : o = e.offset
      OBVIOUS
<1>2. PICK w \in Positive : w = e.length
      OBVIOUS
<1>3. o + w <= source
      BY <1>1, <1>2
<1>4. PICK from \in Nat : from = WindowFrom(o, alignment)
      BY <1>3, WindowFitsSlot
<1>5. PICK to \in Nat : to = WindowTo(o, w, alignment, source)
      BY <1>3, WindowFitsSlot
<1>6. PICK slot \in Positive : slot = SlotFor(w, alignment)
      BY SlotForFacts
<1>7. from <= o /\ o + w <= to /\ to <= source /\ to - from <= slot
      BY <1>3, <1>4, <1>5, <1>6, WindowFitsSlot
<1>8. PICK bytes \in Positive : bytes = to - from /\ from + bytes = to
      BY <1>7 DEF Positive
<1>9. PICK step : step = Step(w, alignment, chunk, bytes)
      OBVIOUS
<1>10. step \in Positive
  <2>1. CASE ChunksPerRow(w, alignment, chunk) > 1
    <3>1. step = chunk
          BY <1>9, <2>1 DEF Step
    <3>2. chunk # 0
          BY <2>1 DEF ChunksPerRow
    <3> QED BY <3>1, <3>2 DEF Positive
  <2>2. CASE ~(ChunksPerRow(w, alignment, chunk) > 1)
        BY <1>9, <2>2 DEF Step
  <2> QED BY <2>1, <2>2
<1>11. bytes <= SlotFor(w, alignment) /\ SlotFor(w, alignment) \in Nat
      BY <1>6, <1>7, <1>8 DEF Positive
<1>12. ReadCount(step, bytes) <= ChunksPerRow(w, alignment, chunk)
      BY <1>9, <1>11, ReadsFitClaims
<1>13. ReadCount(step, bytes) \in Nat
  <2>1. bytes + step - 1 \in Nat
        BY <1>10 DEF Positive
  <2> QED BY <1>10, <2>1, DivBounds DEF ReadCount
<1>14. ReadsOf(e, base, alignment, chunk, source) =
                [n \in 1 .. ReadCount(step, bytes) |->
                    [from |-> from + (n - 1) * step, to |-> base + (n - 1) * step,
                     length |-> Lesser(step, bytes - (n - 1) * step)]]
  <2>1. WindowTo(e.offset, e.length, alignment, source) - WindowFrom(e.offset, alignment) = bytes
        BY <1>1, <1>2, <1>4, <1>5, <1>8
  <2>2. WindowFrom(e.offset, alignment) = from /\ Step(e.length, alignment, chunk, bytes) = step
        BY <1>1, <1>2, <1>4, <1>9
  <2> QED BY <2>1, <2>2, Zenon DEF ReadsOf
<1>15. /\ from = WindowFrom(e.offset, alignment)
       /\ from + bytes = WindowTo(e.offset, e.length, alignment, source)
       /\ from <= e.offset /\ e.offset + e.length <= from + bytes
       /\ from + bytes <= source /\ bytes <= SlotFor(e.length, alignment)
       /\ step = Step(e.length, alignment, chunk, bytes)
       /\ ReadCount(step, bytes) <= ChunksPerRow(e.length, alignment, chunk)
      BY <1>1, <1>2, <1>4, <1>5, <1>7, <1>8, <1>9, <1>11, <1>12
<1>16. WindowIs(e, alignment, chunk, source, from, bytes, step)
      BY <1>13, <1>15 DEF WindowIs
<1>17. WindowReads(e, base, alignment, chunk, source, from, bytes, step)
      BY <1>14, <1>16, Zenon DEF WindowReads
<1> QED BY <1>10, <1>17

-----------------------------------------------------------------------------
(* Where the slots are *)

\* A slot lies within the slice of its class, and so within the storage.
LEMMA SlotRange ==
    ASSUME NEW cfg, NEW lay, Config(cfg), GoodLayout(cfg, lay), NEW c \in DOMAIN lay.classes, NEW k \in SlotsOf(lay, c)
    PROVE  /\ BaseOf(lay, c, k) \in Nat
           /\ lay.classes[c].slotBytes \in Positive
           /\ lay.classes[c].at <= BaseOf(lay, c, k)
           /\ BaseOf(lay, c, k) + lay.classes[c].slotBytes
                <= lay.classes[c].at + lay.classes[c].budget * lay.classes[c].slotBytes
           /\ BaseOf(lay, c, k) + lay.classes[c].slotBytes <= cfg.storage
<1>1. GoodClass(cfg, lay.classes[c])
      BY DEF GoodLayout
<1>2. PICK at \in Nat : at = lay.classes[c].at
      BY <1>1 DEF GoodClass
<1>3. PICK s \in Positive : s = lay.classes[c].slotBytes
      BY <1>1 DEF GoodClass
<1>4. PICK b \in Positive : b = lay.classes[c].budget
      BY <1>1 DEF GoodClass
<1>5. at + b * s <= cfg.storage
      BY <1>1, <1>2, <1>3, <1>4 DEF GoodClass
<1>6. k \in Nat /\ k + 1 <= b
      BY <1>4 DEF SlotsOf, Positive
<1>7. PICK p \in Nat : p = k * s
      BY <1>6 DEF Positive
<1>8. PICK q \in Nat : q = b * s
      BY DEF Positive
<1>9. (k + 1) * s <= b * s /\ (k + 1) * s = k * s + s
      BY <1>6 DEF Positive
<1>10. p + s <= q
      BY <1>7, <1>8, <1>9
<1>11. BaseOf(lay, c, k) = at + p
      BY <1>2, <1>3, <1>7 DEF BaseOf
<1>12. at + q <= cfg.storage /\ cfg.storage \in Nat
      BY <1>5, <1>8 DEF Config
<1>13. at + p + s <= at + q /\ at + p + s <= cfg.storage /\ at <= at + p /\ at + p \in Nat
      BY <1>10, <1>12 DEF Positive
<1> QED BY <1>2, <1>3, <1>4, <1>8, <1>11, <1>13

\* Two slots, of one class or of two, do not overlap.
LEMMA SlotsApart ==
    ASSUME NEW cfg, NEW lay, Config(cfg), GoodLayout(cfg, lay),
           NEW c \in DOMAIN lay.classes, NEW k \in SlotsOf(lay, c),
           NEW d \in DOMAIN lay.classes, NEW j \in SlotsOf(lay, d), c # d \/ k # j
    PROVE  \/ BaseOf(lay, c, k) + lay.classes[c].slotBytes <= BaseOf(lay, d, j)
           \/ BaseOf(lay, d, j) + lay.classes[d].slotBytes <= BaseOf(lay, c, k)
<1>0. PICK n \in Nat : DOMAIN lay.classes = 1 .. n
      BY DEF GoodLayout
<1>1. ASSUME NEW a \in DOMAIN lay.classes, NEW x \in SlotsOf(lay, a),
             NEW b \in DOMAIN lay.classes, NEW y \in SlotsOf(lay, b), a < b
      PROVE  BaseOf(lay, a, x) + lay.classes[a].slotBytes <= BaseOf(lay, b, y)
  <2>1. PICK end : end = lay.classes[a].at + lay.classes[a].budget * lay.classes[a].slotBytes
        OBVIOUS
  <2>2. PICK start \in Nat : start = lay.classes[b].at
        BY DEF GoodLayout, GoodClass
  <2>3. end <= start
        BY <1>1, <2>1, <2>2 DEF GoodLayout, Ordered
  <2>4. PICK p \in Nat : p = BaseOf(lay, a, x)
        BY SlotRange
  <2>5. PICK q \in Nat : q = BaseOf(lay, b, y)
        BY SlotRange
  <2>6. PICK s \in Nat : s = lay.classes[a].slotBytes
        BY SlotRange DEF Positive
  <2>7. p + s <= end
        BY <2>1, <2>4, <2>6, SlotRange
  <2>8. start <= q
        BY <2>2, <2>5, SlotRange
  <2>9. end \in Int
    <3>1. PICK at \in Nat : at = lay.classes[a].at
          BY DEF GoodLayout, GoodClass
    <3>2. PICK m \in Nat : m = lay.classes[a].budget
          BY DEF GoodLayout, GoodClass, Positive
    <3> QED BY <2>1, <2>6, <3>1, <3>2
  <2> QED BY <2>3, <2>4, <2>5, <2>6, <2>7, <2>8, <2>9
<1>2. ASSUME NEW x \in SlotsOf(lay, c), NEW y \in SlotsOf(lay, c), x < y
      PROVE  BaseOf(lay, c, x) + lay.classes[c].slotBytes <= BaseOf(lay, c, y)
  <2>1. PICK at \in Nat : at = lay.classes[c].at
        BY DEF GoodLayout, GoodClass
  <2>2. PICK s \in Positive : s = lay.classes[c].slotBytes
        BY SlotRange
  <2>3. x \in Nat /\ y \in Nat /\ x + 1 <= y
        BY <1>2 DEF SlotsOf
  <2>4. (x + 1) * s <= y * s /\ (x + 1) * s = x * s + s /\ x * s \in Int /\ y * s \in Int
        BY <2>3 DEF Positive
  <2>5. at + x * s + s <= at + y * s
        BY <2>4 DEF Positive
  <2> QED BY <2>1, <2>2, <2>5 DEF BaseOf
<1>3. CASE c = d
  <2>1. k \in Int /\ j \in Int /\ k # j
        BY <1>3 DEF SlotsOf
  <2>2. k < j \/ j < k
        BY <2>1
  <2> QED BY <1>2, <1>3, <2>2
<1>4. CASE c # d
  <2>1. c < d \/ d < c
        BY <1>0, <1>4
  <2> QED BY <1>1, <2>1
<1> QED BY <1>3, <1>4

-----------------------------------------------------------------------------
(* The reads of a fill *)

\* The extent of the row in a slot: as wide as the class, and within the source.
LEMMA OccupiedExtent ==
    ASSUME NEW cfg, NEW lay, Config(cfg), GoodLayout(cfg, lay), NEW c, NEW row, NEW head,
           Occupied(cfg, lay, c, row, head)
    PROVE  /\ ExtentOf(cfg, lay, c, row).offset \in Nat
           /\ ExtentOf(cfg, lay, c, row).length \in Positive
           /\ ExtentOf(cfg, lay, c, row).length = lay.classes[c].width
           /\ SourceOf(cfg, lay, c, row) \in Nat
           /\ ExtentOf(cfg, lay, c, row).offset + ExtentOf(cfg, lay, c, row).length <= SourceOf(cfg, lay, c, row)
           /\ \E r \in Rows(cfg) : ExtentOf(cfg, lay, c, row) = cfg.extent[r]
           /\ ExtentOf(cfg, lay, c, row).shard \in Nat
<1>1. PICK r \in Rows(cfg) : lay.classOf[r] = c /\ lay.localOf[r] = row
      BY DEF Occupied, LocalRows
<1>2. GoodRow(cfg, lay, r)
      BY DEF GoodLayout
<1>3. ExtentOf(cfg, lay, c, row) = cfg.extent[r] /\ c \in DOMAIN lay.classes
      BY <1>1, <1>2 DEF GoodRow, ExtentOf
<1>4. cfg.extent[r].offset \in Nat
      BY DEF Config
<1>5. cfg.extent[r].length = lay.classes[c].width /\ lay.classes[c].width \in Positive
      BY <1>1, <1>2, <1>3 DEF GoodRow, GoodLayout, GoodClass
<1>6. PICK o \in Nat : o = cfg.extent[r].offset
      BY <1>4
<1>7. PICK w \in Positive : w = cfg.extent[r].length
      BY <1>5
<1>8. PICK source \in Nat : source = SourceOf(cfg, lay, c, row)
      BY DEF Occupied, SourceOf, Config
<1>a. o <= source /\ w <= source - o
      BY <1>3, <1>6, <1>7, <1>8 DEF Occupied
<1>9. o + w <= source
      BY <1>a DEF Positive
<1>b. cfg.extent[r].shard \in Nat
      BY DEF Config
<1> QED BY <1>3, <1>5, <1>6, <1>7, <1>8, <1>9, <1>b

\* The fill by the numbers it is made of.
FillReadsIs(cfg, lay, c, k, row, from, bytes, step) ==
    /\ WindowIs(ExtentOf(cfg, lay, c, row), cfg.alignment, cfg.chunk, SourceOf(cfg, lay, c, row), from, bytes, step)
    /\ DOMAIN FillOf(cfg, lay, c, k, row) = 1 .. ReadCount(step, bytes)
    /\ \A n \in 1 .. ReadCount(step, bytes) :
        FillOf(cfg, lay, c, k, row)[n] =
            [shard |-> ExtentOf(cfg, lay, c, row).shard,
             from |-> from + (n - 1) * step, to |-> BaseOf(lay, c, k) + (n - 1) * step,
             length |-> Lesser(step, bytes - (n - 1) * step), state |-> "pending"]
\* The reads of a fill of an occupied slot are the reads of a window of its row.
LEMMA FillIs ==
    ASSUME NEW cfg, NEW lay, Config(cfg), GoodLayout(cfg, lay), NEW c \in DOMAIN lay.classes, NEW k \in SlotsOf(lay, c),
           NEW row, NEW head, Occupied(cfg, lay, c, row, head)
    PROVE  \E from \in Nat : \E bytes \in Positive : \E step \in Positive :
                FillReadsIs(cfg, lay, c, k, row, from, bytes, step)
<1>1. PICK e : e = ExtentOf(cfg, lay, c, row)
      OBVIOUS
<1>2. e.offset \in Nat /\ e.length \in Positive /\ e.offset + e.length <= SourceOf(cfg, lay, c, row)
      BY <1>1, OccupiedExtent
<1>3. PICK base \in Nat : base = BaseOf(lay, c, k)
      BY SlotRange
<1>4. PICK alignment \in Nat : alignment = cfg.alignment
      BY DEF Config
<1>5. PICK chunk \in Nat : chunk = cfg.chunk
      BY DEF Config
<1>6. PICK source \in Nat : source = SourceOf(cfg, lay, c, row)
      BY OccupiedExtent
<1>7. e.offset \in Nat /\ e.length \in Positive /\ e.offset + e.length <= source
      BY <1>2, <1>6
<1>8. PICK from \in Nat, bytes \in Positive, step \in Positive :
            WindowReads(e, base, alignment, chunk, source, from, bytes, step)
      BY <1>7, WindowFacts
<1>9. /\ WindowIs(e, alignment, chunk, source, from, bytes, step)
      /\ ReadsOf(e, base, alignment, chunk, source) =
                [n \in 1 .. ReadCount(step, bytes) |->
                    [from |-> from + (n - 1) * step, to |-> base + (n - 1) * step,
                     length |-> Lesser(step, bytes - (n - 1) * step)]]
      BY <1>8, Zenon DEF WindowReads
<1>11. PICK reads : reads = ReadsOf(e, base, alignment, chunk, source)
      OBVIOUS
<1>12. FillOf(cfg, lay, c, k, row) =
        [n \in DOMAIN reads |-> [shard |-> e.shard, from |-> reads[n].from, to |-> reads[n].to,
                                 length |-> reads[n].length, state |-> "pending"]]
      BY <1>1, <1>3, <1>4, <1>5, <1>6, <1>11, Zenon DEF FillOf
<1>13. DOMAIN reads = 1 .. ReadCount(step, bytes)
      BY <1>9, <1>11, Zenon
<1>14. ASSUME NEW n \in 1 .. ReadCount(step, bytes)
       PROVE  FillOf(cfg, lay, c, k, row)[n] =
                    [shard |-> e.shard, from |-> from + (n - 1) * step, to |-> base + (n - 1) * step,
                     length |-> Lesser(step, bytes - (n - 1) * step), state |-> "pending"]
  <2>1. reads[n] = [from |-> from + (n - 1) * step, to |-> base + (n - 1) * step,
                     length |-> Lesser(step, bytes - (n - 1) * step)]
        BY <1>9, <1>11, Zenon
  <2>2. PICK p : p = from + (n - 1) * step
        OBVIOUS
  <2>3. PICK q : q = base + (n - 1) * step
        OBVIOUS
  <2>4. PICK z : z = Lesser(step, bytes - (n - 1) * step)
        OBVIOUS
  <2>5. PICK r : r = reads[n]
        OBVIOUS
  <2>6. r = [from |-> p, to |-> q, length |-> z]
        BY <2>1, <2>2, <2>3, <2>4, <2>5, Zenon
  <2>7. r.from = p /\ r.to = q /\ r.length = z
        BY <2>6
  <2>8. FillOf(cfg, lay, c, k, row)[n] =
            [shard |-> e.shard, from |-> r.from, to |-> r.to, length |-> r.length, state |-> "pending"]
        BY <1>12, <1>13, <2>5, Zenon
  <2>9. FillOf(cfg, lay, c, k, row)[n] =
            [shard |-> e.shard, from |-> p, to |-> q, length |-> z, state |-> "pending"]
        BY <2>7, <2>8, Zenon
  <2> QED BY <2>2, <2>3, <2>4, <2>9, Zenon
<1>15. DOMAIN FillOf(cfg, lay, c, k, row) = 1 .. ReadCount(step, bytes)
      BY <1>12, <1>13, Zenon
<1>16. WindowIs(ExtentOf(cfg, lay, c, row), cfg.alignment, cfg.chunk, SourceOf(cfg, lay, c, row), from, bytes, step)
      BY <1>1, <1>4, <1>5, <1>6, <1>9
<1>17. \A n \in 1 .. ReadCount(step, bytes) :
                FillOf(cfg, lay, c, k, row)[n] =
                    [shard |-> ExtentOf(cfg, lay, c, row).shard,
                     from |-> from + (n - 1) * step, to |-> BaseOf(lay, c, k) + (n - 1) * step,
                     length |-> Lesser(step, bytes - (n - 1) * step), state |-> "pending"]
      BY <1>1, <1>3, <1>14, Zenon
<1>18. FillReadsIs(cfg, lay, c, k, row, from, bytes, step)
      BY <1>15, <1>16, <1>17, Zenon DEF FillReadsIs
<1> QED BY <1>18

\* The reads of a fill: each within its slot and within the source, at a fixed distance from its source, and
\* no more than the slot has claims for.
LEMMA FillReads ==
    ASSUME NEW cfg, NEW lay, Config(cfg), GoodLayout(cfg, lay), NEW c \in DOMAIN lay.classes, NEW k \in SlotsOf(lay, c),
           NEW row, NEW head, Occupied(cfg, lay, c, row, head), NEW f, f = FillOf(cfg, lay, c, k, row)
    PROVE  /\ f \in Seq(ReadRecord)
           /\ DOMAIN f = 1 .. Len(f)
           /\ Len(f) <= ChunksPerRow(lay.classes[c].width, cfg.alignment, cfg.chunk)
           /\ \A n \in DOMAIN f :
                /\ f[n] \in ReadRecord
                /\ f[n].shard = ExtentOf(cfg, lay, c, row).shard
                /\ f[n].from \in Nat /\ f[n].to \in Nat /\ f[n].length \in Positive /\ f[n].state = "pending"
                /\ BaseOf(lay, c, k) <= f[n].to
                /\ f[n].to + f[n].length <= BaseOf(lay, c, k) + lay.classes[c].slotBytes
                /\ f[n].from + f[n].length <= SourceOf(cfg, lay, c, row)
                /\ f[n].from + head + BaseOf(lay, c, k) = f[n].to + ExtentOf(cfg, lay, c, row).offset
<1>1. PICK e : e = ExtentOf(cfg, lay, c, row)
      OBVIOUS
<1>2. e.length = lay.classes[c].width
      BY <1>1, OccupiedExtent
<1>3. PICK base \in Nat : base = BaseOf(lay, c, k)
      BY SlotRange
<1>a. PICK from \in Nat, bytes \in Positive, step \in Positive :
            FillReadsIs(cfg, lay, c, k, row, from, bytes, step)
      BY FillIs
<1>4.      /\ WindowIs(e, cfg.alignment, cfg.chunk, SourceOf(cfg, lay, c, row), from, bytes, step)
           /\ DOMAIN f = 1 .. ReadCount(step, bytes)
           /\ \A n \in 1 .. ReadCount(step, bytes) :
                f[n] = [shard |-> e.shard, from |-> from + (n - 1) * step, to |-> base + (n - 1) * step,
                        length |-> Lesser(step, bytes - (n - 1) * step), state |-> "pending"]
      BY <1>1, <1>3, <1>a, Zenon DEF FillReadsIs
<1>5. PICK slot \in Positive : slot = lay.classes[c].slotBytes /\ slot = SlotFor(e.length, cfg.alignment)
      BY <1>2 DEF GoodLayout, GoodClass
<1>6. PICK o \in Nat : o = e.offset
      BY <1>1, OccupiedExtent
<1>7. /\ from + bytes <= SourceOf(cfg, lay, c, row) /\ bytes <= slot /\ from <= o
      /\ head = o - from /\ ReadCount(step, bytes) \in Nat
      /\ ReadCount(step, bytes) <= ChunksPerRow(lay.classes[c].width, cfg.alignment, cfg.chunk)
      BY <1>1, <1>2, <1>4, <1>5, <1>6 DEF WindowIs, Occupied, HeadOf
<1>8. ASSUME NEW n \in DOMAIN f
      PROVE  /\ f[n] \in ReadRecord
             /\ f[n].shard = e.shard
             /\ f[n].from \in Nat /\ f[n].to \in Nat /\ f[n].length \in Positive /\ f[n].state = "pending"
             /\ base <= f[n].to /\ f[n].to + f[n].length <= base + slot
             /\ f[n].from + f[n].length <= SourceOf(cfg, lay, c, row)
             /\ f[n].from + head + base = f[n].to + o
  <2>1. n \in 1 .. ReadCount(step, bytes)
        BY <1>4
  <2>2. PICK m \in Nat : m = (n - 1) * step
        BY <2>1, StepFacts
  <2>3. PICK z \in Positive : z = Lesser(step, bytes - m) /\ m + z <= bytes
        BY <2>1, <2>2, StepFacts
  <2>4. f[n] = [shard |-> e.shard, from |-> from + m, to |-> base + m, length |-> z, state |-> "pending"]
        BY <1>4, <2>1, <2>2, <2>3, Zenon
  <2>5. /\ f[n].shard = e.shard /\ f[n].from = from + m /\ f[n].to = base + m
        /\ f[n].length = z /\ f[n].state = "pending"
        BY <2>4
  <2>6. f[n] \in ReadRecord
    <3>1. from + m \in Int /\ base + m \in Int /\ z \in Int
          BY DEF Positive
    <3>2. PICK x \in Int : x = from + m
          BY <3>1
    <3>3. PICK y \in Int : y = base + m
          BY <3>1
    <3>4. PICK v \in Int : v = z
          BY <3>1
    <3>5. PICK z0 \in Int : z0 = e.shard
          BY <1>1, OccupiedExtent
    <3>6. [shard |-> z0, from |-> x, to |-> y, length |-> v, state |-> "pending"] \in ReadRecord
          BY DEF ReadRecord
    <3> QED BY <2>4, <3>2, <3>3, <3>4, <3>5, <3>6
  <2>7. SourceOf(cfg, lay, c, row) \in Nat
        BY OccupiedExtent
  <2> QED BY <1>7, <2>3, <2>5, <2>6, <2>7 DEF Positive
<1>9. f \in Seq(ReadRecord) /\ Len(f) = ReadCount(step, bytes)
  <2>1. PICK q \in Nat : q = ReadCount(step, bytes)
        BY <1>7
  <2>2. f \in [1 .. q -> ReadRecord]
    <3>1. PICK reads :
            f = [n \in DOMAIN reads |->
                    [shard |-> ExtentOf(cfg, lay, c, row).shard, from |-> reads[n].from, to |-> reads[n].to,
                     length |-> reads[n].length, state |-> "pending"]]
          BY Zenon DEF FillOf
    <3>2. DOMAIN f = 1 .. q /\ \A n \in 1 .. q : f[n] \in ReadRecord
          BY <1>4, <1>8, <2>1
    <3>3. PICK g : f = [n \in DOMAIN reads |-> g[n]]
      <4>1. PICK g : g = [n \in DOMAIN reads |->
                            [shard |-> ExtentOf(cfg, lay, c, row).shard, from |-> reads[n].from,
                             to |-> reads[n].to, length |-> reads[n].length, state |-> "pending"]]
            BY Zenon
      <4>2. f = g /\ g = [n \in DOMAIN reads |-> g[n]]
            BY <3>1, <4>1
      <4> QED BY <4>2
    <3> QED BY <3>2, <3>3
  <2> QED BY <2>1, <2>2
<1> QED BY <1>1, <1>3, <1>4, <1>5, <1>6, <1>7, <1>8, <1>9

\* The reads of a fill do not overlap.
LEMMA FillApart ==
    ASSUME NEW cfg, NEW lay, Config(cfg), GoodLayout(cfg, lay), NEW c \in DOMAIN lay.classes, NEW k \in SlotsOf(lay, c),
           NEW row, NEW head, Occupied(cfg, lay, c, row, head), NEW f, f = FillOf(cfg, lay, c, k, row),
           NEW m \in DOMAIN f, NEW n \in DOMAIN f, m # n
    PROVE  Apart(f[m], f[n])
<1>1. PICK base \in Nat : base = BaseOf(lay, c, k)
      BY SlotRange
<1>2. PICK from \in Nat, bytes \in Positive, step \in Positive :
            FillReadsIs(cfg, lay, c, k, row, from, bytes, step)
      BY FillIs
<1>3. PICK q \in Nat : q = ReadCount(step, bytes)
      BY <1>2 DEF FillReadsIs, WindowIs
<1>4. m \in 1 .. q /\ n \in 1 .. q
      BY <1>2, <1>3 DEF FillReadsIs
<1>5. ASSUME NEW x \in 1 .. q
      PROVE  /\ (x - 1) * step \in Nat
             /\ f[x].to = base + (x - 1) * step
             /\ f[x].length \in Nat /\ f[x].length <= step
  <2>1. PICK d \in Nat : d = (x - 1) * step
        BY <1>3, StepFacts
  <2>2. PICK z \in Positive : z = Lesser(step, bytes - d)
        BY <1>3, <2>1, StepFacts
  <2>3. f[x] = [shard |-> ExtentOf(cfg, lay, c, row).shard, from |-> from + d, to |-> base + d, length |-> z, state |-> "pending"]
        BY <1>1, <1>2, <1>3, <2>1, <2>2, Zenon DEF FillReadsIs
  <2>4. f[x].to = base + d /\ f[x].length = z
        BY <2>3
  <2>5. z <= step
        BY <2>2 DEF Lesser, Positive
  <2> QED BY <2>1, <2>4, <2>5 DEF Positive
<1>6. ASSUME NEW x \in 1 .. q, NEW y \in 1 .. q, x < y
      PROVE  f[x].to + f[x].length <= f[y].to
  <2>1. PICK d \in Nat : d = (x - 1) * step
        BY <1>5
  <2>2. PICK e \in Nat : e = (y - 1) * step
        BY <1>5
  <2>3. d + step <= e
        BY <1>6, <2>1, <2>2, StepsApart
  <2>4. f[x].to = base + d /\ f[y].to = base + e /\ f[x].length \in Nat /\ f[x].length <= step
        BY <1>5, <2>1, <2>2
  <2> QED BY <2>3, <2>4 DEF Positive
<1>7. m < n \/ n < m
      BY <1>4
<1> QED BY <1>4, <1>6, <1>7 DEF Apart

\* The reads of a fill bring every byte of the row.
LEMMA FillCovers ==
    ASSUME NEW cfg, NEW lay, Config(cfg), GoodLayout(cfg, lay), NEW c \in DOMAIN lay.classes, NEW k \in SlotsOf(lay, c),
           NEW row, NEW head, Occupied(cfg, lay, c, row, head), NEW f, f = FillOf(cfg, lay, c, k, row),
           NEW b \in 0 .. lay.classes[c].width - 1
    PROVE  /\ head \in Nat
           /\ \E n \in DOMAIN f :
                /\ f[n].to <= BaseOf(lay, c, k) + head + b
                /\ BaseOf(lay, c, k) + head + b < f[n].to + f[n].length
<1>1. PICK base \in Nat : base = BaseOf(lay, c, k)
      BY SlotRange
<1>2. PICK from \in Nat, bytes \in Positive, step \in Positive :
            FillReadsIs(cfg, lay, c, k, row, from, bytes, step)
      BY FillIs
<1>3. PICK o \in Nat : o = ExtentOf(cfg, lay, c, row).offset
      BY OccupiedExtent
<1>4. PICK w \in Positive : w = ExtentOf(cfg, lay, c, row).length /\ w = lay.classes[c].width
      BY OccupiedExtent
<1>5. from <= o /\ o + w <= from + bytes /\ head = o - from
      BY <1>2, <1>3, <1>4 DEF FillReadsIs, WindowIs, Occupied, HeadOf
<1>6. head \in Nat /\ b \in Nat /\ head + b \in 0 .. bytes - 1
      BY <1>4, <1>5 DEF Positive
<1>7. PICK x \in 0 .. bytes - 1 : x = head + b
      BY <1>6
<1>8. PICK n : n = x \div step + 1
      OBVIOUS
<1>9. /\ n \in 1 .. ReadCount(step, bytes)
      /\ (n - 1) * step <= x
      /\ x < (n - 1) * step + Lesser(step, bytes - (n - 1) * step)
      BY <1>8, ReadsCoverWindow
<1>10. PICK d \in Nat : d = (n - 1) * step
      BY <1>9, StepFacts
<1>11. PICK z \in Positive : z = Lesser(step, bytes - d)
      BY <1>9, <1>10, StepFacts
<1>12. f[n] = [shard |-> ExtentOf(cfg, lay, c, row).shard, from |-> from + d, to |-> base + d, length |-> z, state |-> "pending"] /\ n \in DOMAIN f
      BY <1>1, <1>2, <1>9, <1>10, <1>11, Zenon DEF FillReadsIs
<1>13. f[n].to = base + d /\ f[n].length = z
      BY <1>12
<1>14. d <= x /\ x < d + z
      BY <1>9, <1>10, <1>11
<1>15. f[n].to <= base + head + b /\ base + head + b < f[n].to + f[n].length
      BY <1>6, <1>7, <1>13, <1>14 DEF Positive
<1> QED BY <1>1, <1>6, <1>12, <1>15

\* With an alignment, a read starts and goes to a multiple of it, and is one long, up to the end of the source.
LEMMA FillAligned ==
    ASSUME NEW cfg, NEW lay, Config(cfg), GoodLayout(cfg, lay), NEW c \in DOMAIN lay.classes, NEW k \in SlotsOf(lay, c),
           NEW row, NEW head, Occupied(cfg, lay, c, row, head), NEW f, f = FillOf(cfg, lay, c, k, row),
           NEW n \in DOMAIN f, cfg.alignment # 0
    PROVE  /\ f[n].from % cfg.alignment = 0
           /\ (cfg.base + f[n].to) % cfg.alignment = 0
           /\ f[n].length % cfg.alignment = 0 \/ f[n].from + f[n].length = SourceOf(cfg, lay, c, row)
<1>1. PICK base \in Nat : base = BaseOf(lay, c, k)
      BY SlotRange
<1>2. PICK from \in Nat, bytes \in Positive, step \in Positive :
            FillReadsIs(cfg, lay, c, k, row, from, bytes, step)
      BY FillIs
<1>3. PICK a \in Positive : a = cfg.alignment
      BY DEF Config, Positive
<1>4. PICK M : M = Multiples(a)
      OBVIOUS
<1>5. /\ M \subseteq Nat /\ 0 \in M
      /\ \A x, y \in M : x + y \in M
      /\ \A x, y \in M : x >= y => x - y \in M
      /\ \A m \in Nat : \A x \in M : m * x \in M
      BY <1>4, MultiplesFacts
<1>6. \A x \in Nat : x \in M <=> x % a = 0
      BY <1>4, MultipleMod
<1>7. PICK o \in Nat : o = ExtentOf(cfg, lay, c, row).offset
      BY OccupiedExtent
<1>8. PICK w \in Positive : w = ExtentOf(cfg, lay, c, row).length /\ w = lay.classes[c].width
      BY OccupiedExtent
<1>9. \A x \in Nat : RoundDown(x, a) \in M
  <2>1. SUFFICES ASSUME NEW x \in Nat PROVE RoundDown(x, a) \in M
        OBVIOUS
  <2>2. x \div a \in Nat
        BY DivBounds
  <2> QED BY <1>4, <2>2 DEF RoundDown, Multiples
<1>10. from \in M
  <2>1. from = RoundDown(o, a)
        BY <1>2, <1>3, <1>7 DEF FillReadsIs, WindowIs, WindowFrom
  <2> QED BY <1>9, <2>1
<1>11. PICK to \in Nat : to = from + bytes
      BY DEF Positive
<1>a. PICK source \in Nat : source = SourceOf(cfg, lay, c, row)
      BY OccupiedExtent
<1>12. to \in M \/ to = source
  <2>1. to = Lesser(RoundUp(o + w, a), source)
        BY <1>a, <1>2, <1>3, <1>7, <1>8, <1>11 DEF FillReadsIs, WindowIs, WindowTo
  <2>2. RoundUp(o + w, a) = RoundDown(o + w + a - 1, a) /\ o + w + a - 1 \in Nat
        BY DEF RoundUp, Positive
  <2>3. RoundUp(o + w, a) \in M
        BY <1>9, <2>2
  <2> QED BY <2>1, <2>3 DEF Lesser
<1>13. PICK q \in Nat : q = ReadCount(step, bytes)
      BY <1>2 DEF FillReadsIs, WindowIs
<1>14. n \in 1 .. q
      BY <1>2, <1>13 DEF FillReadsIs
<1>15. PICK d \in Nat : d = (n - 1) * step
      BY <1>13, <1>14, StepFacts
<1>16. PICK z \in Positive : z = Lesser(step, bytes - d) /\ d + z <= bytes
      BY <1>13, <1>14, <1>15, StepFacts
<1>17. f[n] = [shard |-> ExtentOf(cfg, lay, c, row).shard, from |-> from + d, to |-> base + d, length |-> z, state |-> "pending"]
      BY <1>1, <1>2, <1>13, <1>14, <1>15, <1>16, Zenon DEF FillReadsIs
<1>18. f[n].from = from + d /\ f[n].to = base + d /\ f[n].length = z
      BY <1>17
<1>19. PICK chunk \in Nat : chunk = cfg.chunk /\ chunk \in M
  <2>1. cfg.chunk \in Nat /\ cfg.chunk % a = 0
        BY <1>3 DEF Config, GoodLayout, GoodClass
  <2> QED BY <1>6, <2>1
<1>20. d \in M /\ (z \in M \/ z = bytes - d)
  <2>1. step = Step(w, cfg.alignment, chunk, bytes)
        BY <1>2, <1>8, <1>19 DEF FillReadsIs, WindowIs
  <2>2. CASE step = chunk
    <3>1. n - 1 \in Nat
          BY <1>14
    <3>2. d \in M
          BY <1>5, <1>15, <1>19, <2>2, <3>1
    <3>3. z = step \/ z = bytes - d
          BY <1>16 DEF Lesser
    <3> QED BY <1>19, <2>2, <3>2, <3>3
  <2>3. CASE step # chunk
    <3>1. step = bytes
          BY <2>1, <2>3 DEF Step
    <3>2. q = 1
          BY <1>13, <3>1, OneRead DEF ReadCount
    <3>3. n = 1
          BY <1>14, <3>2
    <3>4. d = 0
          BY <1>15, <3>3 DEF Positive
    <3>5. z = bytes - d
          BY <1>16, <3>1, <3>4 DEF Lesser, Positive
    <3> QED BY <1>5, <3>4, <3>5
  <2> QED BY <2>2, <2>3
<1>21. from + d \in M
      BY <1>5, <1>10, <1>20
<1>22. z \in M \/ from + d + z = source
  <2>1. CASE z = bytes - d
    <3>1. from + d + z = to /\ z = to - (from + d) /\ to >= from + d
          BY <1>11, <2>1 DEF Positive
    <3>2. CASE to \in M
          BY <1>5, <1>21, <3>1, <3>2
    <3>3. CASE to = source
          BY <3>1, <3>3
    <3> QED BY <1>12, <3>2, <3>3
  <2> QED BY <1>20, <2>1
<1>23. cfg.base + base \in M
  <2>1. PICK at \in Nat : at = lay.classes[c].at
        BY DEF GoodLayout, GoodClass
  <2>2. PICK s \in Positive : s = lay.classes[c].slotBytes /\ s = SlotFor(w, a)
        BY <1>3, <1>8 DEF GoodLayout, GoodClass
  <2>3. s \in M
    <3>1. a \in Nat /\ a # 0
          BY DEF Positive
    <3>2. PICK m \in Nat : SlotFor(w, a) = m * a
          BY <3>1, SlotForFacts
    <3> QED BY <1>4, <2>2, <3>2 DEF Multiples
  <2>4. k \in Nat
        BY DEF SlotsOf
  <2>5. PICK p \in M : p = k * s
        BY <1>5, <2>3, <2>4
  <2>6. base = at + p
        BY <1>1, <2>1, <2>2, <2>5 DEF BaseOf
  <2>7. PICK cb \in Nat : cb = cfg.base
        BY DEF Config
  <2>8. (cb + at) % a = 0 /\ cb + at \in Nat
        BY <1>3, <2>1, <2>7 DEF GoodLayout, GoodClass
  <2>9. cb + at \in M
        BY <1>6, <2>8
  <2>a. p \in Nat
        BY <1>5
  <2>b. (cb + at) + p = cb + base
        BY <2>6, <2>a
  <2>10. (cb + at) + p \in M /\ (cb + at) + p = cb + base
        BY <1>5, <2>b, <2>9
  <2> QED BY <2>7, <2>10
<1>24. cfg.base + (base + d) \in M
  <2>1. (cfg.base + base) + d \in M
        BY <1>5, <1>20, <1>23
  <2>2. cfg.base \in Nat
        BY DEF Config
  <2>3. (cfg.base + base) + d = cfg.base + (base + d)
        BY <2>2
  <2> QED BY <2>1, <2>3
<1>25. (from + d) % a = 0 /\ (cfg.base + (base + d)) % a = 0
      BY <1>5, <1>6, <1>21, <1>24
<1>26. z % a = 0 \/ from + d + z = source
      BY <1>5, <1>6, <1>22
<1> QED BY <1>3, <1>a, <1>18, <1>25, <1>26

-----------------------------------------------------------------------------
(* What a slot shows, and the reads that end *)

\* From `sto` to `sto2`, read r has written its bytes, the right ones if `good`, and no others.
Written(sto, sto2, r, good) ==
    /\ DOMAIN sto2 = DOMAIN sto
    /\ \A b \in DOMAIN sto :
        /\ b < r.to \/ b >= r.to + r.length => sto2[b] = sto[b]
        /\ good /\ r.to <= b /\ b < r.to + r.length => sto2[b] = <<r.shard, r.from + (b - r.to)>>

\* Where a read goes is a range of numbers.
Placed(r) == r.from \in Int /\ r.to \in Int /\ r.length \in Int
\* It is all within the storage.
Stored(sto, r) == \A b \in r.to .. r.to + r.length - 1 : b \in DOMAIN sto
\* It is all within slot k of class c.
InSlot(lay, c, k, r) ==
    /\ Placed(r)
    /\ BaseOf(lay, c, k) <= r.to /\ r.to + r.length <= BaseOf(lay, c, k) + lay.classes[c].slotBytes

\* A read that ends writes where it was to go.
LEMMA CopiedWrites ==
    ASSUME NEW r, Placed(r), NEW failed \in BOOLEAN, DOMAIN storage \subseteq Int, storage' = Copied(r, failed)
    PROVE  Written(storage, storage', r, ~failed)
<1>1. \A b \in DOMAIN storage :
        storage'[b] = IF b < r.to \/ b >= r.to + r.length THEN storage[b]
                      ELSE IF failed THEN Garbage ELSE <<r.shard, r.from + (b - r.to)>>
      BY DEF Copied
<1>2. DOMAIN storage' = DOMAIN storage
      BY DEF Copied
<1>3. ASSUME NEW b \in DOMAIN storage, b < r.to \/ b >= r.to + r.length PROVE storage'[b] = storage[b]
      BY <1>1, <1>3
<1>4. ASSUME NEW b \in DOMAIN storage, ~failed, r.to <= b, b < r.to + r.length
      PROVE  storage'[b] = <<r.shard, r.from + (b - r.to)>>
  <2>1. ~(b < r.to \/ b >= r.to + r.length)
        BY <1>4 DEF Placed
  <2> QED BY <1>1, <1>4, <2>1
<1> QED BY <1>2, <1>3, <1>4 DEF Written

\* A read that goes elsewhere leaves what p brought as it was.
LEMMA HoldsKept ==
    ASSUME NEW sto, NEW sto2, NEW r, NEW good, Written(sto, sto2, r, good), Placed(r),
           NEW p, Placed(p), Stored(sto, p), Apart(p, r), Holds(sto, p)
    PROVE  Holds(sto2, p)
<1>1. SUFFICES ASSUME NEW b \in p.to .. p.to + p.length - 1 PROVE sto2[b] = <<p.shard, p.from + (b - p.to)>>
      BY DEF Holds
<1>2. b \in DOMAIN sto
      BY DEF Stored
<1>3. b < r.to \/ b >= r.to + r.length
      BY DEF Apart, Placed
<1>4. sto2[b] = sto[b]
      BY <1>2, <1>3 DEF Written
<1> QED BY <1>4 DEF Holds

\* A read that ends well has brought its bytes.
LEMMA HoldsNow ==
    ASSUME NEW sto, NEW sto2, NEW p, Written(sto, sto2, p, TRUE), Placed(p), Stored(sto, p)
    PROVE  Holds(sto2, p)
<1>1. SUFFICES ASSUME NEW b \in p.to .. p.to + p.length - 1 PROVE sto2[b] = <<p.shard, p.from + (b - p.to)>>
      BY DEF Holds
<1>2. b \in DOMAIN sto /\ p.to <= b /\ b < p.to + p.length
      BY DEF Stored, Placed
<1> QED BY <1>2 DEF Written

\* So a slot goes on showing what it shows when a read ends that goes elsewhere, if it can show anything.
LEMMA ShowsKept ==
    ASSUME NEW cfg, NEW sto, NEW sto2, NEW r, NEW good, Written(sto, sto2, r, good), Placed(r),
           NEW f, NEW drp, NEW s, \A n \in DOMAIN f : Placed(f[n]) /\ Stored(sto, f[n]),
           Guarded(cfg) => \A n \in DOMAIN f : Apart(f[n], r), Shows(cfg, f, drp, sto, s)
    PROVE  Shows(cfg, f, drp, sto2, s)
<1>1. Guarded(cfg) => \A n \in DOMAIN f : Holds(sto, f[n]) => Holds(sto2, f[n])
      BY HoldsKept
<1>2. Brought(cfg, f, sto2, s)
      BY <1>1 DEF Shows, Brought
<1> QED BY <1>2 DEF Shows

\* And when read m of its own fill ends.
LEMMA ShowsRead ==
    ASSUME NEW cfg, NEW f, NEW m \in DOMAIN f, NEW sto, NEW sto2, NEW good \in BOOLEAN,
           Written(sto, sto2, f[m], good), \A n \in DOMAIN f : Placed(f[n]) /\ Stored(sto, f[n]),
           \A n \in DOMAIN f : n # m => Apart(f[n], f[m]),
           NEW drp, NEW s, Shows(cfg, f, drp, sto, s), NEW s2, s.state = "filling", s2.state = "filling",
           DOMAIN s2.reads = DOMAIN s.reads,
           \A n \in DOMAIN f : n # m => s2.reads[n] = s.reads[n],
           Tracks(s.reads[m], s2.reads[m]), s2.reads[m].state = "ok" => good
    PROVE  Shows(cfg, f, drp, sto2, s2)
<1>1. \A n \in DOMAIN f : n # m /\ Holds(sto, f[n]) => Holds(sto2, f[n])
      BY HoldsKept
<1>2. ASSUME NEW n \in DOMAIN f PROVE Tracks(f[n], s2.reads[n])
      BY DEF Shows, Tracks
<1>3. s2.reads[m].state = "ok" => Holds(sto2, f[m])
  <2>1. SUFFICES ASSUME good = TRUE PROVE Holds(sto2, f[m])
        OBVIOUS
  <2>2. PICK p : p = f[m]
        OBVIOUS
  <2>3. Placed(p) /\ Stored(sto, p) /\ Written(sto, sto2, p, TRUE)
        BY <2>1, <2>2
  <2>4. Holds(sto2, p)
        BY <2>3, HoldsNow
  <2> QED BY <2>2, <2>4
<1>4. ASSUME Guarded(cfg), NEW n \in DOMAIN f, s2.reads[n].state = "ok" PROVE Holds(sto2, f[n])
  <2>1. CASE n = m
        BY <1>3, <1>4, <2>1
  <2>2. CASE n # m
        BY <1>1, <1>4, <2>2 DEF Shows, Brought
  <2> QED BY <2>1, <2>2
<1>5. Brought(cfg, f, sto2, s2)
      BY <1>4 DEF Brought
<1>6. DOMAIN s2.reads = DOMAIN f /\ Clear(cfg, drp, f)
      BY DEF Shows
<1> QED BY <1>2, <1>5, <1>6 DEF Shows

-----------------------------------------------------------------------------
(* The fill of a slot *)

\* The reads of a fill are in their slot, and in the storage.
LEMMA FillInSlot ==
    ASSUME NEW cfg, NEW lay, Config(cfg), GoodLayout(cfg, lay), NEW c \in DOMAIN lay.classes, NEW k \in SlotsOf(lay, c),
           NEW row, NEW head, Occupied(cfg, lay, c, row, head), NEW f, f = FillOf(cfg, lay, c, k, row)
    PROVE  /\ \A n \in DOMAIN f : InSlot(lay, c, k, f[n]) /\ Placed(f[n])
           /\ \A sto : IsStorage(cfg, sto) => \A n \in DOMAIN f : Stored(sto, f[n])
<1>1. \A n \in DOMAIN f :
                /\ f[n].from \in Nat /\ f[n].to \in Nat /\ f[n].length \in Positive
                /\ BaseOf(lay, c, k) <= f[n].to
                /\ f[n].to + f[n].length <= BaseOf(lay, c, k) + lay.classes[c].slotBytes
      BY FillReads
<1>2. ASSUME NEW n \in DOMAIN f PROVE InSlot(lay, c, k, f[n]) /\ Placed(f[n])
      BY <1>1 DEF InSlot, Placed, Positive
<1>3. ASSUME NEW sto, IsStorage(cfg, sto), NEW n \in DOMAIN f PROVE Stored(sto, f[n])
  <2>1. PICK base \in Nat : base = BaseOf(lay, c, k)
        BY SlotRange
  <2>2. PICK z \in Nat : z = lay.classes[c].slotBytes
        BY SlotRange DEF Positive
  <2>3. base + z <= cfg.storage /\ cfg.storage \in Nat
        BY <2>1, <2>2, SlotRange DEF Config
  <2>4. PICK to \in Nat : to = f[n].to
        BY <1>1
  <2>5. PICK l \in Nat : l = f[n].length
        BY <1>1 DEF Positive
  <2>6. to + l <= base + z
        BY <1>1, <2>1, <2>2, <2>4, <2>5
  <2>7. \A b \in to .. to + l - 1 : b \in 0 .. cfg.storage - 1
        BY <2>3, <2>6
  <2> QED BY <1>3, <2>4, <2>5, <2>7 DEF Stored, IsStorage
<1> QED BY <1>2, <1>3

\* What is in one slot is apart from what is in another.
LEMMA InSlotsApart ==
    ASSUME NEW cfg, NEW lay, Config(cfg), GoodLayout(cfg, lay),
           NEW c \in DOMAIN lay.classes, NEW k \in SlotsOf(lay, c),
           NEW d \in DOMAIN lay.classes, NEW j \in SlotsOf(lay, d), c # d \/ k # j,
           NEW p, InSlot(lay, c, k, p), NEW r, InSlot(lay, d, j, r)
    PROVE  Apart(p, r)
<1>1. PICK x \in Nat : x = BaseOf(lay, c, k)
      BY SlotRange
<1>2. PICK y \in Nat : y = BaseOf(lay, d, j)
      BY SlotRange
<1>3. PICK u \in Nat : u = lay.classes[c].slotBytes
      BY SlotRange DEF Positive
<1>4. PICK v \in Nat : v = lay.classes[d].slotBytes
      BY SlotRange DEF Positive
<1>5. x + u <= y \/ y + v <= x
      BY <1>1, <1>2, <1>3, <1>4, SlotsApart
<1>6. /\ p.to \in Int /\ p.length \in Int /\ r.to \in Int /\ r.length \in Int
      /\ x <= p.to /\ p.to + p.length <= x + u /\ y <= r.to /\ r.to + r.length <= y + v
      BY <1>1, <1>2, <1>3, <1>4 DEF InSlot, Placed
<1> QED BY <1>5, <1>6 DEF Apart

\* A read of another slot may end.
LEMMA GoodSlotOther ==
    ASSUME NEW cfg, NEW lay, Config(cfg), GoodLayout(cfg, lay),
           NEW c \in DOMAIN lay.classes, NEW k \in SlotsOf(lay, c),
           NEW d \in DOMAIN lay.classes, NEW j \in SlotsOf(lay, d), c # d \/ k # j,
           NEW drp, NEW sto, IsStorage(cfg, sto), NEW s, GoodSlot(cfg, lay, drp, sto, c, k, s),
           NEW r, InSlot(lay, d, j, r), NEW sto2, NEW good, Written(sto, sto2, r, good)
    PROVE  GoodSlot(cfg, lay, drp, sto2, c, k, s)
<1>1. SUFFICES ASSUME s.state \in {"filling", "ready"}
               PROVE  Shows(cfg, FillOf(cfg, lay, c, k, s.row), drp, sto2, s)
      BY DEF GoodSlot
<1>2. PICK f : f = FillOf(cfg, lay, c, k, s.row)
      OBVIOUS
<1>3. Occupied(cfg, lay, c, s.row, s.head) /\ Shows(cfg, f, drp, sto, s)
      BY <1>1, <1>2 DEF GoodSlot
<1>4. \A n \in DOMAIN f : InSlot(lay, c, k, f[n]) /\ Placed(f[n]) /\ Stored(sto, f[n])
      BY <1>2, <1>3, FillInSlot
<1>5. \A n \in DOMAIN f : Apart(f[n], r)
      BY <1>4, InSlotsApart
<1>6. Placed(r)
      BY DEF InSlot
<1>7. Shows(cfg, f, drp, sto2, s)
      BY <1>3, <1>4, <1>5, <1>6, ShowsKept
<1> QED BY <1>2, <1>7

\* A read that nobody waits for may end.
LEMMA GoodSlotDropEnds ==
    ASSUME NEW cfg, NEW lay, Config(cfg), GoodLayout(cfg, lay),
           NEW c \in DOMAIN lay.classes, NEW k \in SlotsOf(lay, c),
           NEW drp, NEW sto, IsStorage(cfg, sto), NEW s, GoodSlot(cfg, lay, drp, sto, c, k, s),
           NEW r \in drp, Placed(r), NEW sto2, NEW good, Written(sto, sto2, r, good)
    PROVE  GoodSlot(cfg, lay, drp \ {r}, sto2, c, k, s)
<1>1. SUFFICES ASSUME s.state \in {"filling", "ready"}
               PROVE  Shows(cfg, FillOf(cfg, lay, c, k, s.row), drp \ {r}, sto2, s)
      BY DEF GoodSlot
<1>2. PICK f : f = FillOf(cfg, lay, c, k, s.row)
      OBVIOUS
<1>3. Occupied(cfg, lay, c, s.row, s.head) /\ Shows(cfg, f, drp, sto, s)
      BY <1>1, <1>2 DEF GoodSlot
<1>4. \A n \in DOMAIN f : Placed(f[n]) /\ Stored(sto, f[n])
      BY <1>2, <1>3, FillInSlot
<1>5. Guarded(cfg) => \A n \in DOMAIN f : Apart(f[n], r)
      BY <1>3 DEF Shows, Clear
<1>6. Shows(cfg, f, drp, sto2, s)
      BY <1>3, <1>4, <1>5, ShowsKept
<1>7. Shows(cfg, f, drp \ {r}, sto2, s)
      BY <1>6 DEF Shows, Clear
<1> QED BY <1>2, <1>7

\* The reads of another slot may be dropped.
LEMMA GoodSlotDropped ==
    ASSUME NEW cfg, NEW lay, Config(cfg), GoodLayout(cfg, lay),
           NEW c \in DOMAIN lay.classes, NEW k \in SlotsOf(lay, c),
           NEW d \in DOMAIN lay.classes, NEW j \in SlotsOf(lay, d), c # d \/ k # j,
           NEW drp, NEW sto, NEW s, GoodSlot(cfg, lay, drp, sto, c, k, s),
           NEW more, \A r \in more : InSlot(lay, d, j, r)
    PROVE  GoodSlot(cfg, lay, drp \cup more, sto, c, k, s)
<1>1. SUFFICES ASSUME s.state \in {"filling", "ready"}
               PROVE  Shows(cfg, FillOf(cfg, lay, c, k, s.row), drp \cup more, sto, s)
      BY DEF GoodSlot
<1>2. PICK f : f = FillOf(cfg, lay, c, k, s.row)
      OBVIOUS
<1>3. Occupied(cfg, lay, c, s.row, s.head) /\ Shows(cfg, f, drp, sto, s)
      BY <1>1, <1>2 DEF GoodSlot
<1>4. \A n \in DOMAIN f : InSlot(lay, c, k, f[n])
      BY <1>2, <1>3, FillInSlot
<1>5. \A n \in DOMAIN f : \A r \in more : Apart(f[n], r)
      BY <1>4, InSlotsApart
<1>6. Shows(cfg, f, drp \cup more, sto, s)
      BY <1>3, <1>5 DEF Shows, Clear
<1> QED BY <1>2, <1>6

\* What may be dropped of fill f: some of its reads, and none of a fill of one read.
Late(f, more) ==
    /\ \A r \in more : \E n \in DOMAIN f : r.shard = f[n].shard
    /\ Len(f) <= 1 => more = {}

\* The reads of a fill may be dropped, and go on being of the shard of every row or being none: a fill of one
\* read drops nothing.
LEMMA FillDropped ==
    ASSUME NEW cfg, NEW lay, Config(cfg), GoodLayout(cfg, lay),
           NEW c \in DOMAIN lay.classes, NEW k \in SlotsOf(lay, c),
           NEW row, NEW head, Occupied(cfg, lay, c, row, head), NEW f, f = FillOf(cfg, lay, c, k, row),
           NEW drp, GoodDropped(cfg, drp),
           NEW more, Late(f, more)
    PROVE  GoodDropped(cfg, drp \cup more)
<1>1. PICK q \in Rows(cfg) : ExtentOf(cfg, lay, c, row) = cfg.extent[q]
      BY OccupiedExtent
<1>2. \A r \in more : r.shard = cfg.extent[q].shard
      BY <1>1, FillReads DEF Late
<1>3. CASE OneShard(cfg)
  <2>1. \A r \in more : \A p \in Rows(cfg) : r.shard = cfg.extent[p].shard
        BY <1>2, <1>3 DEF OneShard
  <2> QED BY <2>1 DEF GoodDropped
<1>4. CASE OneReadPerRow(cfg)
  <2>1. ChunksPerRow(cfg.extent[q].length, cfg.alignment, cfg.chunk) = 1
        BY <1>4 DEF OneReadPerRow
  <2>2. ChunksPerRow(lay.classes[c].width, cfg.alignment, cfg.chunk) = 1
        BY <1>1, <2>1, OccupiedExtent
  <2>3. Len(f) <= ChunksPerRow(lay.classes[c].width, cfg.alignment, cfg.chunk)
        BY FillReads
  <2>4. more = {}
        BY <2>2, <2>3 DEF Late
  <2> QED BY <2>4 DEF GoodDropped
<1>5. CASE ~Guarded(cfg)
      BY <1>5 DEF GoodDropped
<1> QED BY <1>3, <1>4, <1>5 DEF Guarded

-----------------------------------------------------------------------------
(* A step that changes one slot *)

\* From sl to sl2, slot k of class c has become v, and nothing else has changed.
Changed(lay, sl, sl2, c, k, v) ==
    /\ SlotTables(lay, sl2)
    /\ DOMAIN sl2 = DOMAIN sl
    /\ sl2[c][k] = v
    /\ \A d \in DOMAIN sl : \A j \in SlotsOf(lay, d) : d # c \/ j # k => sl2[d][j] = sl[d][j]

\* Assigning one slot changes that slot and no other.
LEMMA PutSlot ==
    ASSUME NEW lay, NEW sl, SlotTables(lay, sl), NEW c \in DOMAIN sl, NEW k \in SlotsOf(lay, c),
           NEW v \in SlotRecord, NEW sl2, sl2 = [sl EXCEPT ![c][k] = v]
    PROVE  Changed(lay, sl, sl2, c, k, v)
<1>1. sl[c] \in [SlotsOf(lay, c) -> SlotRecord]
      BY DEF SlotTables
<1>2. /\ sl2[c] \in [SlotsOf(lay, c) -> SlotRecord] /\ sl2[c][k] = v
      /\ \A j \in SlotsOf(lay, c) : j # k => sl2[c][j] = sl[c][j]
      BY <1>1
<1>3. DOMAIN sl2 = DOMAIN sl /\ \A d \in DOMAIN sl : d # c => sl2[d] = sl[d]
      OBVIOUS
<1> QED BY <1>2, <1>3 DEF Changed, SlotTables

\* Slots that change in their pins only are as good as before.
LEMMA SlotsPinned ==
    ASSUME NEW cfg, NEW lay, NEW drp, NEW sto, NEW sl, NEW sl2, AllSlots(cfg, lay, drp, sto, sl),
           NEW c \in DOMAIN sl, NEW k \in SlotsOf(lay, c), NEW v, Changed(lay, sl, sl2, c, k, v),
           v.row = sl[c][k].row, v.state = sl[c][k].state, v.reads = sl[c][k].reads, v.head = sl[c][k].head
    PROVE  AllSlots(cfg, lay, drp, sto, sl2)
<1>1. SUFFICES ASSUME NEW d \in DOMAIN sl, NEW j \in SlotsOf(lay, d)
               PROVE  GoodSlot(cfg, lay, drp, sto, d, j, sl2[d][j])
      BY DEF AllSlots, Changed
<1>2. GoodSlot(cfg, lay, drp, sto, d, j, sl[d][j])
      BY DEF AllSlots
<1>3. /\ sl2[d][j].row = sl[d][j].row /\ sl2[d][j].state = sl[d][j].state
      /\ sl2[d][j].reads = sl[d][j].reads /\ sl2[d][j].head = sl[d][j].head
      BY DEF Changed
<1> QED BY <1>2, <1>3 DEF GoodSlot, Shows, Brought

-----------------------------------------------------------------------------
(* Leases *)

\* A slot that has no pins has no lease.
LEMMA Unpinned ==
    ASSUME NEW lay, NEW sl, NEW o, AllPins(lay, sl, o), NEW c \in DOMAIN sl, NEW k \in SlotsOf(lay, c),
           sl[c][k].pins = 0
    PROVE  \A t \in Callers : \A i \in 1 .. OutSize : ~(o[t][i].cls = c /\ o[t][i].slot = k)
<1>1. IsFiniteSet(Leases(o, c, k)) /\ Cardinality(Leases(o, c, k)) = 0
      BY DEF AllPins, GoodPins
<1>2. Leases(o, c, k) = {}
      BY <1>1, FS_EmptySet
<1>3. ASSUME NEW t \in Callers, NEW i \in 1 .. OutSize, o[t][i].cls = c, o[t][i].slot = k PROVE FALSE
  <2>1. <<t, i>> \in Leases(o, c, k)
        BY <1>3 DEF Leases
  <2> QED BY <1>2, <2>1
<1> QED BY <1>3

\* A lease says which slot it is on.
LEMMA LeaseAt ==
    ASSUME NEW cfg, NEW lay, GoodLayout(cfg, lay), NEW sl, SlotTables(lay, sl), NEW l, GoodLease(cfg, lay, sl, l),
           l # NoLease
    PROVE  l.cls \in DOMAIN sl /\ l.slot \in SlotsOf(lay, l.cls)
BY DEF GoodLease, GoodLayout, GoodRow, SlotTables

\* A slot with no lease may change in any way.
LEMMA LeasesElse ==
    ASSUME NEW cfg, NEW lay, GoodLayout(cfg, lay), NEW sl, SlotTables(lay, sl), NEW o, AllLeases(cfg, lay, sl, o),
           NEW c \in DOMAIN sl, NEW k \in SlotsOf(lay, c), NEW sl2, NEW v, Changed(lay, sl, sl2, c, k, v),
           \A t \in Callers : \A i \in 1 .. OutSize : ~(o[t][i].cls = c /\ o[t][i].slot = k)
    PROVE  AllLeases(cfg, lay, sl2, o)
<1>1. SUFFICES ASSUME NEW t \in Callers, NEW i \in 1 .. OutSize PROVE GoodLease(cfg, lay, sl2, o[t][i])
      BY DEF AllLeases
<1>2. PICK l : l = o[t][i]
      OBVIOUS
<1>3. GoodLease(cfg, lay, sl, l) /\ ~(l.cls = c /\ l.slot = k)
      BY <1>2 DEF AllLeases
<1>4. CASE l = NoLease
      BY <1>2, <1>4 DEF GoodLease
<1>5. CASE l # NoLease
  <2>1. l.cls \in DOMAIN sl /\ l.slot \in SlotsOf(lay, l.cls)
        BY <1>3, <1>5, LeaseAt
  <2>2. sl2[l.cls][l.slot] = sl[l.cls][l.slot]
        BY <1>3, <2>1 DEF Changed
  <2>3. GoodLease(cfg, lay, sl2, l)
        BY <1>3, <2>2 DEF GoodLease
  <2> QED BY <1>2, <2>3
<1> QED BY <1>4, <1>5

\* A slot with leases keeps its row, and stays ready once it is.
LEMMA LeasesKept ==
    ASSUME NEW cfg, NEW lay, GoodLayout(cfg, lay), NEW sl, SlotTables(lay, sl), NEW o, AllLeases(cfg, lay, sl, o),
           NEW c \in DOMAIN sl, NEW k \in SlotsOf(lay, c), NEW sl2, NEW v, Changed(lay, sl, sl2, c, k, v),
           v.row = sl[c][k].row, v.head = sl[c][k].head, sl[c][k].state = "ready" => v.state = "ready"
    PROVE  AllLeases(cfg, lay, sl2, o)
<1>1. SUFFICES ASSUME NEW t \in Callers, NEW i \in 1 .. OutSize PROVE GoodLease(cfg, lay, sl2, o[t][i])
      BY DEF AllLeases
<1>2. PICK l : l = o[t][i]
      OBVIOUS
<1>3. GoodLease(cfg, lay, sl, l)
      BY <1>2 DEF AllLeases
<1>4. CASE l = NoLease
      BY <1>2, <1>4 DEF GoodLease
<1>5. CASE l # NoLease
  <2>1. l.cls \in DOMAIN sl /\ l.slot \in SlotsOf(lay, l.cls)
        BY <1>3, <1>5, LeaseAt
  <2>2. PICK s : s = sl[l.cls][l.slot]
        OBVIOUS
  <2>3. PICK s2 : s2 = sl2[l.cls][l.slot]
        OBVIOUS
  <2>4. s2.row = s.row /\ s2.head = s.head /\ (s.state = "ready" => s2.state = "ready")
        BY <2>1, <2>2, <2>3 DEF Changed
  <2>5. GoodLease(cfg, lay, sl2, l)
        BY <1>3, <2>2, <2>3, <2>4 DEF GoodLease
  <2> QED BY <1>2, <2>5
<1> QED BY <1>4, <1>5

\* From o to o2, lease i of caller t has become l.
Given(o, o2, t, i, l) ==
    /\ o2 \in [Callers -> [1 .. OutSize -> LeaseRecord]]
    /\ o2[t][i] = l
    /\ \A u \in Callers : \A j \in 1 .. OutSize : u # t \/ j # i => o2[u][j] = o[u][j]
    /\ \A u \in Callers : u # t => o2[u] = o[u]

\* Assigning one lease changes that lease and no other.
LEMMA PutLease ==
    ASSUME NEW o \in [Callers -> [1 .. OutSize -> LeaseRecord]], NEW t \in Callers, NEW i \in 1 .. OutSize,
           NEW l \in LeaseRecord, NEW o2, o2 = [o EXCEPT ![t][i] = l]
    PROVE  Given(o, o2, t, i, l)
<1>1. o2 \in [Callers -> [1 .. OutSize -> LeaseRecord]]
      OBVIOUS
<1>2. \A u \in Callers : u # t => o2[u] = o[u]
      OBVIOUS
<1>3. o2[t] = [o[t] EXCEPT ![i] = l]
      OBVIOUS
<1>4. o2[t][i] = l /\ \A j \in 1 .. OutSize : j # i => o2[t][j] = o[t][j]
      BY <1>3
<1> QED BY <1>1, <1>2, <1>4 DEF Given

\* Giving a good lease leaves every lease good.
LEMMA LeasesGiven ==
    ASSUME NEW cfg, NEW lay, NEW sl, NEW o, AllLeases(cfg, lay, sl, o), NEW t \in Callers, NEW i \in 1 .. OutSize,
           NEW l, GoodLease(cfg, lay, sl, l), NEW o2, Given(o, o2, t, i, l)
    PROVE  AllLeases(cfg, lay, sl, o2)
BY DEF AllLeases, Given

-----------------------------------------------------------------------------
(* Pins *)

\* A lease given for none is one pin more.
LEMMA PinsMore ==
    ASSUME NEW cfg, NEW lay, GoodLayout(cfg, lay), NEW sl, SlotTables(lay, sl), NEW o, AllPins(lay, sl, o),
           NEW t \in Callers, NEW i \in 1 .. OutSize,
           o[t][i] = NoLease, NEW l, NEW o2, Given(o, o2, t, i, l),
           NEW c \in DOMAIN sl, NEW k \in SlotsOf(lay, c), l.cls = c, l.slot = k,
           NEW sl2, NEW v, Changed(lay, sl, sl2, c, k, v), v.pins = sl[c][k].pins + 1
    PROVE  AllPins(lay, sl2, o2)
<1>0. 0 \notin DOMAIN sl /\ NoLease.cls = 0
      BY DEF GoodLayout, SlotTables, NoLease
<1>1. SUFFICES ASSUME NEW d \in DOMAIN sl, NEW j \in SlotsOf(lay, d) PROVE GoodPins(o2, d, j, sl2[d][j].pins)
      BY DEF AllPins, Changed
<1>2. GoodPins(o, d, j, sl[d][j].pins)
      BY DEF AllPins
<1>3. PICK A : A = Leases(o, d, j)
      OBVIOUS
<1>4. IsFiniteSet(A) /\ sl[d][j].pins = Cardinality(A) /\ <<t, i>> \notin A
      BY <1>0, <1>2, <1>3 DEF GoodPins, Leases
<1>5. CASE d = c /\ j = k
  <2>1. Leases(o2, d, j) = A \cup {<<t, i>>}
    <3>1. ASSUME NEW x \in Callers \X (1 .. OutSize)
          PROVE  x \in Leases(o2, d, j) <=> x \in A \/ x = <<t, i>>
      <4>1. PICK u \in Callers, n \in 1 .. OutSize : x = <<u, n>>
            OBVIOUS
      <4>2. CASE u = t /\ n = i
            BY <1>5, <4>1, <4>2 DEF Leases, Given
      <4>3. CASE u # t \/ n # i
        <5>1. o2[u][n] = o[u][n]
              BY <4>3 DEF Given
        <5>2. x # <<t, i>>
              BY <4>1, <4>3
        <5> QED BY <1>3, <4>1, <5>1, <5>2 DEF Leases
      <4> QED BY <4>2, <4>3
    <3>2. Leases(o2, d, j) \subseteq Callers \X (1 .. OutSize) /\ A \subseteq Callers \X (1 .. OutSize)
          BY <1>3 DEF Leases
    <3> QED BY <3>1, <3>2
  <2>2. IsFiniteSet(A \cup {<<t, i>>}) /\ Cardinality(A \cup {<<t, i>>}) = Cardinality(A) + 1
        BY <1>4, FS_AddElement
  <2>3. sl2[d][j].pins = sl[d][j].pins + 1
        BY <1>5 DEF Changed
  <2> QED BY <1>4, <2>1, <2>2, <2>3 DEF GoodPins
<1>6. CASE d # c \/ j # k
  <2>1. Leases(o2, d, j) = A
    <3>1. ASSUME NEW x \in Callers \X (1 .. OutSize) PROVE x \in Leases(o2, d, j) <=> x \in A
      <4>1. PICK u \in Callers, n \in 1 .. OutSize : x = <<u, n>>
            OBVIOUS
      <4>2. CASE u = t /\ n = i
            BY <1>4, <1>6, <4>1, <4>2 DEF Leases, Given
      <4>3. CASE u # t \/ n # i
        <5>1. o2[u][n] = o[u][n]
              BY <4>3 DEF Given
        <5> QED BY <1>3, <4>1, <5>1 DEF Leases
      <4> QED BY <4>2, <4>3
    <3>2. Leases(o2, d, j) \subseteq Callers \X (1 .. OutSize) /\ A \subseteq Callers \X (1 .. OutSize)
          BY <1>3 DEF Leases
    <3> QED BY <3>1, <3>2
  <2>2. sl2[d][j].pins = sl[d][j].pins
        BY <1>6 DEF Changed
  <2> QED BY <1>4, <2>1, <2>2 DEF GoodPins
<1> QED BY <1>5, <1>6

\* A lease released is one pin less.
LEMMA PinsLess ==
    ASSUME NEW cfg, NEW lay, GoodLayout(cfg, lay), NEW sl, SlotTables(lay, sl), NEW o, AllPins(lay, sl, o),
           NEW t \in Callers, NEW i \in 1 .. OutSize,
           NEW o2, Given(o, o2, t, i, NoLease),
           NEW c \in DOMAIN sl, NEW k \in SlotsOf(lay, c), o[t][i].cls = c, o[t][i].slot = k,
           NEW sl2, NEW v, Changed(lay, sl, sl2, c, k, v), v.pins = sl[c][k].pins - 1
    PROVE  AllPins(lay, sl2, o2)
<1>0. 0 \notin DOMAIN sl /\ NoLease.cls = 0
      BY DEF GoodLayout, SlotTables, NoLease
<1>1. SUFFICES ASSUME NEW d \in DOMAIN sl, NEW j \in SlotsOf(lay, d) PROVE GoodPins(o2, d, j, sl2[d][j].pins)
      BY DEF AllPins, Changed
<1>2. GoodPins(o, d, j, sl[d][j].pins)
      BY DEF AllPins
<1>3. PICK A : A = Leases(o, d, j)
      OBVIOUS
<1>4. IsFiniteSet(A) /\ sl[d][j].pins = Cardinality(A)
      BY <1>2, <1>3 DEF GoodPins
<1>5. CASE d = c /\ j = k
  <2>0. <<t, i>> \in A
        BY <1>3, <1>5 DEF Leases
  <2>1. Leases(o2, d, j) = A \ {<<t, i>>}
    <3>1. ASSUME NEW x \in Callers \X (1 .. OutSize)
          PROVE  x \in Leases(o2, d, j) <=> x \in A /\ x # <<t, i>>
      <4>1. PICK u \in Callers, n \in 1 .. OutSize : x = <<u, n>>
            OBVIOUS
      <4>2. CASE u = t /\ n = i
            BY <1>0, <4>1, <4>2 DEF Leases, Given
      <4>3. CASE u # t \/ n # i
        <5>1. o2[u][n] = o[u][n]
              BY <4>3 DEF Given
        <5>2. x # <<t, i>>
              BY <4>1, <4>3
        <5> QED BY <1>3, <4>1, <5>1, <5>2 DEF Leases
      <4> QED BY <4>2, <4>3
    <3>2. Leases(o2, d, j) \subseteq Callers \X (1 .. OutSize) /\ A \subseteq Callers \X (1 .. OutSize)
          BY <1>3 DEF Leases
    <3> QED BY <3>1, <3>2
  <2>2. IsFiniteSet(A \ {<<t, i>>}) /\ Cardinality(A \ {<<t, i>>}) = Cardinality(A) - 1
        BY <1>4, <2>0, FS_RemoveElement
  <2>3. sl2[d][j].pins = sl[d][j].pins - 1
        BY <1>5 DEF Changed
  <2> QED BY <1>4, <2>1, <2>2, <2>3 DEF GoodPins
<1>6. CASE d # c \/ j # k
  <2>1. Leases(o2, d, j) = A
    <3>1. ASSUME NEW x \in Callers \X (1 .. OutSize) PROVE x \in Leases(o2, d, j) <=> x \in A
      <4>1. PICK u \in Callers, n \in 1 .. OutSize : x = <<u, n>>
            OBVIOUS
      <4>2. CASE u = t /\ n = i
            BY <1>0, <1>3, <1>6, <4>1, <4>2 DEF Leases, Given
      <4>3. CASE u # t \/ n # i
        <5>1. o2[u][n] = o[u][n]
              BY <4>3 DEF Given
        <5> QED BY <1>3, <4>1, <5>1 DEF Leases
      <4> QED BY <4>2, <4>3
    <3>2. Leases(o2, d, j) \subseteq Callers \X (1 .. OutSize) /\ A \subseteq Callers \X (1 .. OutSize)
          BY <1>3 DEF Leases
    <3> QED BY <3>1, <3>2
  <2>2. sl2[d][j].pins = sl[d][j].pins
        BY <1>6 DEF Changed
  <2> QED BY <1>4, <2>1, <2>2 DEF GoodPins
<1> QED BY <1>5, <1>6

\* A lease that stays on its slot changes no pins.
LEMMA PinsSame ==
    ASSUME NEW lay, NEW sl, NEW o, AllPins(lay, sl, o), NEW t \in Callers, NEW i \in 1 .. OutSize,
           NEW l, l.cls = o[t][i].cls, l.slot = o[t][i].slot, NEW o2, Given(o, o2, t, i, l)
    PROVE  AllPins(lay, sl, o2)
<1>1. \A u \in Callers : \A n \in 1 .. OutSize : o2[u][n].cls = o[u][n].cls /\ o2[u][n].slot = o[u][n].slot
      BY DEF Given
<1>2. \A c, k : Leases(o2, c, k) = Leases(o, c, k)
      BY <1>1 DEF Leases
<1> QED BY <1>2 DEF AllPins, GoodPins

\* A change of a slot that is none of its pins.
LEMMA PinsKept ==
    ASSUME NEW lay, NEW sl, NEW o, AllPins(lay, sl, o), NEW c \in DOMAIN sl, NEW k \in SlotsOf(lay, c),
           NEW sl2, NEW v, Changed(lay, sl, sl2, c, k, v), v.pins = sl[c][k].pins
    PROVE  AllPins(lay, sl2, o)
<1>1. SUFFICES ASSUME NEW d \in DOMAIN sl, NEW j \in SlotsOf(lay, d) PROVE GoodPins(o, d, j, sl2[d][j].pins)
      BY DEF AllPins, Changed
<1>2. sl2[d][j].pins = sl[d][j].pins
      BY DEF Changed
<1> QED BY <1>2 DEF AllPins

-----------------------------------------------------------------------------
(* Calls *)

\* From sl to sl2 no fill ends.
FillsGoOn(lay, sl, sl2) ==
    /\ DOMAIN sl2 = DOMAIN sl
    /\ \A d \in DOMAIN sl : \A j \in SlotsOf(lay, d) : sl[d][j].state = "filling" => sl2[d][j].state = "filling"

\* A step of caller t changes nothing for the others.
LEMMA CallsElse ==
    ASSUME NEW cfg, NEW lay, NEW sl, NEW o, NEW cl, AllCalls(cfg, lay, sl, o, cl), NEW t \in Callers,
           NEW sl2, FillsGoOn(lay, sl, sl2), NEW o2, \A u \in Callers : u # t => o2[u] = o[u],
           NEW cl2, \A u \in Callers : u # t => cl2[u] = cl[u], GoodCall(cfg, lay, sl2, o2[t], cl2[t])
    PROVE  AllCalls(cfg, lay, sl2, o2, cl2)
<1>1. SUFFICES ASSUME NEW u \in Callers, u # t PROVE GoodCall(cfg, lay, sl2, o2[u], cl2[u])
      BY DEF AllCalls
<1>2. GoodCall(cfg, lay, sl, o[u], cl[u]) /\ o2[u] = o[u] /\ cl2[u] = cl[u]
      BY <1>1 DEF AllCalls
<1>3. Draining(lay, sl2, cl[u])
      BY <1>2 DEF GoodCall, Draining, FillsGoOn
<1> QED BY <1>2, <1>3 DEF GoodCall

\* The same for a step that is of no caller.
LEMMA CallsGoOn ==
    ASSUME NEW cfg, NEW lay, NEW sl, NEW o, NEW cl, AllCalls(cfg, lay, sl, o, cl), NEW sl2, FillsGoOn(lay, sl, sl2)
    PROVE  AllCalls(cfg, lay, sl2, o, cl)
<1>1. SUFFICES ASSUME NEW u \in Callers PROVE GoodCall(cfg, lay, sl2, o[u], cl[u])
      BY DEF AllCalls
<1>2. GoodCall(cfg, lay, sl, o[u], cl[u])
      BY DEF AllCalls
<1>3. Draining(lay, sl2, cl[u])
      BY <1>2 DEF GoodCall, Draining, FillsGoOn
<1> QED BY <1>2, <1>3 DEF GoodCall

-----------------------------------------------------------------------------
(* What the steps do to the slots and the leases *)

\* The part of the invariant that is about slots, reads, storage and leases.
Held(cfg, lay, drp, sto, sl, o) ==
    /\ Config(cfg) /\ GoodLayout(cfg, lay)
    /\ IsStorage(cfg, sto) /\ drp \subseteq ReadRecord /\ SlotTables(lay, sl)
    /\ o \in [Callers -> [1 .. OutSize -> LeaseRecord]]
    /\ GoodDropped(cfg, drp)
    /\ AllSlots(cfg, lay, drp, sto, sl)
    /\ AllLeases(cfg, lay, sl, o)
    /\ AllPins(lay, sl, o)

\* A slot that differs from another in its pins only.
Pinned(s, v, n) ==
    /\ v \in SlotRecord
    /\ v.row = s.row /\ v.state = s.state /\ v.reads = s.reads /\ v.head = s.head /\ v.pins = n

\* Assigning a slot's pins changes that slot, and only in its pins.
LEMMA PutPins ==
    ASSUME NEW lay, NEW sl, SlotTables(lay, sl), NEW c \in DOMAIN sl, NEW k \in SlotsOf(lay, c), NEW n \in Int,
           NEW sl2, sl2 = [sl EXCEPT ![c][k].pins = n]
    PROVE  \E v : Pinned(sl[c][k], v, n) /\ Changed(lay, sl, sl2, c, k, v)
<1>1. PICK s \in SlotRecord : s = sl[c][k]
      BY DEF SlotTables
<1>2. PICK v : v = [s EXCEPT !.pins = n]
      OBVIOUS
<1>3. Pinned(s, v, n)
      BY <1>2 DEF Pinned, SlotRecord
<1>4. sl2 = [sl EXCEPT ![c][k] = v]
      BY <1>1, <1>2
<1>5. Changed(lay, sl, sl2, c, k, v)
      BY <1>3, <1>4, PutSlot DEF Pinned
<1> QED BY <1>1, <1>3, <1>5

\* A change of pins ends no fill.
LEMMA PinnedGoesOn ==
    ASSUME NEW lay, NEW sl, NEW sl2, NEW c \in DOMAIN sl, NEW k \in SlotsOf(lay, c), NEW v,
           Changed(lay, sl, sl2, c, k, v), sl[c][k].state = "filling" => v.state = "filling"
    PROVE  FillsGoOn(lay, sl, sl2)
BY DEF FillsGoOn, Changed

\* A lease is a record.
LEMMA NoLeaseRecord == NoLease \in LeaseRecord
BY DEF NoLease, NONE, LeaseRecord

\* RowLease::reset: the lease goes, and with it a pin.
LEMMA HeldRelease ==
    ASSUME NEW cfg, NEW lay, NEW drp, NEW sto, NEW sl, NEW o, Held(cfg, lay, drp, sto, sl, o),
           NEW c \in DOMAIN sl, NEW k \in SlotsOf(lay, c),
           NEW t \in Callers, NEW i \in 1 .. OutSize, o[t][i].cls = c, o[t][i].slot = k,
           NEW sl2, sl2 = [sl EXCEPT ![c][k].pins = @ - 1],
           NEW o2, o2 = [o EXCEPT ![t][i] = NoLease]
    PROVE  /\ Held(cfg, lay, drp, sto, sl2, o2)
           /\ FillsGoOn(lay, sl, sl2)
           /\ Given(o, o2, t, i, NoLease)
<1>1. /\ GoodLayout(cfg, lay) /\ SlotTables(lay, sl) /\ o \in [Callers -> [1 .. OutSize -> LeaseRecord]]
      /\ AllSlots(cfg, lay, drp, sto, sl) /\ AllLeases(cfg, lay, sl, o) /\ AllPins(lay, sl, o)
      BY DEF Held
<1>2. Given(o, o2, t, i, NoLease)
      BY <1>1, NoLeaseRecord, PutLease
<1>7. sl[c][k] \in SlotRecord
      BY <1>1 DEF SlotTables
<1>8. sl[c][k].pins - 1 \in Int /\ sl2 = [sl EXCEPT ![c][k].pins = sl[c][k].pins - 1]
      BY <1>7 DEF SlotRecord
<1>9. PICK v : Pinned(sl[c][k], v, sl[c][k].pins - 1) /\ Changed(lay, sl, sl2, c, k, v)
      BY <1>1, <1>8, PutPins
<1>10. /\ v.row = sl[c][k].row /\ v.state = sl[c][k].state /\ v.reads = sl[c][k].reads
       /\ v.head = sl[c][k].head /\ v.pins = sl[c][k].pins - 1
       BY <1>9 DEF Pinned
<1>11. AllSlots(cfg, lay, drp, sto, sl2)
       BY <1>1, <1>9, <1>10, SlotsPinned
<1>12. AllLeases(cfg, lay, sl2, o)
       BY <1>1, <1>9, <1>10, LeasesKept
<1>13. GoodLease(cfg, lay, sl2, NoLease)
       BY DEF GoodLease
<1>14. AllLeases(cfg, lay, sl2, o2)
       BY <1>2, <1>12, <1>13, LeasesGiven
<1>15. AllPins(lay, sl2, o2)
       BY <1>1, <1>2, <1>9, <1>10, PinsLess
<1>16. SlotTables(lay, sl2) /\ o2 \in [Callers -> [1 .. OutSize -> LeaseRecord]]
       BY <1>2, <1>9 DEF Changed, Given
<1>17. FillsGoOn(lay, sl, sl2)
       BY <1>9, <1>10, PinnedGoesOn
<1> QED BY <1>2, <1>11, <1>14, <1>15, <1>16, <1>17 DEF Held

\* What a row that is filling or ready is found by: a lease that is given on its slot, with a pin.
LEMMA HeldPin ==
    ASSUME NEW cfg, NEW lay, NEW drp, NEW sto, NEW sl, NEW o, Held(cfg, lay, drp, sto, sl, o),
           NEW c \in DOMAIN sl, NEW k \in SlotsOf(lay, c),
           NEW t \in Callers, NEW i \in 1 .. OutSize, o[t][i] = NoLease,
           NEW sl2, sl2 = [sl EXCEPT ![c][k].pins = @ + 1],
           NEW l \in LeaseRecord, l.cls = c, l.slot = k, GoodLease(cfg, lay, sl, l),
           NEW o2, o2 = [o EXCEPT ![t][i] = l]
    PROVE  /\ Held(cfg, lay, drp, sto, sl2, o2)
           /\ FillsGoOn(lay, sl, sl2)
           /\ Given(o, o2, t, i, l)
<1>1. /\ GoodLayout(cfg, lay) /\ SlotTables(lay, sl) /\ o \in [Callers -> [1 .. OutSize -> LeaseRecord]]
      /\ AllSlots(cfg, lay, drp, sto, sl) /\ AllLeases(cfg, lay, sl, o) /\ AllPins(lay, sl, o)
      BY DEF Held
<1>2. Given(o, o2, t, i, l)
      BY <1>1, PutLease
<1>7. sl[c][k] \in SlotRecord
      BY <1>1 DEF SlotTables
<1>8. sl[c][k].pins + 1 \in Int /\ sl2 = [sl EXCEPT ![c][k].pins = sl[c][k].pins + 1]
      BY <1>7 DEF SlotRecord
<1>9. PICK v : Pinned(sl[c][k], v, sl[c][k].pins + 1) /\ Changed(lay, sl, sl2, c, k, v)
      BY <1>1, <1>8, PutPins
<1>10. /\ v.row = sl[c][k].row /\ v.state = sl[c][k].state /\ v.reads = sl[c][k].reads
       /\ v.head = sl[c][k].head /\ v.pins = sl[c][k].pins + 1
       BY <1>9 DEF Pinned
<1>11. AllSlots(cfg, lay, drp, sto, sl2)
       BY <1>1, <1>9, <1>10, SlotsPinned
<1>12. AllLeases(cfg, lay, sl2, o)
       BY <1>1, <1>9, <1>10, LeasesKept
<1>13. GoodLease(cfg, lay, sl2, l)
  <2>1. sl2[c][k] = v
        BY <1>9 DEF Changed
  <2> QED BY <1>10, <2>1 DEF GoodLease
<1>14. AllLeases(cfg, lay, sl2, o2)
       BY <1>2, <1>12, <1>13, LeasesGiven
<1>15. AllPins(lay, sl2, o2)
  <2>1. /\ GoodLayout(cfg, lay) /\ SlotTables(lay, sl) /\ AllPins(lay, sl, o)
        /\ o[t][i] = NoLease /\ Given(o, o2, t, i, l) /\ l.cls = c /\ l.slot = k
        /\ Changed(lay, sl, sl2, c, k, v) /\ v.pins = sl[c][k].pins + 1
        BY <1>1, <1>2, <1>9, <1>10
  <2> QED BY <2>1, PinsMore
<1>16. SlotTables(lay, sl2) /\ o2 \in [Callers -> [1 .. OutSize -> LeaseRecord]]
       BY <1>2, <1>9 DEF Changed, Given
<1>17. FillsGoOn(lay, sl, sl2)
       BY <1>9, <1>10, PinnedGoesOn
<1> QED BY <1>2, <1>11, <1>14, <1>15, <1>16, <1>17 DEF Held

\* A lease that gets its bytes.
LEMMA HeldReady ==
    ASSUME NEW cfg, NEW lay, NEW drp, NEW sto, NEW sl, NEW o, Held(cfg, lay, drp, sto, sl, o),
           NEW t \in Callers, NEW i \in 1 .. OutSize,
           NEW l \in LeaseRecord, l.cls = o[t][i].cls, l.slot = o[t][i].slot, GoodLease(cfg, lay, sl, l),
           NEW o2, o2 = [o EXCEPT ![t][i] = l]
    PROVE  Held(cfg, lay, drp, sto, sl, o2) /\ Given(o, o2, t, i, l)
<1>1. /\ o \in [Callers -> [1 .. OutSize -> LeaseRecord]]
      /\ AllLeases(cfg, lay, sl, o) /\ AllPins(lay, sl, o)
      BY DEF Held
<1>2. Given(o, o2, t, i, l)
      BY <1>1, PutLease
<1>3. AllLeases(cfg, lay, sl, o2)
      BY <1>1, <1>2, LeasesGiven
<1>4. AllPins(lay, sl, o2)
      BY <1>1, <1>2, PinsSame
<1>5. o2 \in [Callers -> [1 .. OutSize -> LeaseRecord]]
      BY <1>2 DEF Given
<1> QED BY <1>2, <1>3, <1>4, <1>5 DEF Held

\* A fill that does not start: a slot that nobody holds has nothing, and its reads are dropped.
LEMMA HeldFailed ==
    ASSUME NEW cfg, NEW lay, NEW drp, NEW sto, NEW sl, NEW o, Held(cfg, lay, drp, sto, sl, o),
           NEW c \in DOMAIN sl, NEW k \in SlotsOf(lay, c), sl[c][k].pins = 0, sl[c][k].state # "filling",
           NEW v \in SlotRecord, v.pins = 0, v.state = "failed", v.reads = <<>>,
           NEW sl2, Changed(lay, sl, sl2, c, k, v),
           NEW more, more \subseteq ReadRecord, \A r \in more : InSlot(lay, c, k, r),
           GoodDropped(cfg, drp \cup more)
    PROVE  Held(cfg, lay, drp \cup more, sto, sl2, o) /\ FillsGoOn(lay, sl, sl2)
<1>1. /\ Config(cfg) /\ GoodLayout(cfg, lay) /\ SlotTables(lay, sl)
      /\ AllSlots(cfg, lay, drp, sto, sl) /\ AllLeases(cfg, lay, sl, o) /\ AllPins(lay, sl, o)
      BY DEF Held
<1>2. Changed(lay, sl, sl2, c, k, v)
      OBVIOUS
<1>3. AllPins(lay, sl2, o)
      BY <1>1, <1>2, PinsKept
<1>4. AllLeases(cfg, lay, sl2, o)
      BY <1>1, <1>2, Unpinned, LeasesElse
<1>5. AllSlots(cfg, lay, drp \cup more, sto, sl2)
  <2>1. SUFFICES ASSUME NEW d \in DOMAIN sl, NEW j \in SlotsOf(lay, d)
                 PROVE  GoodSlot(cfg, lay, drp \cup more, sto, d, j, sl2[d][j])
        BY <1>2 DEF AllSlots, Changed
  <2>2. CASE d = c /\ j = k
        BY <1>2, <2>2 DEF GoodSlot, Changed
  <2>3. CASE d # c \/ j # k
    <3>1. sl2[d][j] = sl[d][j] /\ GoodSlot(cfg, lay, drp, sto, d, j, sl[d][j])
          BY <1>1, <1>2, <2>3 DEF Changed, AllSlots
    <3>2. c \in DOMAIN lay.classes /\ d \in DOMAIN lay.classes
          BY <1>1 DEF SlotTables
    <3>3. GoodSlot(cfg, lay, drp \cup more, sto, d, j, sl[d][j])
          BY <1>1, <2>3, <3>1, <3>2, GoodSlotDropped
    <3> QED BY <3>1, <3>3
  <2> QED BY <2>2, <2>3
<1>6. FillsGoOn(lay, sl, sl2)
      BY <1>2, PinnedGoesOn
<1> QED BY <1>2, <1>3, <1>4, <1>5, <1>6 DEF Held, Changed

\* The slot of a fill that starts has its row and waits for its reads.
Started(cfg, lay, c, k, row, pins, v) ==
    /\ v \in SlotRecord
    /\ v.row = row /\ v.state = "filling" /\ v.pins = pins
    /\ v.reads = FillOf(cfg, lay, c, k, row)
    /\ Occupied(cfg, lay, c, row, v.head)

\* A slot whose fill has just started is good when the dropped reads are apart from the fill's.
LEMMA StartedSlot ==
    ASSUME NEW cfg, NEW lay, Config(cfg), GoodLayout(cfg, lay),
           NEW c \in DOMAIN lay.classes, NEW k \in SlotsOf(lay, c), NEW row, NEW pins,
           NEW v, Started(cfg, lay, c, k, row, pins, v), NEW drp, NEW sto,
           Clear(cfg, drp, v.reads)
    PROVE  GoodSlot(cfg, lay, drp, sto, c, k, v)
<1>1. PICK f : f = FillOf(cfg, lay, c, k, row)
      OBVIOUS
<1>2. v.reads = f /\ v.row = row /\ v.state = "filling" /\ Occupied(cfg, lay, c, row, v.head)
      BY <1>1 DEF Started
<1>3. \A n \in DOMAIN f : f[n].state = "pending"
      BY <1>1, <1>2, FillReads
<1>4. \A n \in DOMAIN f : Tracks(f[n], f[n])
      BY DEF Tracks
<1>a. Brought(cfg, f, sto, v)
      BY <1>2, <1>3 DEF Brought
<1>5. Shows(cfg, f, drp, sto, v)
      BY <1>2, <1>4, <1>a DEF Shows
<1> QED BY <1>1, <1>2, <1>5 DEF GoodSlot

\* The slots when a fill starts.
LEMMA SlotsStarted ==
    ASSUME NEW cfg, NEW lay, Config(cfg), GoodLayout(cfg, lay), NEW drp, NEW sto, NEW sl, SlotTables(lay, sl),
           AllSlots(cfg, lay, drp, sto, sl),
           NEW c \in DOMAIN sl, NEW k \in SlotsOf(lay, c), NEW row, NEW pins,
           NEW v, Started(cfg, lay, c, k, row, pins, v),
           Clear(cfg, drp, v.reads),
           NEW sl2, Changed(lay, sl, sl2, c, k, v)
    PROVE  AllSlots(cfg, lay, drp, sto, sl2)
<1>1. c \in DOMAIN lay.classes
      BY DEF SlotTables
<1>2. GoodSlot(cfg, lay, drp, sto, c, k, v)
      BY <1>1, StartedSlot
<1> QED BY <1>2 DEF AllSlots, Changed

\* A fill starts in a slot nobody holds, for nobody.
LEMMA HeldFilled ==
    ASSUME NEW cfg, NEW lay, NEW drp, NEW sto, NEW sl, NEW o, Held(cfg, lay, drp, sto, sl, o),
           NEW c \in DOMAIN sl, NEW k \in SlotsOf(lay, c), sl[c][k].pins = 0, sl[c][k].state # "filling",
           NEW row, NEW v, Started(cfg, lay, c, k, row, 0, v),
           Clear(cfg, drp, v.reads),
           NEW sl2, Changed(lay, sl, sl2, c, k, v)
    PROVE  Held(cfg, lay, drp, sto, sl2, o) /\ FillsGoOn(lay, sl, sl2)
<1>1. /\ Config(cfg) /\ GoodLayout(cfg, lay) /\ SlotTables(lay, sl)
      /\ AllSlots(cfg, lay, drp, sto, sl) /\ AllLeases(cfg, lay, sl, o) /\ AllPins(lay, sl, o)
      BY DEF Held
<1>2. v \in SlotRecord /\ v.pins = 0
      BY DEF Started
<1>3. Changed(lay, sl, sl2, c, k, v)
      OBVIOUS
<1>4. AllSlots(cfg, lay, drp, sto, sl2)
      BY <1>1, <1>3, SlotsStarted
<1>5. AllLeases(cfg, lay, sl2, o)
      BY <1>1, <1>3, Unpinned, LeasesElse
<1>6. AllPins(lay, sl2, o)
      BY <1>1, <1>2, <1>3, PinsKept
<1>7. FillsGoOn(lay, sl, sl2)
      BY <1>3, PinnedGoesOn
<1> QED BY <1>3, <1>4, <1>5, <1>6, <1>7 DEF Held, Changed

\* Or for a caller, who gets a lease on it.
LEMMA HeldFilledFor ==
    ASSUME NEW cfg, NEW lay, NEW drp, NEW sto, NEW sl, NEW o, Held(cfg, lay, drp, sto, sl, o),
           NEW c \in DOMAIN sl, NEW k \in SlotsOf(lay, c), sl[c][k].pins = 0, sl[c][k].state # "filling",
           NEW row, NEW v, Started(cfg, lay, c, k, row, 1, v),
           Clear(cfg, drp, v.reads),
           NEW sl2, Changed(lay, sl, sl2, c, k, v),
           NEW t \in Callers, NEW i \in 1 .. OutSize, o[t][i] = NoLease,
           NEW l \in LeaseRecord, l.cls = c, l.slot = k, l.asked \in Rows(cfg), l.cls = lay.classOf[l.asked],
           l.row = lay.localOf[l.asked], l.row = row, l.bytes = 0,
           NEW o2, Given(o, o2, t, i, l)
    PROVE  /\ Held(cfg, lay, drp, sto, sl2, o2)
           /\ FillsGoOn(lay, sl, sl2)
<1>1. /\ Config(cfg) /\ GoodLayout(cfg, lay) /\ SlotTables(lay, sl)
      /\ AllSlots(cfg, lay, drp, sto, sl) /\ AllLeases(cfg, lay, sl, o) /\ AllPins(lay, sl, o)
      /\ o \in [Callers -> [1 .. OutSize -> LeaseRecord]]
      BY DEF Held
<1>2. v \in SlotRecord /\ v.pins = 1 /\ v.row = row
      BY DEF Started
<1>3. Changed(lay, sl, sl2, c, k, v)
      OBVIOUS
<1>4. AllSlots(cfg, lay, drp, sto, sl2)
      BY <1>1, <1>3, SlotsStarted
<1>5. AllLeases(cfg, lay, sl2, o)
      BY <1>1, <1>3, Unpinned, LeasesElse
<1>6. Given(o, o2, t, i, l)
      OBVIOUS
<1>7. GoodLease(cfg, lay, sl2, l)
  <2>1. sl2[c][k] = v
        BY <1>3 DEF Changed
  <2> QED BY <1>2, <2>1 DEF GoodLease
<1>8. AllLeases(cfg, lay, sl2, o2)
      BY <1>5, <1>6, <1>7, LeasesGiven
<1>9. AllPins(lay, sl2, o2)
  <2>1. /\ GoodLayout(cfg, lay) /\ SlotTables(lay, sl) /\ AllPins(lay, sl, o)
        /\ o[t][i] = NoLease /\ Given(o, o2, t, i, l) /\ l.cls = c /\ l.slot = k
        /\ Changed(lay, sl, sl2, c, k, v) /\ v.pins = sl[c][k].pins + 1
        BY <1>1, <1>2, <1>3, <1>6
  <2> QED BY <2>1, PinsMore
<1>10. FillsGoOn(lay, sl, sl2)
      BY <1>3, PinnedGoesOn
<1>11. SlotTables(lay, sl2) /\ o2 \in [Callers -> [1 .. OutSize -> LeaseRecord]]
      BY <1>3, <1>6 DEF Changed, Given
<1> QED BY <1>4, <1>6, <1>8, <1>9, <1>10, <1>11 DEF Held

-----------------------------------------------------------------------------
(* Reads that end *)

\* What a slot waits for are the reads of its fill.
LEMMA SlotWaits ==
    ASSUME NEW cfg, NEW lay, Config(cfg), GoodLayout(cfg, lay),
           NEW c \in DOMAIN lay.classes, NEW k \in SlotsOf(lay, c),
           NEW drp, NEW sto, NEW s \in SlotRecord, GoodSlot(cfg, lay, drp, sto, c, k, s),
           NEW n \in DOMAIN s.reads
    PROVE  /\ s.state = "filling"
           /\ s.reads \in Seq(ReadRecord) /\ s.reads[n] \in ReadRecord
           /\ Occupied(cfg, lay, c, s.row, s.head)
           /\ Shows(cfg, FillOf(cfg, lay, c, k, s.row), drp, sto, s)
           /\ n \in DOMAIN FillOf(cfg, lay, c, k, s.row)
           /\ Tracks(FillOf(cfg, lay, c, k, s.row)[n], s.reads[n])
           /\ InSlot(lay, c, k, s.reads[n])
<1>1. s.reads \in Seq(ReadRecord)
      BY DEF SlotRecord
<1>2. s.reads[n] \in ReadRecord
      BY <1>1
<1>3. s.state = "filling"
  <2>1. s.reads # <<>>
        BY <1>1
  <2> QED BY <2>1 DEF GoodSlot
<1>4. Occupied(cfg, lay, c, s.row, s.head) /\ Shows(cfg, FillOf(cfg, lay, c, k, s.row), drp, sto, s)
      BY <1>3 DEF GoodSlot
<1>5. PICK f : f = FillOf(cfg, lay, c, k, s.row)
      OBVIOUS
<1>6. n \in DOMAIN f /\ Tracks(f[n], s.reads[n])
      BY <1>3, <1>4, <1>5 DEF Shows
<1>7. InSlot(lay, c, k, f[n])
      BY <1>4, <1>5, <1>6, FillInSlot
<1>8. InSlot(lay, c, k, s.reads[n])
      BY <1>6, <1>7 DEF Tracks, InSlot, Placed
<1> QED BY <1>1, <1>2, <1>3, <1>4, <1>5, <1>6, <1>8

\* From s to v, read n has ended with state x.
ReadEnded(s, v, n, x) ==
    /\ v \in SlotRecord
    /\ v.row = s.row /\ v.state = s.state /\ v.pins = s.pins /\ v.head = s.head
    /\ DOMAIN v.reads = DOMAIN s.reads
    /\ \A m \in DOMAIN s.reads : m # n => v.reads[m] = s.reads[m]
    /\ Tracks(s.reads[n], v.reads[n]) /\ v.reads[n].state = x

\* Assigning the state of a read changes that slot, and only in that read.
LEMMA PutRead ==
    ASSUME NEW lay, NEW sl, SlotTables(lay, sl), NEW c \in DOMAIN sl, NEW k \in SlotsOf(lay, c),
           NEW n \in DOMAIN sl[c][k].reads, NEW x \in {"ok", "failed"},
           NEW sl2, sl2 = [sl EXCEPT ![c][k].reads[n].state = x]
    PROVE  \E v : ReadEnded(sl[c][k], v, n, x) /\ Changed(lay, sl, sl2, c, k, v)
<1>1. PICK s \in SlotRecord : s = sl[c][k]
      BY DEF SlotTables
<1>2. PICK q \in Seq(ReadRecord) : q = s.reads
      BY DEF SlotRecord
<1>3. PICK r \in ReadRecord : r = q[n]
      BY <1>1, <1>2
<1>4. PICK r2 : r2 = [r EXCEPT !.state = x]
      OBVIOUS
<1>5. r2 \in ReadRecord /\ Tracks(r, r2) /\ r2.state = x
      BY <1>4 DEF ReadRecord, Tracks
<1>6. PICK q2 : q2 = [q EXCEPT ![n] = r2]
      OBVIOUS
<1>7. q2 \in Seq(ReadRecord) /\ DOMAIN q2 = DOMAIN q /\ q2[n] = r2 /\ \A m \in DOMAIN q : m # n => q2[m] = q[m]
      BY <1>1, <1>2, <1>5, <1>6
<1>8. PICK v : v = [s EXCEPT !.reads = q2]
      OBVIOUS
<1>9. /\ v \in SlotRecord /\ v.reads = q2
      /\ v.row = s.row /\ v.state = s.state /\ v.pins = s.pins /\ v.head = s.head
      BY <1>7, <1>8 DEF SlotRecord
<1>10. ReadEnded(s, v, n, x)
       BY <1>2, <1>3, <1>5, <1>7, <1>9 DEF ReadEnded
<1>11. sl2 = [sl EXCEPT ![c][k] = v]
       BY <1>1, <1>2, <1>3, <1>4, <1>6, <1>8
<1>12. Changed(lay, sl, sl2, c, k, v)
       BY <1>9, <1>11, PutSlot
<1> QED BY <1>1, <1>10, <1>12

\* A read of a fill ends.
LEMMA HeldRead ==
    ASSUME NEW cfg, NEW lay, NEW drp, NEW sto, NEW sl, NEW o, Held(cfg, lay, drp, sto, sl, o),
           NEW c \in DOMAIN sl, NEW k \in SlotsOf(lay, c), NEW n \in DOMAIN sl[c][k].reads,
           NEW sto2, NEW good \in BOOLEAN, Written(sto, sto2, sl[c][k].reads[n], good),
           NEW x \in {"ok", "failed"}, x = "ok" => good,
           NEW v, ReadEnded(sl[c][k], v, n, x), NEW sl2, Changed(lay, sl, sl2, c, k, v)
    PROVE  Held(cfg, lay, drp, sto2, sl2, o) /\ FillsGoOn(lay, sl, sl2)
<1>1. /\ Config(cfg) /\ GoodLayout(cfg, lay) /\ SlotTables(lay, sl) /\ IsStorage(cfg, sto)
      /\ AllSlots(cfg, lay, drp, sto, sl) /\ AllLeases(cfg, lay, sl, o) /\ AllPins(lay, sl, o)
      BY DEF Held
<1>2. PICK s \in SlotRecord : s = sl[c][k]
      BY <1>1 DEF SlotTables
<1>3. c \in DOMAIN lay.classes /\ GoodSlot(cfg, lay, drp, sto, c, k, s) /\ n \in DOMAIN s.reads
      BY <1>1, <1>2 DEF SlotTables, AllSlots
<1>4. PICK f : f = FillOf(cfg, lay, c, k, s.row)
      OBVIOUS
<1>5. /\ s.state = "filling" /\ Occupied(cfg, lay, c, s.row, s.head) /\ Shows(cfg, f, drp, sto, s)
      /\ n \in DOMAIN f /\ Tracks(f[n], s.reads[n]) /\ InSlot(lay, c, k, s.reads[n])
      BY <1>1, <1>3, <1>4, SlotWaits
<1>6. ReadEnded(s, v, n, x) /\ Changed(lay, sl, sl2, c, k, v)
      BY <1>2
<1>7. v.row = s.row /\ v.state = "filling" /\ v.pins = s.pins /\ v.head = s.head
      BY <1>5, <1>6 DEF ReadEnded
<1>8. Shows(cfg, f, drp, sto2, v)
  <2>1. Written(sto, sto2, f[n], good)
        BY <1>2, <1>5 DEF Written, Tracks
  <2>2. \A m \in DOMAIN f : Placed(f[m]) /\ Stored(sto, f[m])
        BY <1>1, <1>3, <1>4, <1>5, FillInSlot
  <2>3. \A m \in DOMAIN f : m # n => Apart(f[m], f[n])
        BY <1>1, <1>3, <1>4, <1>5, FillApart
  <2>4. /\ DOMAIN v.reads = DOMAIN s.reads /\ DOMAIN s.reads = DOMAIN f
        /\ \A m \in DOMAIN f : m # n => v.reads[m] = s.reads[m]
        /\ Tracks(s.reads[n], v.reads[n]) /\ (v.reads[n].state = "ok" => good)
        BY <1>5, <1>6 DEF ReadEnded, Shows
  <2> QED BY <1>5, <1>7, <2>1, <2>2, <2>3, <2>4, ShowsRead
<1>9. GoodSlot(cfg, lay, drp, sto2, c, k, v)
      BY <1>4, <1>5, <1>7, <1>8 DEF GoodSlot
<1>10. AllSlots(cfg, lay, drp, sto2, sl2)
  <2>1. SUFFICES ASSUME NEW d \in DOMAIN sl, NEW j \in SlotsOf(lay, d)
                 PROVE  GoodSlot(cfg, lay, drp, sto2, d, j, sl2[d][j])
        BY <1>6 DEF AllSlots, Changed
  <2>2. CASE d = c /\ j = k
        BY <1>6, <1>9, <2>2 DEF Changed
  <2>3. CASE d # c \/ j # k
    <3>1. PICK u : u = sl[d][j]
          OBVIOUS
    <3>2. sl2[d][j] = u /\ GoodSlot(cfg, lay, drp, sto, d, j, u) /\ d \in DOMAIN lay.classes
          BY <1>1, <1>6, <2>3, <3>1 DEF Changed, AllSlots, SlotTables
    <3>3. PICK r : r = s.reads[n]
          OBVIOUS
    <3>4. InSlot(lay, c, k, r) /\ Written(sto, sto2, r, good)
          BY <1>2, <1>5, <3>3
    <3>5. GoodSlot(cfg, lay, drp, sto2, d, j, u)
          BY <1>1, <1>3, <2>3, <3>2, <3>4, GoodSlotOther
    <3> QED BY <3>2, <3>5
  <2> QED BY <2>2, <2>3
<1>11. AllLeases(cfg, lay, sl2, o)
       BY <1>1, <1>2, <1>5, <1>6, <1>7, LeasesKept
<1>12. AllPins(lay, sl2, o)
       BY <1>1, <1>2, <1>6, <1>7, PinsKept
<1>13. FillsGoOn(lay, sl, sl2)
       BY <1>2, <1>6, <1>7, PinnedGoesOn
<1>14. IsStorage(cfg, sto2) /\ SlotTables(lay, sl2)
       BY <1>1, <1>6 DEF IsStorage, Written, Changed
<1> QED BY <1>10, <1>11, <1>12, <1>13, <1>14 DEF Held

\* A read that nobody waits for ends.
LEMMA HeldDropEnds ==
    ASSUME NEW cfg, NEW lay, NEW drp, NEW sto, NEW sl, NEW o, Held(cfg, lay, drp, sto, sl, o),
           NEW r \in drp, NEW sto2, NEW good, Written(sto, sto2, r, good)
    PROVE  Held(cfg, lay, drp \ {r}, sto2, sl, o)
<1>1. /\ Config(cfg) /\ GoodLayout(cfg, lay) /\ SlotTables(lay, sl) /\ IsStorage(cfg, sto)
      /\ AllSlots(cfg, lay, drp, sto, sl) /\ drp \subseteq ReadRecord
      BY DEF Held
<1>2. Placed(r)
      BY <1>1 DEF Placed, ReadRecord
<1>3. AllSlots(cfg, lay, drp \ {r}, sto2, sl)
  <2>1. SUFFICES ASSUME NEW d \in DOMAIN sl, NEW j \in SlotsOf(lay, d)
                 PROVE  GoodSlot(cfg, lay, drp \ {r}, sto2, d, j, sl[d][j])
        BY DEF AllSlots
  <2>2. PICK u : u = sl[d][j]
        OBVIOUS
  <2>3. GoodSlot(cfg, lay, drp, sto, d, j, u) /\ d \in DOMAIN lay.classes
        BY <1>1, <2>2 DEF AllSlots, SlotTables
  <2>4. GoodSlot(cfg, lay, drp \ {r}, sto2, d, j, u)
        BY <1>1, <1>2, <2>3, GoodSlotDropEnds
  <2> QED BY <2>2, <2>4
<1>4. IsStorage(cfg, sto2) /\ drp \ {r} \subseteq ReadRecord /\ GoodDropped(cfg, drp \ {r})
      BY <1>1 DEF IsStorage, Written, Held, GoodDropped
<1> QED BY <1>3, <1>4 DEF Held

\* If no read is undecided, all have ended well.
LEMMA AllRead ==
    ASSUME NEW reads \in Seq(ReadRecord), Undecided(reads) = {}
    PROVE  \A n \in DOMAIN reads : reads[n].state = "ok"
<1>1. PICK T : T = {n \in DOMAIN reads : reads[n].state # "ok"}
      OBVIOUS
<1>2. DOMAIN reads = 1 .. Len(reads) /\ Len(reads) \in Nat
      OBVIOUS
<1>3. T \subseteq Nat
      BY <1>1, <1>2
<1>4. ASSUME T # {} PROVE FALSE
  <2>1. PICK n \in T : \A m \in T : n <= m
        BY <1>3, <1>4, LeastNat
  <2>2. n \in DOMAIN reads /\ reads[n].state # "ok"
        BY <1>1
  <2>3. ASSUME NEW m \in 1 .. n - 1 PROVE reads[m].state = "ok"
    <3>1. m \in DOMAIN reads /\ ~(n <= m)
          BY <1>2, <2>2
    <3> QED BY <1>1, <2>1, <3>1
  <2>4. n \in Undecided(reads)
        BY <2>2, <2>3 DEF Undecided
  <2> QED BY <2>4
<1> QED BY <1>1, <1>4

\* From s to v, a fill has ended with state x.
FillEnded(s, v, x) ==
    /\ v \in SlotRecord
    /\ v.row = s.row /\ v.state = x /\ v.pins = s.pins /\ v.head = s.head /\ v.reads = <<>>

\* Assigning a slot's state and clearing its reads changes that slot, and ends its fill.
LEMMA PutEnd ==
    ASSUME NEW lay, NEW sl, SlotTables(lay, sl), NEW c \in DOMAIN sl, NEW k \in SlotsOf(lay, c),
           NEW x \in {"ready", "failed"},
           NEW sl2, sl2 = [sl EXCEPT ![c][k].state = x, ![c][k].reads = <<>>]
    PROVE  \E v : FillEnded(sl[c][k], v, x) /\ Changed(lay, sl, sl2, c, k, v)
<1>1. PICK s \in SlotRecord : s = sl[c][k]
      BY DEF SlotTables
<1>2. PICK v : v = [s EXCEPT !.state = x, !.reads = <<>>]
      OBVIOUS
<1>3. FillEnded(s, v, x)
  <2>1. <<>> \in Seq(ReadRecord)
        OBVIOUS
  <2> QED BY <1>2, <2>1 DEF FillEnded, SlotRecord
<1>4. sl[c] \in [SlotsOf(lay, c) -> SlotRecord]
      BY DEF SlotTables
<1>5. sl2 = [sl EXCEPT ![c][k] = v]
  <2>1. PICK g : g = sl[c]
        OBVIOUS
  <2>2. [[g EXCEPT ![k].state = x] EXCEPT ![k].reads = <<>>] = [g EXCEPT ![k] = v]
        BY <1>1, <1>2, <1>4, <2>1
  <2>3. sl2 = [[sl EXCEPT ![c] = [g EXCEPT ![k].state = x]] EXCEPT ![c][k].reads = <<>>]
        BY <2>1
  <2>4. sl2 = [sl EXCEPT ![c] = [[g EXCEPT ![k].state = x] EXCEPT ![k].reads = <<>>]]
        BY <2>3
  <2> QED BY <2>1, <2>2, <2>4
<1>6. Changed(lay, sl, sl2, c, k, v)
      BY <1>3, <1>5, PutSlot DEF FillEnded
<1> QED BY <1>1, <1>3, <1>6

\* A fill ends.
LEMMA HeldFinish ==
    ASSUME NEW cfg, NEW lay, NEW drp, NEW sto, NEW sl, NEW o, Held(cfg, lay, drp, sto, sl, o),
           NEW c \in DOMAIN sl, NEW k \in SlotsOf(lay, c), sl[c][k].state = "filling",
           \A n \in Undecided(sl[c][k].reads) : sl[c][k].reads[n].state = "failed",
           NEW x, x = IF Undecided(sl[c][k].reads) = {} THEN "ready" ELSE "failed",
           NEW v, FillEnded(sl[c][k], v, x), NEW sl2, Changed(lay, sl, sl2, c, k, v),
           NEW more, more = {r \in Range(sl[c][k].reads) : r.state = "pending"}
    PROVE  Held(cfg, lay, drp \cup more, sto, sl2, o)
<1>1. /\ Config(cfg) /\ GoodLayout(cfg, lay) /\ SlotTables(lay, sl) /\ drp \subseteq ReadRecord
      /\ AllSlots(cfg, lay, drp, sto, sl) /\ AllLeases(cfg, lay, sl, o) /\ AllPins(lay, sl, o)
      BY DEF Held
<1>2. PICK s \in SlotRecord : s = sl[c][k]
      BY <1>1 DEF SlotTables
<1>3. c \in DOMAIN lay.classes /\ GoodSlot(cfg, lay, drp, sto, c, k, s)
      BY <1>1, <1>2 DEF SlotTables, AllSlots
<1>4. PICK f : f = FillOf(cfg, lay, c, k, s.row)
      OBVIOUS
<1>5. Occupied(cfg, lay, c, s.row, s.head) /\ Shows(cfg, f, drp, sto, s) /\ s.state = "filling"
      BY <1>2, <1>3, <1>4 DEF GoodSlot
<1>6. s.reads \in Seq(ReadRecord)
      BY DEF SlotRecord
<1>7. \A r \in more : \E n \in DOMAIN s.reads : r = s.reads[n] /\ r.state = "pending"
      BY <1>2 DEF Range
<1>8. more \subseteq ReadRecord /\ \A r \in more : InSlot(lay, c, k, r)
      BY <1>1, <1>3, <1>7, SlotWaits
<1>9. x \in {"ready", "failed"}
      OBVIOUS
<1>10. FillEnded(s, v, x) /\ Changed(lay, sl, sl2, c, k, v)
       BY <1>2
<1>11. v.row = s.row /\ v.state = x /\ v.pins = s.pins /\ v.head = s.head /\ v.reads = <<>>
       BY <1>10 DEF FillEnded
<1>12. GoodSlot(cfg, lay, drp \cup more, sto, c, k, v)
  <2>1. CASE x = "failed"
        BY <1>11, <2>1 DEF GoodSlot
  <2>2. CASE x = "ready"
    <3>1. \A n \in DOMAIN s.reads : s.reads[n].state = "ok"
          BY <1>2, <1>6, <2>2, AllRead
    <3>2. more = {}
          BY <1>7, <3>1
    <3>3. DOMAIN s.reads = DOMAIN f
          BY <1>5 DEF Shows
    <3>4. Brought(cfg, f, sto, v)
          BY <1>5, <3>1, <3>3 DEF Shows, Brought
    <3>5. Shows(cfg, f, drp \cup more, sto, v)
          BY <1>5, <1>11, <2>2, <3>2, <3>4 DEF Shows
    <3> QED BY <1>4, <1>5, <1>11, <3>5 DEF GoodSlot
  <2> QED BY <1>9, <2>1, <2>2
<1>13. AllSlots(cfg, lay, drp \cup more, sto, sl2)
  <2>1. SUFFICES ASSUME NEW d \in DOMAIN sl, NEW j \in SlotsOf(lay, d)
                 PROVE  GoodSlot(cfg, lay, drp \cup more, sto, d, j, sl2[d][j])
        BY <1>10 DEF AllSlots, Changed
  <2>2. CASE d = c /\ j = k
        BY <1>10, <1>12, <2>2 DEF Changed
  <2>3. CASE d # c \/ j # k
    <3>1. PICK u : u = sl[d][j]
          OBVIOUS
    <3>2. sl2[d][j] = u /\ GoodSlot(cfg, lay, drp, sto, d, j, u) /\ d \in DOMAIN lay.classes
          BY <1>1, <1>10, <2>3, <3>1 DEF Changed, AllSlots, SlotTables
    <3>3. GoodSlot(cfg, lay, drp \cup more, sto, d, j, u)
          BY <1>1, <1>3, <1>8, <2>3, <3>2, GoodSlotDropped
    <3> QED BY <3>2, <3>3
  <2> QED BY <2>2, <2>3
<1>14. AllLeases(cfg, lay, sl2, o)
       BY <1>1, <1>2, <1>10, <1>11, LeasesKept
<1>15. AllPins(lay, sl2, o)
       BY <1>1, <1>2, <1>10, <1>11, PinsKept
<1>16. SlotTables(lay, sl2) /\ drp \cup more \subseteq ReadRecord
       BY <1>1, <1>8, <1>10 DEF Changed
<1>17. GoodDropped(cfg, drp \cup more)
  <2>1. GoodDropped(cfg, drp) /\ DOMAIN s.reads = DOMAIN f /\ \A n \in DOMAIN f : Tracks(f[n], s.reads[n])
        BY <1>5 DEF Held, Shows
  <2>2. \A r \in more : \E n \in DOMAIN f : r.shard = f[n].shard
        BY <1>7, <2>1 DEF Tracks
  <2>3. ASSUME Len(f) <= 1 PROVE more = {}
    <3>1. f \in Seq(ReadRecord) /\ DOMAIN f = 1 .. Len(f)
          BY <1>1, <1>3, <1>4, <1>5, FillReads
    <3>2. SUFFICES ASSUME NEW r \in more PROVE FALSE
          OBVIOUS
    <3>3. PICK n \in DOMAIN s.reads : r = s.reads[n] /\ r.state = "pending"
          BY <1>7
    <3>4. n = 1 /\ s.reads[1].state = "pending"
          BY <2>1, <2>3, <3>1, <3>3
    <3>5. n \in Undecided(s.reads)
          BY <3>3, <3>4 DEF Undecided
    <3>6. s.reads[n].state = "failed"
          BY <1>2, <3>5
    <3> QED BY <3>4, <3>6
  <2>4. Late(f, more)
        BY <2>2, <2>3 DEF Late
  <2> QED BY <1>1, <1>3, <1>4, <1>5, <2>1, <2>4, FillDropped
<1> QED BY <1>10, <1>13, <1>14, <1>15, <1>16, <1>17 DEF Held

-----------------------------------------------------------------------------
(* The steps, once create has succeeded *)

\* The invariant once the tables are made.
Live ==
    /\ created = "ok" /\ config \in Configs
    /\ Held(config, layout, dropped, storage, slots, out)
    /\ call \in [Callers -> CallRecord]
    /\ AllCalls(config, layout, slots, out, call)

\* It is the invariant of a created table.
LEMMA LiveInv ==
    /\ Inv /\ created = "ok" => Live
    /\ Live => Inv
<1>1. config \in Configs => Config(config)
      BY ConfigFacts
<1> QED BY <1>1 DEF Inv, TypeInv, CreatedInv, Live, Held

\* A step of caller t, whose call becomes k.
LEMMA CallerStep ==
    ASSUME Live, UNCHANGED <<config, created, layout>>, NEW t \in Callers,
           Held(config, layout, dropped', storage', slots', out'), FillsGoOn(layout, slots, slots'),
           \A u \in Callers : u # t => out'[u] = out[u],
           NEW k \in CallRecord, call' = [call EXCEPT ![t] = k], GoodCall(config, layout, slots', out'[t], k)
    PROVE  Live'
<1>1. call \in [Callers -> CallRecord] /\ AllCalls(config, layout, slots, out, call)
      BY DEF Live
<1>2. /\ call' \in [Callers -> CallRecord] /\ call'[t] = k
      /\ \A u \in Callers : u # t => call'[u] = call[u]
      BY <1>1
<1>3. AllCalls(config, layout, slots', out', call')
  <2>1. GoodCall(config, layout, slots', out'[t], call'[t])
        BY <1>2
  <2>2. PICK cl2 : cl2 = call'
        OBVIOUS
  <2>3. /\ AllCalls(config, layout, slots, out, call) /\ GoodCall(config, layout, slots', out'[t], cl2[t])
        /\ \A u \in Callers : u # t => cl2[u] = call[u]
        BY <1>1, <1>2, <2>1, <2>2
  <2>4. AllCalls(config, layout, slots', out', cl2)
        BY <2>3, CallsElse
  <2> QED BY <2>2, <2>4
<1>4. config' = config /\ layout' = layout /\ created' = created
      OBVIOUS
<1>5. Held(config', layout', dropped', storage', slots', out')
      BY <1>4
<1>6. AllCalls(config', layout', slots', out', call')
      BY <1>3, <1>4
<1> QED BY <1>2, <1>4, <1>5, <1>6 DEF Live

\* A step that changes only the call.
LEMMA QuietStep ==
    ASSUME Live, UNCHANGED <<config, created, layout, slots, dropped, storage, out>>, NEW t \in Callers,
           NEW k \in CallRecord, call' = [call EXCEPT ![t] = k], GoodCall(config, layout, slots, out[t], k)
    PROVE  Live'
<1>1. Held(config, layout, dropped', storage', slots', out')
      BY DEF Live
<1>2. FillsGoOn(layout, slots, slots') /\ \A u \in Callers : u # t => out'[u] = out[u]
      BY DEF FillsGoOn
<1>3. GoodCall(config, layout, slots', out'[t], k)
      OBVIOUS
<1> QED BY <1>1, <1>2, <1>3, CallerStep

\* What the invariant says of caller t.
LEMMA CallerIs ==
    ASSUME Live, NEW t \in Callers
    PROVE  /\ call[t] \in CallRecord /\ GoodCall(config, layout, slots, out[t], call[t])
           /\ out[t] \in [1 .. OutSize -> LeaseRecord] /\ OutSize \in Nat /\ OutSize > 0
           /\ call = [u \in Callers |-> call[u]]
           /\ Config(config) /\ GoodLayout(config, layout) /\ SlotTables(layout, slots)
           /\ AllLeases(config, layout, slots, out)
BY ClassedAssumption DEF Live, Held, AllCalls

\* The fields of a caller that is in no call.
LEMMA IdleIs ==
    /\ Idle \in CallRecord
    /\ Idle.op = "none" /\ Idle.pc = "idle" /\ Idle.rows = <<>> /\ Idle.i = 1 /\ Idle.cls = 1
    /\ Idle.status = "ok" /\ Idle.before = <<>> /\ Idle.await = {}
<1>1. <<>> \in Seq(Nat) /\ <<>> \in Seq(LeaseRecord) /\ {} \in SUBSET (Int \X Int)
      OBVIOUS
<1> QED BY <1>1 DEF Idle, CallRecord, Ops, Points, Statuses

\* A call that returns keeps the invariant.
LEMMA ReturnStep ==
    ASSUME Live, NEW t \in Callers, Return(t)
    PROVE  Live'
<1>1. GoodCall(config, layout, slots, out[t], Idle)
      BY IdleIs DEF GoodCall, AtRow, AtClass, Draining
<1>2. UNCHANGED <<config, created, layout, slots, dropped, storage, out>> /\ call' = [call EXCEPT ![t] = Idle]
      BY DEF Return, Continue
<1> QED BY <1>1, <1>2, IdleIs, QuietStep

\* The leases of a caller are a sequence.
LEMMA LeasesAreASequence ==
    ASSUME NEW q \in [1 .. OutSize -> LeaseRecord]
    PROVE  q \in Seq(LeaseRecord) /\ Len(q) = OutSize
BY ClassedAssumption

\* So does the start of resolve_into, whose history is the array as it was.
LEMMA CallResolveStep ==
    ASSUME Live, NEW t \in Callers, CallResolve(t)
    PROVE  Live'
<1>1. PICK request \in Requests :
        Begin(t, [Idle EXCEPT !.op = "resolve", !.pc = "row", !.rows = request, !.before = out[t]])
      BY DEF CallResolve
<1>2. PICK k : k = [Idle EXCEPT !.op = "resolve", !.pc = "row", !.rows = request, !.before = out[t]]
      OBVIOUS
<1>3. request \in Seq(Nat) /\ Len(request) \in 1 .. OutSize
      BY RequestsAssumption
<1>4. out[t] \in Seq(LeaseRecord) /\ Len(out[t]) = OutSize /\ OutSize \in Nat /\ OutSize > 0
      BY CallerIs, LeasesAreASequence
<1>5. /\ k \in CallRecord /\ k.op = "resolve" /\ k.pc = "row" /\ k.rows = request /\ k.before = out[t] /\ k.i = 1
      BY <1>2, <1>3, <1>4, IdleIs DEF CallRecord, Ops, Points
<1>6. 1 \in DOMAIN request
      BY <1>3
<1>7. GoodCall(config, layout, slots, out[t], k)
      BY <1>3, <1>4, <1>5, <1>6 DEF GoodCall, AtRow, AtClass, Draining, Resolving
<1>8. UNCHANGED <<config, created, layout, slots, dropped, storage, out>> /\ call' = [call EXCEPT ![t] = k]
      BY <1>1, <1>2 DEF CallResolve, Begin
<1> QED BY <1>5, <1>7, <1>8, QuietStep

\* So does the start of prefetch, which takes only rows that are in range.
LEMMA CallPrefetchStep ==
    ASSUME Live, NEW t \in Callers, CallPrefetch(t)
    PROVE  Live'
<1>1. PICK request \in Requests :
        Begin(t, [Idle EXCEPT !.op = "prefetch",
                              !.pc = IF PrefetchStatus(request) = "ok" THEN "split" ELSE "returned",
                              !.rows = request, !.status = PrefetchStatus(request)])
      BY DEF CallPrefetch
<1>2. PICK pc : pc = IF PrefetchStatus(request) = "ok" THEN "split" ELSE "returned"
      OBVIOUS
<1>3. PICK status : status = PrefetchStatus(request)
      OBVIOUS
<1>4. PICK k : k = [Idle EXCEPT !.op = "prefetch", !.pc = pc, !.rows = request, !.status = status]
      OBVIOUS
<1>5. request \in Seq(Nat)
      BY RequestsAssumption
<1>6. status \in {"ok", "batch_too_large", "out_of_range"} /\ (status = "ok" => Range(request) \subseteq Rows(config))
      BY <1>3 DEF PrefetchStatus
<1>7. pc \in {"split", "returned"} /\ (pc = "split" => status = "ok")
      BY <1>2, <1>3
<1>8. k \in CallRecord /\ k.op = "prefetch" /\ k.pc = pc /\ k.rows = request /\ k.status = status /\ k.cls = 1
      BY <1>4, <1>5, <1>6, <1>7, IdleIs DEF CallRecord, Ops, Points, Statuses
<1>9. GoodCall(config, layout, slots, out[t], k)
      BY <1>6, <1>7, <1>8 DEF GoodCall, AtRow, AtClass, Draining
<1>10. UNCHANGED <<config, created, layout, slots, dropped, storage, out>> /\ call' = [call EXCEPT ![t] = k]
      BY <1>1, <1>2, <1>3, <1>4 DEF CallPrefetch, Begin
<1> QED BY <1>8, <1>9, <1>10, QuietStep

\* So does the start of drain, whose history is the fills under way.
LEMMA CallDrainStep ==
    ASSUME Live, NEW t \in Callers, CallDrain(t)
    PROVE  Live'
<1>1. PICK old : old = UNION {{c} \X FillingIn(c) : c \in DOMAIN slots}
      OBVIOUS
<1>2. PICK k : k = [Idle EXCEPT !.op = "drain", !.pc = "drain", !.await = old]
      OBVIOUS
<1>3. /\ SlotTables(layout, slots) /\ Len(layout.classes) \in Nat
      /\ DOMAIN slots = 1 .. Len(layout.classes)
      BY CallerIs DEF GoodLayout, SlotTables
<1>4. ASSUME NEW x \in old
      PROVE  /\ x[1] \in DOMAIN slots /\ x[2] \in SlotsOf(layout, x[1]) /\ x = <<x[1], x[2]>>
             /\ slots[x[1]][x[2]].state = "filling"
  <2>1. PICK c \in DOMAIN slots : x \in {c} \X FillingIn(c)
        BY <1>1
  <2>2. PICK j \in FillingIn(c) : x = <<c, j>>
        BY <2>1
  <2>3. j \in SlotsOf(layout, c) /\ slots[c][j].state = "filling"
        BY <1>3, <2>2 DEF FillingIn, SlotTables
  <2> QED BY <2>2, <2>3
<1>5. \A x \in old : x[1] \in Int /\ x[1] >= 1 /\ x[2] \in Int
  <2>1. SUFFICES ASSUME NEW x \in old PROVE x[1] \in Int /\ x[1] >= 1 /\ x[2] \in Int
        OBVIOUS
  <2>2. x[1] \in 1 .. Len(layout.classes) /\ x[2] \in SlotsOf(layout, x[1])
        BY <1>3, <1>4
  <2> QED BY <1>3, <2>2 DEF SlotsOf
<1>6. old \in SUBSET (Int \X Int)
      BY <1>4, <1>5
<1>7. k \in CallRecord /\ k.op = "drain" /\ k.pc = "drain" /\ k.cls = 1 /\ k.await = old
      BY <1>2, <1>6, IdleIs DEF CallRecord, Ops, Points
<1>8. GoodCall(config, layout, slots, out[t], k)
      BY <1>4, <1>5, <1>7 DEF GoodCall, AtRow, AtClass, Draining
<1>9. UNCHANGED <<config, created, layout, slots, dropped, storage, out>> /\ call' = [call EXCEPT ![t] = k]
      BY <1>1, <1>2 DEF CallDrain, Begin
<1> QED BY <1>7, <1>8, <1>9, QuietStep

\* What a call at a row of resolve_into, in the state k, is.
AtRowIs(k, o) ==
    /\ k \in CallRecord /\ k.op = "resolve" /\ k.i \in DOMAIN k.rows /\ k.i \in 1 .. OutSize
    /\ Len(k.rows) <= OutSize /\ Len(k.before) = OutSize
    /\ \A j \in 1 .. OutSize : j > k.i => o[j] = k.before[j]

\* A caller at a row of resolve_into is at one of the array's entries.
LEMMA CallerAtRow ==
    ASSUME Live, NEW t \in Callers, call[t].pc \in {"row", "admit", "await"}
    PROVE  AtRowIs(call[t], out[t])
<1>1. PICK k \in CallRecord : k = call[t]
      BY CallerIs
<1>2. k.i \in DOMAIN k.rows /\ Len(k.rows) <= OutSize /\ Resolving(out[t], k)
      BY <1>1, CallerIs DEF GoodCall, AtRow
<1>3. k.rows \in Seq(Nat) /\ OutSize \in Nat
      BY ClassedAssumption DEF CallRecord
<1>4. k.i \in 1 .. OutSize
      BY <1>2, <1>3
<1> QED BY <1>1, <1>2, <1>4 DEF Resolving, AtRowIs

\* A row out of range sends resolve_into to its unwinding with the entry as it was.
LEMMA ResolveOutOfRangeStep ==
    ASSUME Live, NEW t \in Callers, ResolveOutOfRange(t)
    PROVE  Live'
<1>1. call[t].pc = "row"
      BY DEF ResolveOutOfRange
<1>2. PICK k : k = call[t]
      OBVIOUS
<1>3. AtRowIs(k, out[t])
      BY <1>1, <1>2, CallerAtRow
<1>4. PICK k2 : k2 = [k EXCEPT !.pc = "unwind", !.status = "out_of_range", !.i = @ - 1]
      OBVIOUS
<1>5. /\ k \in CallRecord /\ k2 \in CallRecord /\ k2.op = "resolve" /\ k2.pc = "unwind" /\ k2.status = "out_of_range"
      /\ k2.i = k.i - 1 /\ k2.before = k.before
  <2>1. k \in CallRecord /\ k.op = "resolve" /\ k.i \in Int
        BY <1>3 DEF AtRowIs, CallRecord
  <2>2. PICK n \in Int : n = k.i - 1
        BY <2>1
  <2>3. k2 = [k EXCEPT !.pc = "unwind", !.status = "out_of_range", !.i = n]
        BY <1>4, <2>2
  <2> QED BY <2>1, <2>2, <2>3 DEF CallRecord, Points, Statuses
<1>6. out[t][k.i] = k.before[k.i]
      BY <1>1, <1>2, CallerIs DEF GoodCall, AtRow
<1>7. Resolving(out[t], k2)
  <2>1. k.i \in 1 .. OutSize /\ OutSize \in Nat
        BY <1>3, ClassedAssumption DEF AtRowIs
  <2>2. \A j \in 1 .. OutSize : j > k.i - 1 => j = k.i \/ j > k.i
        BY <2>1
  <2>3. k.i - 1 <= OutSize
        BY <2>1
  <2> QED BY <1>3, <1>5, <1>6, <2>2, <2>3 DEF Resolving, AtRowIs
<1>8. GoodCall(config, layout, slots, out[t], k2)
      BY <1>5, <1>7 DEF GoodCall, AtRow, AtClass, Draining
<1>9. call' = [call EXCEPT ![t] = k2]
      BY <1>2, <1>4, <1>5, CallerIs DEF ResolveOutOfRange, CallRecord
<1>10. UNCHANGED <<config, created, layout, slots, dropped, storage, out>>
      BY DEF ResolveOutOfRange, Continue
<1> QED BY <1>5, <1>8, <1>9, <1>10, QuietStep

\* The release of a lease.
LEMMA ReleaseDoes ==
    ASSUME Live, NEW t \in Callers, NEW i \in 1 .. OutSize, Release(t, i)
    PROVE  /\ Held(config, layout, dropped, storage, slots', out')
           /\ FillsGoOn(layout, slots, slots')
           /\ Given(out, out', t, i, NoLease)
<1>1. PICK l : l = out[t][i]
      OBVIOUS
<1>2. GoodLease(config, layout, slots, l) /\ l # NoLease /\ GoodLayout(config, layout) /\ SlotTables(layout, slots)
      BY <1>1, CallerIs DEF AllLeases, Release
<1>3. l.cls \in DOMAIN slots /\ l.slot \in SlotsOf(layout, l.cls)
      BY <1>2, LeaseAt
<1>4. PICK c \in DOMAIN slots : c = l.cls
      BY <1>3
<1>5. PICK k \in SlotsOf(layout, c) : k = l.slot
      BY <1>3, <1>4
<1>6. slots' = [slots EXCEPT ![c][k].pins = @ - 1] /\ out' = [out EXCEPT ![t][i] = NoLease]
      BY <1>1, <1>4, <1>5 DEF Release
<1>7. Held(config, layout, dropped, storage, slots, out) /\ out[t][i].cls = c /\ out[t][i].slot = k
      BY <1>1, <1>4, <1>5 DEF Live
<1> QED BY <1>6, <1>7, HeldRelease

\* Resetting an entry of `out` releases the lease it had and gives none.
LEMMA ResetOutStep ==
    ASSUME Live, NEW t \in Callers, ResetOut(t)
    PROVE  Live'
<1>1. call[t].pc = "row" /\ Row(t) \in Rows(config)
      BY DEF ResetOut
<1>2. PICK k : k = call[t]
      OBVIOUS
<1>3. AtRowIs(k, out[t])
      BY <1>1, <1>2, CallerAtRow
<1>4. PICK k2 : k2 = [k EXCEPT !.pc = "admit"]
      OBVIOUS
<1>5. /\ k \in CallRecord /\ k2 \in CallRecord /\ k2.op = "resolve" /\ k2.pc = "admit"
      /\ k2.i = k.i /\ k2.before = k.before /\ k2.rows = k.rows
      BY <1>3, <1>4 DEF AtRowIs, CallRecord, Points
<1>6. PICK i \in 1 .. OutSize : i = k.i
      BY <1>3 DEF AtRowIs
<1>7. /\ Held(config, layout, dropped, storage, slots', out') /\ FillsGoOn(layout, slots, slots')
      /\ \A u \in Callers : u # t => out'[u] = out[u]
      /\ out'[t][i] = NoLease
      /\ \A j \in 1 .. OutSize : j # i => out'[t][j] = out[t][j]
  <2>1. CASE out[t][i] = NoLease
    <3>1. slots' = slots /\ out' = out
          BY <1>2, <1>6, <2>1 DEF ResetOut
    <3> QED BY <2>1, <3>1 DEF Live, FillsGoOn
  <2>2. CASE out[t][i] # NoLease
    <3>1. Release(t, i)
          BY <1>2, <1>6, <2>2 DEF ResetOut
    <3> QED BY <3>1, ReleaseDoes DEF Given
  <2> QED BY <2>1, <2>2
<1>8. k.rows[i] \in Rows(config)
      BY <1>1, <1>2, <1>6 DEF Row
<1>9. GoodCall(config, layout, slots', out'[t], k2)
  <2>1. \A j \in 1 .. OutSize : j > i => j # i
        BY ClassedAssumption
  <2>2. i <= OutSize
        BY ClassedAssumption
  <2>3. Resolving(out'[t], k2)
        BY <1>3, <1>5, <1>6, <1>7, <2>1, <2>2 DEF Resolving, AtRowIs
  <2> QED BY <1>3, <1>5, <1>6, <1>7, <1>8, <2>3 DEF GoodCall, AtRow, AtClass, Draining, AtRowIs
<1>10. call' = [call EXCEPT ![t] = k2]
      BY <1>2, <1>4, <1>5, CallerIs DEF ResetOut, CallRecord
<1>11. UNCHANGED <<config, created, layout, dropped, storage>>
      BY DEF ResetOut, Continue
<1>12. Held(config, layout, dropped', storage', slots', out')
       BY <1>7, <1>11
<1> QED BY <1>5, <1>7, <1>9, <1>10, <1>11, <1>12, CallerStep

\* A caller that resets a lease of its own unpins one slot.
LEMMA DropLeaseStep ==
    ASSUME Live, NEW t \in Callers, DropLease(t)
    PROVE  Live'
<1>1. PICK i \in 1 .. OutSize : Release(t, i)
      BY DEF DropLease
<1>2. /\ Held(config, layout, dropped, storage, slots', out') /\ FillsGoOn(layout, slots, slots')
      /\ \A u \in Callers : u # t => out'[u] = out[u]
      BY <1>1, ReleaseDoes DEF Given
<1>3. PICK k \in CallRecord : k = call[t]
      BY CallerIs
<1>4. k.pc = "idle" /\ GoodCall(config, layout, slots, out[t], k)
      BY <1>3, CallerIs DEF DropLease
<1>5. GoodCall(config, layout, slots', out'[t], k)
      BY <1>4 DEF GoodCall, AtRow, AtClass, Draining
<1>6. UNCHANGED <<config, created, layout, dropped, storage, call>>
      BY DEF DropLease, Continue
<1>7. call' = [call EXCEPT ![t] = k]
      BY <1>3, <1>6, CallerIs
<1>8. Held(config, layout, dropped', storage', slots', out')
      BY <1>2, <1>6
<1> QED BY <1>2, <1>5, <1>6, <1>7, <1>8, CallerStep

\* Unwinding after a failure releases the entries up to the one that failed.
LEMMA UnwindStep ==
    ASSUME Live, NEW t \in Callers, Unwind(t)
    PROVE  Live'
<1>1. PICK k \in CallRecord : k = call[t]
      BY CallerIs
<1>2. k.pc = "unwind" /\ Resolving(out[t], k) /\ k.status # "ok"
      BY <1>1, CallerIs DEF Unwind, GoodCall, AtRow
<1>3. UNCHANGED <<config, created, layout, dropped, storage>>
      BY DEF Unwind, Continue
<1>4. OutSize \in Nat /\ k.i \in Int /\ k.i <= OutSize
      BY <1>2, ClassedAssumption DEF Resolving, CallRecord
<1>5. CASE ToUnwind(t) = {}
  <2>1. PICK k2 : k2 = [k EXCEPT !.pc = "returned", !.status = k.status]
        OBVIOUS
  <2>2. /\ k2 \in CallRecord /\ k2.op = "resolve" /\ k2.pc = "returned" /\ k2.status = k.status
        /\ k2.before = k.before
        BY <1>2, <2>1 DEF CallRecord, Points, Resolving
  <2>3. ASSUME NEW j \in 1 .. OutSize PROVE out[t][j] \in {NoLease, k.before[j]}
    <3>1. CASE j > k.i
          BY <1>2, <3>1 DEF Resolving
    <3>2. CASE ~(j > k.i)
      <4>1. j \in 1 .. k.i
            BY <1>4, <3>2
      <4> QED BY <1>1, <1>5, <4>1 DEF ToUnwind
    <3> QED BY <3>1, <3>2
  <2>4. GoodCall(config, layout, slots, out[t], k2)
        BY <2>2, <2>3 DEF GoodCall, AtRow, AtClass, Draining
  <2>5. call' = [call EXCEPT ![t] = k2] /\ slots' = slots /\ out' = out
        BY <1>1, <1>5, <2>1 DEF Unwind, Returned
  <2> QED BY <1>3, <2>2, <2>4, <2>5, QuietStep
<1>6. CASE ToUnwind(t) # {}
  <2>1. PICK j \in ToUnwind(t) : Release(t, j)
        BY <1>6 DEF Unwind
  <2>2. call' = call
        BY <1>6 DEF Unwind
  <2>3. j \in 1 .. OutSize /\ j <= k.i
        BY <1>1, <1>4 DEF ToUnwind
  <2>4. /\ Held(config, layout, dropped, storage, slots', out') /\ FillsGoOn(layout, slots, slots')
        /\ \A u \in Callers : u # t => out'[u] = out[u]
        /\ \A n \in 1 .. OutSize : n # j => out'[t][n] = out[t][n]
        BY <2>1, <2>3, ReleaseDoes DEF Given
  <2>5. \A n \in 1 .. OutSize : n > k.i => n # j
        BY <1>4, <2>3
  <2>6. Resolving(out'[t], k)
        BY <1>2, <2>4, <2>5 DEF Resolving
  <2>7. GoodCall(config, layout, slots', out'[t], k)
        BY <1>2, <2>6 DEF GoodCall, AtRow, AtClass, Draining
  <2>8. call' = [call EXCEPT ![t] = k]
        BY <1>1, <2>2, CallerIs
  <2>9. Held(config, layout, dropped', storage', slots', out')
        BY <1>3, <2>4
  <2> QED BY <1>3, <2>4, <2>7, <2>8, <2>9, CallerStep
<1> QED BY <1>5, <1>6

\* The class of a row that is in range, and the lease on a slot of it.
LEMMA RowIs ==
    ASSUME Live, NEW row \in Rows(config), NEW c, c = layout.classOf[row]
    PROVE  /\ c \in DOMAIN slots /\ c \in DOMAIN layout.classes /\ c \in Nat /\ c # 0 /\ row \in Nat
           /\ layout.localOf[row] \in Nat
           /\ layout.localOf[row] \in LocalRows(config, layout, c)
           /\ DOMAIN slots[c] = SlotsOf(layout, c)
<1>1. Config(config) /\ GoodLayout(config, layout) /\ SlotTables(layout, slots)
      BY CallerIs DEF Live, Held
<1>2. c \in DOMAIN layout.classes /\ layout.localOf[row] \in Nat
      BY <1>1 DEF GoodLayout, GoodRow
<1>3. c \in 1 .. Len(layout.classes) /\ Len(layout.classes) \in Nat
      BY <1>1, <1>2 DEF GoodLayout
<1>4. c \in Nat /\ c # 0
      BY <1>3
<1>5. row \in Nat
  <2>1. IsFiniteSet(Rows(config)) /\ Rows(config) = 0 .. RowCount(config) - 1
        BY <1>1 DEF Config
  <2>2. RowCount(config) \in Nat
        BY <2>1, FS_CardinalityType DEF RowCount
  <2> QED BY <2>1, <2>2
<1>6. layout.localOf[row] \in LocalRows(config, layout, c)
      BY DEF LocalRows
<1>7. c \in DOMAIN slots /\ DOMAIN slots[c] = SlotsOf(layout, c)
      BY <1>1, <1>2 DEF SlotTables
<1> QED BY <1>2, <1>4, <1>5, <1>6, <1>7

\* The fields of a lease that is pinned but has no bytes yet.
LEMMA PinnedIs ==
    ASSUME Live, NEW row \in Rows(config), NEW c, c = layout.classOf[row], NEW k \in SlotsOf(layout, c),
           NEW l, l = PinnedLease(c, k, row)
    PROVE  /\ l \in LeaseRecord /\ l.cls = c /\ l.slot = k /\ l.row = layout.localOf[row] /\ l.asked = row
           /\ l.bytes = 0 /\ l # NoLease
<1>1. c \in Nat /\ c # 0 /\ row \in Nat /\ layout.localOf[row] \in Nat
      BY RowIs
<1>2. k \in Int
      BY DEF SlotsOf
<1>3. PICK local \in Nat : local = layout.localOf[row]
      BY <1>1
<1>4. l = [NoLease EXCEPT !.cls = c, !.slot = k, !.row = local, !.asked = row]
      BY <1>3 DEF PinnedLease
<1>5. l = [cls |-> c, slot |-> k, row |-> local, from |-> 0, bytes |-> 0, asked |-> row]
      BY <1>4 DEF NoLease
<1>6. l \in LeaseRecord
      BY <1>1, <1>2, <1>3, <1>5 DEF LeaseRecord
<1> QED BY <1>1, <1>3, <1>5, <1>6 DEF NoLease

\* A lease on a slot that has its row is good.
LEMMA PinnedGood ==
    ASSUME Live, NEW row \in Rows(config), NEW c, c = layout.classOf[row], NEW k \in SlotsOf(layout, c),
           NEW l, l = PinnedLease(c, k, row), slots[c][k].row = layout.localOf[row]
    PROVE  GoodLease(config, layout, slots, l)
<1>1. /\ l.cls = c /\ l.slot = k /\ l.row = layout.localOf[row] /\ l.asked = row /\ l.bytes = 0
      BY PinnedIs
<1> QED BY <1>1 DEF GoodLease

\* A lease that has its bytes.
LEMMA ReadyIs ==
    ASSUME Live, NEW l \in LeaseRecord, l # NoLease, GoodLease(config, layout, slots, l),
           slots[l.cls][l.slot].state = "ready", NEW l2, l2 = ReadyLease(l)
    PROVE  /\ l2 \in LeaseRecord /\ l2.cls = l.cls /\ l2.slot = l.slot
           /\ l2 # NoLease /\ GoodLease(config, layout, slots, l2)
<1>1. Config(config) /\ GoodLayout(config, layout) /\ SlotTables(layout, slots)
      BY CallerIs DEF Live, Held
<1>2. l.cls \in DOMAIN slots /\ l.slot \in SlotsOf(layout, l.cls)
      BY <1>1, LeaseAt
<1>3. PICK c \in DOMAIN slots : c = l.cls
      BY <1>2
<1>4. PICK k \in SlotsOf(layout, c) : k = l.slot
      BY <1>2, <1>3
<1>5. c \in DOMAIN layout.classes /\ slots[c][k] \in SlotRecord
      BY <1>1 DEF SlotTables
<1>6. slots[c][k].head \in Int
      BY <1>5 DEF SlotRecord
<1>7. BaseOf(layout, c, k) \in Nat
      BY <1>1, <1>5, SlotRange
<1>8. PICK from \in Int : from = BaseOf(layout, c, k) + slots[c][k].head
      BY <1>6, <1>7
<1>9. PICK w \in Nat : w = layout.classes[c].width /\ w # 0
      BY <1>1, <1>5 DEF GoodLayout, GoodClass, Positive
<1>10. l2 = [l EXCEPT !.from = from, !.bytes = w]
  <2>1. Base(l.cls, l.slot) + slots[l.cls][l.slot].head = from
        BY <1>3, <1>4, <1>8 DEF Base, BaseOf
  <2>2. layout.classes[l.cls].width = w
        BY <1>3, <1>9
  <2> QED BY <2>1, <2>2 DEF ReadyLease
<1>11. /\ l2 \in LeaseRecord /\ l2.cls = l.cls /\ l2.slot = l.slot /\ l2.row = l.row /\ l2.asked = l.asked
       /\ l2.from = from /\ l2.bytes = w
  <2>1. l = [cls |-> l.cls, slot |-> l.slot, row |-> l.row, from |-> l.from, bytes |-> l.bytes, asked |-> l.asked]
        BY DEF LeaseRecord
  <2>2. l2 = [cls |-> l.cls, slot |-> l.slot, row |-> l.row, from |-> from, bytes |-> w, asked |-> l.asked]
        BY <1>10, <2>1
  <2> QED BY <2>2 DEF LeaseRecord
<1>12. l2 # NoLease
       BY <1>9, <1>11 DEF NoLease
<1>13. GoodLease(config, layout, slots, l2)
       BY <1>3, <1>4, <1>8, <1>9, <1>11 DEF GoodLease
<1> QED BY <1>11, <1>12, <1>13

\* try_get_resident pins a ready slot for the row it was asked for, or leaves no lease.
LEMMA TryGetStep ==
    ASSUME Live, NEW t \in Callers, TryGet(t)
    PROVE  Live'
<1>1. PICK request \in Requests, row \in Rows(config) :
        \E k \in DOMAIN slots[layout.classOf[row]] :
            /\ Indexed(layout.classOf[row], k, layout.localOf[row])
            /\ slots[layout.classOf[row]][k].state = "ready"
            /\ slots' = [slots EXCEPT ![layout.classOf[row]][k].pins = @ + 1]
            /\ out' = [out EXCEPT ![t][1] = ReadyLease(PinnedLease(layout.classOf[row], k, row))]
      BY DEF TryGet
<1>2. PICK c : c = layout.classOf[row]
      OBVIOUS
<1>3. c \in DOMAIN slots /\ DOMAIN slots[c] = SlotsOf(layout, c)
      BY <1>2, RowIs
<1>4. PICK k \in SlotsOf(layout, c) :
            /\ slots[c][k].row = layout.localOf[row]
            /\ slots[c][k].state = "ready"
            /\ slots' = [slots EXCEPT ![c][k].pins = @ + 1]
            /\ out' = [out EXCEPT ![t][1] = ReadyLease(PinnedLease(c, k, row))]
      BY <1>1, <1>2, <1>3 DEF Indexed
<1>5. PICK p : p = PinnedLease(c, k, row)
      OBVIOUS
<1>6. PICK l : l = ReadyLease(p)
      OBVIOUS
<1>7. p \in LeaseRecord /\ p.cls = c /\ p.slot = k /\ p # NoLease /\ GoodLease(config, layout, slots, p)
      BY <1>2, <1>4, <1>5, PinnedIs, PinnedGood
<1>8. l \in LeaseRecord /\ l.cls = c /\ l.slot = k /\ GoodLease(config, layout, slots, l)
      BY <1>4, <1>6, <1>7, ReadyIs
<1>9. 1 \in 1 .. OutSize /\ out[t][1] = NoLease /\ Held(config, layout, dropped, storage, slots, out)
      BY ClassedAssumption DEF TryGet, Live
<1>10. slots' = [slots EXCEPT ![c][k].pins = @ + 1] /\ out' = [out EXCEPT ![t][1] = l]
      BY <1>4, <1>5, <1>6
<1>11. /\ Held(config, layout, dropped, storage, slots', out') /\ FillsGoOn(layout, slots, slots')
       /\ Given(out, out', t, 1, l)
      BY <1>3, <1>8, <1>9, <1>10, HeldPin
<1>12. PICK q : q = [Idle EXCEPT !.op = "try", !.pc = "returned"]
      OBVIOUS
<1>13. q \in CallRecord /\ q.op = "try" /\ q.pc = "returned"
      BY <1>12, IdleIs DEF CallRecord, Ops, Points
<1>14. GoodCall(config, layout, slots', out'[t], q)
      BY <1>13 DEF GoodCall, AtRow, AtClass, Draining
<1>15. UNCHANGED <<config, created, layout, dropped, storage>> /\ call' = [call EXCEPT ![t] = q]
      BY <1>12 DEF TryGet, Begin
<1>16. Held(config, layout, dropped', storage', slots', out') /\ \A u \in Callers : u # t => out'[u] = out[u]
      BY <1>11, <1>15 DEF Given
<1> QED BY <1>11, <1>13, <1>14, <1>15, <1>16, CallerStep

\* A call that has its lease and waits for the fill.
LEMMA AwaitStep ==
    ASSUME Live, NEW t \in Callers, call[t].pc = "admit", call' = [call EXCEPT ![t].pc = "await"],
           UNCHANGED <<config, created, layout>>,
           Held(config, layout, dropped', storage', slots', out'), FillsGoOn(layout, slots, slots'),
           NEW l, l # NoLease, Given(out, out', t, call[t].i, l)
    PROVE  Live'
<1>1. PICK k : k = call[t]
      OBVIOUS
<1>2. AtRowIs(k, out[t])
      BY <1>1, CallerAtRow
<1>3. PICK k2 : k2 = [k EXCEPT !.pc = "await"]
      OBVIOUS
<1>4. /\ k \in CallRecord /\ k2 \in CallRecord /\ k2.op = "resolve" /\ k2.pc = "await"
      /\ k2.i = k.i /\ k2.before = k.before /\ k2.rows = k.rows
      BY <1>2, <1>3 DEF AtRowIs, CallRecord, Points
<1>5. PICK i \in 1 .. OutSize : i = k.i
      BY <1>2 DEF AtRowIs
<1>6. /\ out'[t][i] # NoLease /\ \A j \in 1 .. OutSize : j # i => out'[t][j] = out[t][j]
      /\ \A u \in Callers : u # t => out'[u] = out[u]
      BY <1>1, <1>5 DEF Given
<1>7. GoodCall(config, layout, slots', out'[t], k2)
  <2>1. i <= OutSize /\ \A j \in 1 .. OutSize : j > i => j # i
        BY ClassedAssumption
  <2>2. Resolving(out'[t], k2)
        BY <1>2, <1>4, <1>5, <1>6, <2>1 DEF Resolving, AtRowIs
  <2> QED BY <1>2, <1>4, <1>5, <1>6, <2>2 DEF GoodCall, AtRow, AtClass, Draining, AtRowIs
<1>8. call' = [call EXCEPT ![t] = k2]
      BY <1>1, <1>3
<1> QED BY <1>4, <1>6, <1>7, <1>8, CallerStep

\* A call that goes on to unwind.
LEMMA FailStep ==
    ASSUME Live, NEW t \in Callers, call[t].pc \in {"admit", "await"}, NEW status \in {"fill_failed", "pool_exhausted"},
           call' = [call EXCEPT ![t].pc = "unwind", ![t].status = status],
           UNCHANGED <<config, created, layout, out>>,
           Held(config, layout, dropped', storage', slots', out'), FillsGoOn(layout, slots, slots')
    PROVE  Live'
<1>1. PICK k : k = call[t]
      OBVIOUS
<1>2. AtRowIs(k, out[t])
      BY <1>1, CallerAtRow
<1>3. PICK k2 : k2 = [k EXCEPT !.pc = "unwind", !.status = status]
      OBVIOUS
<1>4. /\ k \in CallRecord /\ k2 \in CallRecord /\ k2.op = "resolve" /\ k2.pc = "unwind" /\ k2.status = status
      /\ k2.i = k.i /\ k2.before = k.before
      BY <1>2, <1>3 DEF AtRowIs, CallRecord, Points, Statuses
<1>5. k.i <= OutSize
      BY <1>2, ClassedAssumption DEF AtRowIs
<1>6. Resolving(out[t], k2)
      BY <1>2, <1>4, <1>5 DEF Resolving, AtRowIs
<1>7. GoodCall(config, layout, slots', out'[t], k2)
      BY <1>4, <1>6 DEF GoodCall, AtRow, AtClass, Draining
<1>8. call' = [call EXCEPT ![t] = k2]
      BY <1>1, <1>3, <1>4, CallerIs
<1>9. \A u \in Callers : u # t => out'[u] = out[u]
      OBVIOUS
<1> QED BY <1>4, <1>7, <1>8, <1>9, CallerStep

\* Admission that finds the row pins the slot that has it.
LEMMA AdmitHitStep ==
    ASSUME Live, NEW t \in Callers, Admit(t), AdmitHit(t, layout.classOf[Row(t)])
    PROVE  Live'
<1>1. PICK q : q = call[t]
      OBVIOUS
<1>2. q.pc = "admit" /\ AtRowIs(q, out[t])
      BY <1>1, CallerAtRow DEF Admit
<1>3. PICK i \in 1 .. OutSize : i = q.i
      BY <1>2 DEF AtRowIs
<1>4. out[t][i] = NoLease /\ Row(t) \in Rows(config)
      BY <1>1, <1>2, <1>3, CallerIs DEF GoodCall, AtRow, Row
<1>5. PICK row \in Rows(config) : row = Row(t)
      BY <1>4
<1>6. PICK c : c = layout.classOf[row]
      OBVIOUS
<1>7. c \in DOMAIN slots /\ DOMAIN slots[c] = SlotsOf(layout, c)
      BY <1>6, RowIs
<1>8. PICK k \in SlotsOf(layout, c) :
            /\ slots[c][k].row = layout.localOf[row]
            /\ slots' = [slots EXCEPT ![c][k].pins = @ + 1]
            /\ dropped' = dropped
            /\ out' = [out EXCEPT ![t][i] = PinnedLease(c, k, row)]
      BY <1>1, <1>3, <1>5, <1>6, <1>7 DEF AdmitHit, AdmitAt, Indexed
<1>9. PICK l : l = PinnedLease(c, k, row)
      OBVIOUS
<1>10. l \in LeaseRecord /\ l.cls = c /\ l.slot = k /\ l # NoLease /\ GoodLease(config, layout, slots, l)
  <2>1. slots[c][k].row = layout.localOf[row] /\ c = layout.classOf[row]
        BY <1>6, <1>8
  <2>2. l \in LeaseRecord /\ l.cls = c /\ l.slot = k /\ l # NoLease
        BY <1>9, <2>1, PinnedIs
  <2>3. GoodLease(config, layout, slots, l)
        BY <1>9, <2>1, PinnedGood
  <2> QED BY <2>2, <2>3
<1>11. /\ slots' = [slots EXCEPT ![c][k].pins = @ + 1] /\ out' = [out EXCEPT ![t][i] = l]
       /\ Held(config, layout, dropped, storage, slots, out)
      BY <1>8, <1>9 DEF Live
<1>12. /\ Held(config, layout, dropped, storage, slots', out') /\ FillsGoOn(layout, slots, slots')
       /\ Given(out, out', t, i, l)
      BY <1>4, <1>7, <1>10, <1>11, HeldPin
<1>13. UNCHANGED <<config, created, layout, dropped, storage>> /\ call' = [call EXCEPT ![t].pc = "await"]
      BY <1>8 DEF Admit, Continue, AdmitHit, AdmitAt
<1>14. Held(config, layout, dropped', storage', slots', out') /\ Given(out, out', t, call[t].i, l)
      BY <1>1, <1>3, <1>12, <1>13
<1> QED BY <1>1, <1>2, <1>10, <1>12, <1>13, <1>14, AwaitStep

\* Admission that finds no slot gives no lease.
LEMMA AdmitExhaustedStep ==
    ASSUME Live, NEW t \in Callers, Admit(t), AdmitExhausted(t, layout.classOf[Row(t)])
    PROVE  Live'
<1>1. /\ call[t].pc = "admit" /\ UNCHANGED <<config, created, layout, storage, slots, dropped, out>>
      /\ call' = [call EXCEPT ![t].pc = "unwind", ![t].status = "pool_exhausted"]
      BY DEF Admit, AdmitExhausted, Continue
<1>2. Held(config, layout, dropped', storage', slots', out') /\ FillsGoOn(layout, slots, slots')
      BY <1>1 DEF Live, FillsGoOn
<1> QED BY <1>1, <1>2, FailStep

\* start_fill_locked in a slot that may be taken: the slot fails, or the fill is in flight, away from any read
\* that nobody waits for.
LEMMA StartFillDoes ==
    ASSUME Live, NEW c \in DOMAIN slots, NEW k \in SlotsOf(layout, c), NEW row \in LocalRows(config, layout, c),
           row \in Int, NEW pin \in {0, 1}, Takeable(c, k), StartFill(c, k, row, pin)
    PROVE  \/ /\ Held(config, layout, dropped', storage, slots', out) /\ FillsGoOn(layout, slots, slots')
              /\ slots'[c][k].state = "failed"
           \/ \E v : /\ Started(config, layout, c, k, row, pin, v)
                     /\ slots' = [slots EXCEPT ![c][k] = v] /\ dropped' = dropped
                     /\ slots'[c][k].state = "filling"
                     /\ Clear(config, dropped, v.reads)
<1>1. /\ Config(config) /\ GoodLayout(config, layout) /\ SlotTables(layout, slots)
      /\ Held(config, layout, dropped, storage, slots, out)
      BY DEF Live, Held
<1>2. c \in DOMAIN layout.classes /\ slots[c][k].pins = 0 /\ slots[c][k].state # "filling"
      BY <1>1 DEF SlotTables, Takeable
<1>3. PICK e : e = ExtentOf(config, layout, c, row)
      OBVIOUS
<1>4. PICK f : f = FillOf(config, layout, c, k, row)
      OBVIOUS
<1>5. Extent(c, row) = e /\ SlotReads(c, k, Extent(c, row)) = f
      BY <1>3, <1>4 DEF Extent, ExtentOf, SlotReads, FillOf, SourceOf, Base, BaseOf
<1>6. PICK failed : failed = [FreeSlot EXCEPT !.row = row, !.state = "failed"]
      OBVIOUS
<1>7. failed \in SlotRecord /\ failed.pins = 0 /\ failed.state = "failed" /\ failed.reads = <<>>
  <2>1. failed = [row |-> row, state |-> "failed", pins |-> 0, reads |-> <<>>, head |-> 0]
        BY <1>6 DEF FreeSlot
  <2>2. <<>> \in Seq(ReadRecord)
        OBVIOUS
  <2> QED BY <2>1, <2>2 DEF SlotRecord
<1>8. ASSUME slots' = [slots EXCEPT ![c][k] = failed], NEW more, more \subseteq ReadRecord,
             \A r \in more : InSlot(layout, c, k, r), GoodDropped(config, dropped \cup more),
             dropped' = dropped \cup more
      PROVE  /\ Held(config, layout, dropped', storage, slots', out) /\ FillsGoOn(layout, slots, slots')
             /\ slots'[c][k].state = "failed"
  <2>1. Changed(layout, slots, slots', c, k, failed)
        BY <1>1, <1>7, <1>8, PutSlot
  <2>2. PICK sl2 : sl2 = slots'
        OBVIOUS
  <2>3. /\ Held(config, layout, dropped, storage, slots, out)
        /\ slots[c][k].pins = 0 /\ slots[c][k].state # "filling"
        /\ failed \in SlotRecord /\ failed.pins = 0 /\ failed.state = "failed" /\ failed.reads = <<>>
        /\ Changed(layout, slots, sl2, c, k, failed)
        /\ more \subseteq ReadRecord /\ \A r \in more : InSlot(layout, c, k, r)
        /\ GoodDropped(config, dropped \cup more)
        BY <1>1, <1>2, <1>7, <1>8, <2>1, <2>2
  <2>4. Held(config, layout, dropped \cup more, storage, sl2, out) /\ FillsGoOn(layout, slots, sl2)
        BY <2>3, HeldFailed
  <2> QED BY <1>7, <1>8, <2>1, <2>2, <2>4 DEF Changed
<1>9. CASE ~InSource(e)
  <2>1. slots' = [slots EXCEPT ![c][k] = failed] /\ dropped' = dropped \cup {}
        BY <1>5, <1>6, <1>9 DEF StartFill
  <2>2. PICK more : more = {}
        OBVIOUS
  <2>3. /\ more \subseteq ReadRecord /\ (\A r \in more : InSlot(layout, c, k, r))
        /\ dropped' = dropped \cup more /\ GoodDropped(config, dropped \cup more)
        BY <1>1, <2>1, <2>2 DEF Held, GoodDropped
  <2> QED BY <1>8, <2>1, <2>3
<1>10. CASE InSource(e)
  <2>1. PICK head : head = HeadOf(e.offset, config.alignment)
        OBVIOUS
  <2>2. Occupied(config, layout, c, row, head)
        BY <1>3, <1>10, <2>1 DEF Occupied, InSource, SourceOf
  <2>3. head \in Int
    <3>1. layout.classes[c].width \in Positive
          BY <1>1, <1>2 DEF GoodLayout, GoodClass
    <3>2. 0 \in 0 .. layout.classes[c].width - 1
          BY <3>1 DEF Positive
    <3>3. head \in Nat
          BY <1>1, <1>2, <1>4, <2>2, <3>2, FillCovers
    <3> QED BY <3>3
  <2>4. f \in Seq(ReadRecord) /\ DOMAIN f = 1 .. Len(f) /\ \A n \in DOMAIN f : f[n] \in ReadRecord
        BY <1>1, <1>2, <1>4, <2>2, FillReads
  <2>5. \A n \in DOMAIN f : InSlot(layout, c, k, f[n])
        BY <1>1, <1>2, <1>4, <2>2, FillInSlot
  <2>6. PICK v : v = [row |-> row, state |-> "filling", pins |-> pin, reads |-> f, head |-> head]
        OBVIOUS
  <2>7. PICK n \in Accepted(f) :
            IF n < Len(f)
            THEN /\ slots' = [slots EXCEPT ![c][k] = failed]
                 /\ dropped' = dropped \cup {f[m] : m \in 1 .. n}
            ELSE slots' = [slots EXCEPT ![c][k] = v] /\ dropped' = dropped
        BY <1>5, <1>6, <1>10, <2>1, <2>6 DEF StartFill
  <2>8. n \in 0 .. Len(f) /\ Len(f) \in Nat /\ \A m \in 1 .. n : Submittable(f[m])
        BY <2>4 DEF Accepted
  <2>9. CASE n < Len(f)
    <3>1. PICK more : more = {f[m] : m \in 1 .. n}
          OBVIOUS
    <3>2. \A m \in 1 .. n : m \in DOMAIN f
          BY <2>4, <2>8
    <3>3. more \subseteq ReadRecord /\ \A r \in more : InSlot(layout, c, k, r)
          BY <2>4, <2>5, <3>1, <3>2
    <3>4. slots' = [slots EXCEPT ![c][k] = failed] /\ dropped' = dropped \cup more
          BY <2>7, <2>9, <3>1
    <3>5. \A r \in more : \E m \in DOMAIN f : r.shard = f[m].shard
          BY <3>1, <3>2
    <3>6. Len(f) <= 1 => more = {}
      <4>1. Len(f) <= 1 => 1 .. n = {}
            BY <2>8, <2>9
      <4> QED BY <3>1, <4>1
    <3>7. GoodDropped(config, dropped)
          BY <1>1 DEF Held
    <3>8. GoodDropped(config, dropped \cup more)
      <4>1. Late(f, more)
            BY <3>5, <3>6 DEF Late
      <4> QED BY <1>1, <1>2, <1>4, <2>2, <3>7, <4>1, FillDropped
    <3> QED BY <1>8, <3>3, <3>4, <3>8
  <2>10. CASE ~(n < Len(f))
    <3>1. n = Len(f)
          BY <2>8, <2>10
    <3>2. Clear(config, dropped, f)
      <4>1. SUFFICES ASSUME Guarded(config), NEW m \in DOMAIN f, NEW d \in dropped PROVE Apart(f[m], d)
            BY DEF Clear
      <4>2. PICK q \in Rows(config) : e = config.extent[q]
            BY <1>1, <1>3, <2>2, OccupiedExtent
      <4>3. f[m].shard = e.shard
            BY <1>1, <1>2, <1>3, <1>4, <2>2, FillReads
      <4>4. d.shard = f[m].shard
            BY <1>1, <4>1, <4>2, <4>3 DEF Held, GoodDropped
      <4>5. Submittable(f[m])
            BY <2>4, <2>8, <3>1
      <4> QED BY <4>4, <4>5 DEF Submittable
    <3>3. /\ v \in SlotRecord /\ v.row = row /\ v.state = "filling" /\ v.pins = pin /\ v.reads = f /\ v.head = head
          BY <2>3, <2>4, <2>6 DEF SlotRecord
    <3>4. Started(config, layout, c, k, row, pin, v)
          BY <1>4, <2>2, <3>3 DEF Started
    <3>5. slots' = [slots EXCEPT ![c][k] = v] /\ dropped' = dropped
          BY <2>7, <2>10
    <3>6. Changed(layout, slots, slots', c, k, v)
          BY <1>1, <3>3, <3>5, PutSlot
    <3>7. slots'[c][k].state = "filling"
          BY <3>3, <3>6 DEF Changed
    <3>8. Clear(config, dropped, v.reads)
          BY <3>2, <3>3
    <3> QED BY <3>4, <3>5, <3>7, <3>8
  <2> QED BY <2>9, <2>10
<1> QED BY <1>9, <1>10

\* Admission that evicts takes a slot nobody holds, and leaves it filling apart from every dropped read, or failed.
LEMMA AdmitMissStep ==
    ASSUME Live, NEW t \in Callers, Admit(t), AdmitMiss(t, layout.classOf[Row(t)])
    PROVE  Live'
<1>1. PICK q : q = call[t]
      OBVIOUS
<1>2. q.pc = "admit" /\ AtRowIs(q, out[t])
      BY <1>1, CallerAtRow DEF Admit
<1>3. PICK i \in 1 .. OutSize : i = q.i
      BY <1>2 DEF AtRowIs
<1>4. out[t][i] = NoLease /\ Row(t) \in Rows(config)
      BY <1>1, <1>2, <1>3, CallerIs DEF GoodCall, AtRow, Row
<1>5. PICK row \in Rows(config) : row = Row(t)
      BY <1>4
<1>6. PICK c : c = layout.classOf[row]
      OBVIOUS
<1>7. PICK local : local = layout.localOf[row]
      OBVIOUS
<1>8. /\ c \in DOMAIN slots /\ DOMAIN slots[c] = SlotsOf(layout, c)
      /\ local \in LocalRows(config, layout, c) /\ local \in Int
      BY <1>6, <1>7, RowIs
<1>9. PICK k \in SlotsOf(layout, c) :
            /\ Takeable(c, k)
            /\ StartFill(c, k, local, 1)
            /\ IF slots'[c][k].state = "filling" THEN AdmitAt(t, c, k)
               ELSE call' = [call EXCEPT ![t].pc = "unwind", ![t].status = "fill_failed"] /\ out' = out
      BY <1>5, <1>6, <1>7, <1>8 DEF AdmitMiss
<1>10. UNCHANGED <<config, created, layout, storage>>
      BY DEF Admit, Continue
<1>11. \/ /\ Held(config, layout, dropped', storage, slots', out) /\ FillsGoOn(layout, slots, slots')
          /\ slots'[c][k].state = "failed"
       \/ \E v : /\ Started(config, layout, c, k, local, 1, v)
                 /\ slots' = [slots EXCEPT ![c][k] = v] /\ dropped' = dropped
                 /\ slots'[c][k].state = "filling"
                 /\ Clear(config, dropped, v.reads)
      BY <1>8, <1>9, StartFillDoes
<1>12. CASE /\ Held(config, layout, dropped', storage, slots', out) /\ FillsGoOn(layout, slots, slots')
            /\ slots'[c][k].state = "failed"
  <2>1. call' = [call EXCEPT ![t].pc = "unwind", ![t].status = "fill_failed"] /\ out' = out
        BY <1>9, <1>12
  <2>2. Held(config, layout, dropped', storage', slots', out')
        BY <1>10, <1>12, <2>1
  <2> QED BY <1>1, <1>2, <1>10, <1>12, <2>1, <2>2, FailStep
<1>13. CASE \E v : /\ Started(config, layout, c, k, local, 1, v)
                   /\ slots' = [slots EXCEPT ![c][k] = v] /\ dropped' = dropped
                   /\ slots'[c][k].state = "filling"
                   /\ Clear(config, dropped, v.reads)
  <2>1. PICK v : /\ Started(config, layout, c, k, local, 1, v)
                 /\ slots' = [slots EXCEPT ![c][k] = v] /\ dropped' = dropped
                 /\ slots'[c][k].state = "filling"
                 /\ Clear(config, dropped, v.reads)
        BY <1>13
  <2>2. AdmitAt(t, c, k)
        BY <1>9, <2>1
  <2>3. PICK l : l = PinnedLease(c, k, row)
        OBVIOUS
  <2>4. out' = [out EXCEPT ![t][i] = l] /\ call' = [call EXCEPT ![t].pc = "await"]
        BY <1>1, <1>3, <1>5, <2>2, <2>3 DEF AdmitAt
  <2>5. /\ l \in LeaseRecord /\ l.cls = c /\ l.slot = k /\ l.row = layout.localOf[row] /\ l.asked = row
        /\ l.bytes = 0 /\ l # NoLease
        BY <1>6, <2>3, PinnedIs
  <2>6. l.asked \in Rows(config) /\ l.cls = layout.classOf[l.asked] /\ l.row = layout.localOf[l.asked] /\ l.row = local
        BY <1>6, <1>7, <2>5
  <2>7. slots[c][k].pins = 0 /\ slots[c][k].state # "filling" /\ Held(config, layout, dropped, storage, slots, out)
        BY <1>9 DEF Takeable, Live
  <2>8. /\ Held(config, layout, dropped, storage, slots', out') /\ FillsGoOn(layout, slots, slots')
        /\ Given(out, out', t, i, l)
    <3>1. SlotTables(layout, slots) /\ out \in [Callers -> [1 .. OutSize -> LeaseRecord]] /\ v \in SlotRecord
          BY <2>1, <2>7 DEF Held, Started
    <3>2. c \in DOMAIN slots /\ k \in SlotsOf(layout, c)
          BY <1>8
    <3>3. Changed(layout, slots, slots', c, k, v)
          BY <2>1, <3>1, <3>2, PutSlot
    <3>4. Given(out, out', t, i, l)
          BY <2>4, <2>5, <3>1, PutLease
    <3>5. /\ Held(config, layout, dropped, storage, slots, out)
          /\ slots[c][k].pins = 0 /\ slots[c][k].state # "filling"
          /\ Started(config, layout, c, k, local, 1, v)
          /\ Clear(config, dropped, v.reads)
          /\ out[t][i] = NoLease /\ l \in LeaseRecord /\ l.cls = c /\ l.slot = k /\ l.asked \in Rows(config)
          /\ l.cls = layout.classOf[l.asked] /\ l.row = layout.localOf[l.asked] /\ l.row = local /\ l.bytes = 0
          BY <1>4, <2>1, <2>5, <2>6, <2>7
    <3> QED BY <3>2, <3>3, <3>4, <3>5, HeldFilledFor
  <2>9. Held(config, layout, dropped', storage', slots', out') /\ Given(out, out', t, call[t].i, l)
        BY <1>1, <1>3, <1>10, <2>1, <2>8
  <2> QED BY <1>1, <1>2, <1>10, <2>4, <2>5, <2>8, <2>9, AwaitStep
<1> QED BY <1>11, <1>12, <1>13

\* So admission keeps the invariant, whichever way it goes.
LEMMA AdmitStep ==
    ASSUME Live, NEW t \in Callers, Admit(t)
    PROVE  Live'
<1>1. \/ AdmitHit(t, layout.classOf[Row(t)]) \/ AdmitMiss(t, layout.classOf[Row(t)])
      \/ AdmitExhausted(t, layout.classOf[Row(t)])
      BY DEF Admit
<1> QED BY <1>1, AdmitHitStep, AdmitMissStep, AdmitExhaustedStep

\* A wait that ends gives the lease its bytes if the slot is ready, and takes it back otherwise.
LEMMA SettleStep ==
    ASSUME Live, NEW t \in Callers, Settle(t)
    PROVE  Live'
<1>1. PICK k : k = call[t]
      OBVIOUS
<1>2. call[t].pc = "await" /\ k.pc = "await" /\ AtRowIs(k, out[t])
      BY <1>1, CallerAtRow DEF Settle
<1>3. PICK i \in 1 .. OutSize : i = k.i
      BY <1>2 DEF AtRowIs
<1>4. PICK l : l = out[t][i]
      OBVIOUS
<1>5. l # NoLease /\ l \in LeaseRecord /\ GoodLease(config, layout, slots, l)
  <2>1. out[t][i] # NoLease
        BY <1>1, <1>2, <1>3, CallerIs DEF GoodCall, AtRow
  <2> QED BY <1>4, <2>1, CallerIs DEF AllLeases
<1>6. UNCHANGED <<config, created, layout, slots, dropped, storage>>
      BY DEF Settle, Continue
<1>7. Held(config, layout, dropped, storage, slots, out) /\ FillsGoOn(layout, slots, slots')
      BY <1>6 DEF Live, FillsGoOn
<1>8. CASE slots[l.cls][l.slot].state # "ready"
  <2>1. call' = [call EXCEPT ![t].pc = "unwind", ![t].status = "fill_failed"] /\ out' = out
        BY <1>1, <1>3, <1>4, <1>8 DEF Settle
  <2>2. Held(config, layout, dropped', storage', slots', out')
        BY <1>6, <1>7, <2>1
  <2> QED BY <1>2, <1>6, <1>7, <2>1, <2>2, FailStep
<1>9. CASE slots[l.cls][l.slot].state = "ready"
  <2>1. PICK l2 : l2 = ReadyLease(l)
        OBVIOUS
  <2>2. /\ out' = [out EXCEPT ![t][i] = l2]
        /\ IF k.i < Len(k.rows)
           THEN call' = [call EXCEPT ![t].pc = "row", ![t].i = @ + 1]
           ELSE call' = [call EXCEPT ![t] = Returned(t, "ok")]
        BY <1>1, <1>3, <1>4, <1>9, <2>1 DEF Settle
  <2>3. /\ l2 \in LeaseRecord /\ l2.cls = out[t][i].cls /\ l2.slot = out[t][i].slot
        /\ GoodLease(config, layout, slots, l2)
        BY <1>4, <1>5, <1>9, <2>1, ReadyIs
  <2>4. Held(config, layout, dropped, storage, slots, out') /\ Given(out, out', t, i, l2)
        BY <1>7, <2>2, <2>3, HeldReady
  <2>5. Held(config, layout, dropped', storage', slots', out')
        BY <1>6, <2>4
  <2>6. /\ \A u \in Callers : u # t => out'[u] = out[u]
        /\ \A j \in 1 .. OutSize : j # i => out'[t][j] = out[t][j]
        BY <2>4 DEF Given
  <2>7. k \in CallRecord /\ k.op = "resolve" /\ k.i \in Int /\ k.rows \in Seq(Nat) /\ k.i \in 1 .. Len(k.rows)
        BY <1>2 DEF AtRowIs, CallRecord
  <2>8. CASE k.i < Len(k.rows)
    <3>1. PICK n \in Int : n = k.i + 1
          BY <2>7
    <3>2. PICK k2 : k2 = [k EXCEPT !.pc = "row", !.i = n]
          OBVIOUS
    <3>3. /\ k2 \in CallRecord /\ k2.op = "resolve" /\ k2.pc = "row" /\ k2.i = n
          /\ k2.before = k.before /\ k2.rows = k.rows
          BY <2>7, <3>2 DEF CallRecord, Points
    <3>4. call' = [call EXCEPT ![t] = k2]
          BY <1>1, <2>2, <2>7, <2>8, <3>1, <3>2, CallerIs
    <3>5. Len(k.rows) <= OutSize /\ Len(k.rows) \in Nat /\ OutSize \in Nat
          BY <1>2, <2>7, ClassedAssumption DEF AtRowIs
    <3>6. /\ n \in 1 .. OutSize /\ n \in DOMAIN k.rows /\ n <= OutSize
          /\ \A j \in 1 .. OutSize : j > n => j > k.i
          /\ \A j \in 1 .. OutSize : j > k.i => j # i
          /\ n > k.i
          BY <1>3, <2>7, <2>8, <3>1, <3>5
    <3>7. \A j \in 1 .. OutSize : j > k.i => out'[t][j] = k.before[j]
          BY <1>2, <2>6, <3>6 DEF AtRowIs
    <3>8. Len(k.before) = OutSize
          BY <1>2 DEF AtRowIs
    <3>9. Resolving(out'[t], k2)
          BY <3>3, <3>6, <3>7, <3>8 DEF Resolving
    <3>10. out'[t][n] = k.before[n]
          BY <3>6, <3>7
    <3>11. GoodCall(config, layout, slots', out'[t], k2)
          BY <3>3, <3>5, <3>6, <3>9, <3>10 DEF GoodCall, AtRow, AtClass, Draining
    <3> QED BY <1>6, <1>7, <2>5, <2>6, <3>3, <3>4, <3>11, CallerStep
  <2>9. CASE ~(k.i < Len(k.rows))
    <3>1. PICK k2 : k2 = [k EXCEPT !.pc = "returned", !.status = "ok"]
          OBVIOUS
    <3>2. k2 \in CallRecord /\ k2.op = "resolve" /\ k2.pc = "returned" /\ k2.status = "ok"
          BY <2>7, <3>1 DEF CallRecord, Points, Statuses
    <3>3. call' = [call EXCEPT ![t] = k2]
          BY <1>1, <2>2, <2>9, <3>1 DEF Returned
    <3>4. GoodCall(config, layout, slots', out'[t], k2)
          BY <3>2 DEF GoodCall, AtRow, AtClass, Draining
    <3> QED BY <1>6, <1>7, <2>5, <2>6, <3>2, <3>3, <3>4, CallerStep
  <2> QED BY <2>8, <2>9
<1> QED BY <1>8, <1>9

\* The least of a set of numbers.
LEMMA MinIn ==
    ASSUME NEW T, T \subseteq Nat, T # {}
    PROVE  Min(T) \in T
<1>1. \E n \in T : \A m \in T : n <= m
      BY LeastNat
<1> QED BY <1>1 DEF Min

\* What a call in prefetch, in the state k, is.
AtClassIs(k) ==
    /\ k \in CallRecord /\ k.op = "prefetch" /\ Range(k.rows) \subseteq Rows(config)

\* A caller in prefetch has only rows in range.
LEMMA CallerAtClass ==
    ASSUME Live, NEW t \in Callers, call[t].pc \in {"split", "prefetch"}
    PROVE  AtClassIs(call[t])
BY CallerIs DEF GoodCall, AtClass, AtClassIs

\* The rows of the class a call is at are rows of its batch.
LEMMA ScratchFacts ==
    ASSUME Live, NEW t \in Callers, NEW n \in Scratch(t)
    PROVE  n \in Nat /\ n \in DOMAIN call[t].rows /\ layout.classOf[call[t].rows[n]] = call[t].cls
<1>1. PICK k \in CallRecord : k = call[t]
      BY CallerIs
<1>2. k.rows \in Seq(Nat)
      BY DEF CallRecord
<1>3. n \in DOMAIN k.rows /\ layout.classOf[k.rows[n]] = k.cls
      BY <1>1 DEF Scratch
<1>4. n \in Nat
      BY <1>2, <1>3
<1> QED BY <1>1, <1>3, <1>4

\* Turning to the next class of a prefetch keeps the invariant.
LEMMA PrefetchClassStep ==
    ASSUME Live, NEW t \in Callers, PrefetchClass(t)
    PROVE  Live'
<1>1. PICK k \in CallRecord : k = call[t]
      BY CallerIs
<1>2. k.pc = "split" /\ k.op = "prefetch" /\ Range(k.rows) \subseteq Rows(config) /\ k.cls > 0 /\ k.cls \in Int
      BY <1>1, CallerIs DEF PrefetchClass, GoodCall, AtClass, CallRecord
<1>3. UNCHANGED <<config, created, layout, slots, dropped, storage, out>>
      BY DEF PrefetchClass, Continue
<1>4. CASE k.cls > Len(layout.classes)
  <2>1. PICK k2 : k2 = [k EXCEPT !.pc = "returned", !.status = "ok"]
        OBVIOUS
  <2>2. k2 \in CallRecord /\ k2.op = "prefetch" /\ k2.pc = "returned"
        BY <1>2, <2>1 DEF CallRecord, Points, Statuses
  <2>3. call' = [call EXCEPT ![t] = k2]
        BY <1>1, <1>4, <2>1 DEF PrefetchClass, Returned
  <2>4. GoodCall(config, layout, slots, out[t], k2)
        BY <2>2 DEF GoodCall, AtRow, AtClass, Draining
  <2> QED BY <1>3, <2>2, <2>3, <2>4, QuietStep
<1>5. CASE ~(k.cls > Len(layout.classes)) /\ Scratch(t) = {}
  <2>1. PICK n \in Int : n = k.cls + 1
        BY <1>2
  <2>2. PICK k2 : k2 = [k EXCEPT !.cls = n]
        OBVIOUS
  <2>3. k2 \in CallRecord /\ k2.op = "prefetch" /\ k2.pc = "split" /\ k2.rows = k.rows /\ k2.cls = n /\ n > 0
    <3>1. k2 \in CallRecord /\ k2.op = k.op /\ k2.pc = k.pc /\ k2.rows = k.rows /\ k2.cls = n
          BY <2>2 DEF CallRecord
    <3>2. n > 0
          BY <1>2, <2>1
    <3> QED BY <1>2, <3>1, <3>2
  <2>4. call' = [call EXCEPT ![t] = k2]
    <3>1. call' = [call EXCEPT ![t].cls = @ + 1]
          BY <1>1, <1>5 DEF PrefetchClass
    <3> QED BY <1>1, <2>1, <2>2, <3>1
  <2>5. GoodCall(config, layout, slots, out[t], k2)
        BY <1>2, <2>3 DEF GoodCall, AtRow, AtClass, Draining
  <2> QED BY <1>3, <2>3, <2>4, <2>5, QuietStep
<1>6. CASE ~(k.cls > Len(layout.classes)) /\ Scratch(t) # {}
  <2>1. PICK n : n = Min(Scratch(t))
        OBVIOUS
  <2>2. n \in Scratch(t)
        BY <1>6, <2>1, ScratchFacts, MinIn
  <2>3. n \in Nat /\ n \in DOMAIN k.rows /\ layout.classOf[k.rows[n]] = k.cls
        BY <1>1, <2>2, ScratchFacts
  <2>4. PICK k2 : k2 = [k EXCEPT !.pc = "prefetch", !.i = n]
        OBVIOUS
  <2>5. /\ k2 \in CallRecord /\ k2.op = "prefetch" /\ k2.pc = "prefetch" /\ k2.rows = k.rows /\ k2.cls = k.cls
        /\ k2.i = n
    <3>0. n \in Int
          BY <2>3
    <3>1. /\ k2 \in CallRecord /\ k2.op = k.op /\ k2.pc = "prefetch" /\ k2.rows = k.rows /\ k2.cls = k.cls
          /\ k2.i = n
          BY <2>4, <3>0 DEF CallRecord, Points
    <3> QED BY <1>2, <3>1
  <2>6. call' = [call EXCEPT ![t] = k2]
    <3>1. call' = [call EXCEPT ![t].pc = "prefetch", ![t].i = n]
          BY <1>1, <1>6, <2>1 DEF PrefetchClass
    <3> QED BY <1>1, <2>4, <3>1, CallerIs
  <2>7. GoodCall(config, layout, slots, out[t], k2)
        BY <1>2, <2>3, <2>5 DEF GoodCall, AtRow, AtClass, Draining
  <2> QED BY <1>3, <2>5, <2>6, <2>7, QuietStep
<1> QED BY <1>4, <1>5, <1>6

\* Prefetching a row starts a fill nobody has pinned, in a slot nobody holds, or does nothing.
LEMMA PrefetchRowStep ==
    ASSUME Live, NEW t \in Callers, PrefetchRow(t)
    PROVE  Live'
<1>1. PICK k \in CallRecord : k = call[t]
      BY CallerIs
<1>2. /\ k.pc = "prefetch" /\ k.op = "prefetch" /\ Range(k.rows) \subseteq Rows(config)
      /\ k.i \in DOMAIN k.rows /\ layout.classOf[k.rows[k.i]] = k.cls /\ k.cls \in Int
      BY <1>1, CallerIs DEF PrefetchRow, GoodCall, AtClass, CallRecord
<1>3. PICK row \in Rows(config) : row = Row(t) /\ row = k.rows[k.i]
      BY <1>1, <1>2 DEF Row, Range
<1>4. PICK c : c = layout.classOf[row]
      OBVIOUS
<1>5. PICK local : local = layout.localOf[row]
      OBVIOUS
<1>6. /\ c \in DOMAIN slots /\ DOMAIN slots[c] = SlotsOf(layout, c) /\ c \in Nat /\ c # 0
      /\ local \in LocalRows(config, layout, c) /\ local \in Int /\ c = k.cls /\ c = call[t].cls
      BY <1>1, <1>2, <1>3, <1>4, <1>5, RowIs
<1>7. UNCHANGED <<config, created, layout, storage, out>>
      BY DEF PrefetchRow, Continue
<1>8. Held(config, layout, dropped', storage', slots', out') /\ FillsGoOn(layout, slots, slots')
  <2>0. Held(config, layout, dropped, storage, slots, out)
        BY DEF Live
  <2>1. \/ slots' = slots /\ dropped' = dropped
        \/ \E j \in SlotsOf(layout, c) : Takeable(c, j) /\ StartFill(c, j, local, 0)
        BY <1>1, <1>3, <1>5, <1>6 DEF PrefetchRow
  <2>2. CASE slots' = slots /\ dropped' = dropped
        BY <1>7, <2>0, <2>2 DEF FillsGoOn
  <2>3. CASE \E j \in SlotsOf(layout, c) : Takeable(c, j) /\ StartFill(c, j, local, 0)
    <3>1. PICK j \in SlotsOf(layout, c) : Takeable(c, j) /\ StartFill(c, j, local, 0)
          BY <2>3
    <3>2. \/ Held(config, layout, dropped', storage, slots', out) /\ FillsGoOn(layout, slots, slots')
          \/ \E v : /\ Started(config, layout, c, j, local, 0, v)
                    /\ slots' = [slots EXCEPT ![c][j] = v] /\ dropped' = dropped
                    /\ Clear(config, dropped, v.reads)
          BY <1>6, <3>1, StartFillDoes
    <3>3. CASE Held(config, layout, dropped', storage, slots', out) /\ FillsGoOn(layout, slots, slots')
          BY <1>7, <3>3
    <3>4. CASE \E v : /\ Started(config, layout, c, j, local, 0, v)
                      /\ slots' = [slots EXCEPT ![c][j] = v] /\ dropped' = dropped
                      /\ Clear(config, dropped, v.reads)
      <4>1. PICK v : /\ Started(config, layout, c, j, local, 0, v)
                     /\ slots' = [slots EXCEPT ![c][j] = v] /\ dropped' = dropped
                     /\ Clear(config, dropped, v.reads)
            BY <3>4
      <4>2. SlotTables(layout, slots) /\ v \in SlotRecord
            BY <2>0, <4>1 DEF Held, Started
      <4>3. Changed(layout, slots, slots', c, j, v)
            BY <1>6, <4>1, <4>2, PutSlot
      <4>4. slots[c][j].pins = 0 /\ slots[c][j].state # "filling"
            BY <3>1 DEF Takeable
      <4>5. Held(config, layout, dropped, storage, slots', out) /\ FillsGoOn(layout, slots, slots')
            BY <1>6, <2>0, <4>1, <4>3, <4>4, HeldFilled
      <4> QED BY <1>7, <4>1, <4>5
    <3> QED BY <3>2, <3>3, <3>4
  <2> QED BY <2>1, <2>2, <2>3
<1>9. \A u \in Callers : u # t => out'[u] = out[u]
      BY <1>7
<1>10. PICK later : later = {n \in Scratch(t) : n > call[t].i}
       OBVIOUS
<1>11. CASE later # {}
  <2>1. PICK n : n = Min(later)
        OBVIOUS
  <2>2. later \subseteq Nat
        BY <1>10, ScratchFacts
  <2>3. n \in Scratch(t)
        BY <1>10, <1>11, <2>1, <2>2, MinIn
  <2>4. n \in Nat /\ n \in DOMAIN k.rows /\ layout.classOf[k.rows[n]] = k.cls
        BY <1>1, <2>3, ScratchFacts
  <2>5. PICK k2 : k2 = [k EXCEPT !.i = n]
        OBVIOUS
  <2>6. /\ k2 \in CallRecord /\ k2.op = "prefetch" /\ k2.pc = "prefetch" /\ k2.rows = k.rows /\ k2.cls = k.cls
        /\ k2.i = n
    <3>0. n \in Int
          BY <2>4
    <3>1. /\ k2 \in CallRecord /\ k2.op = k.op /\ k2.pc = k.pc /\ k2.rows = k.rows /\ k2.cls = k.cls
          /\ k2.i = n
          BY <2>5, <3>0 DEF CallRecord
    <3> QED BY <1>2, <3>1
  <2>7. call' = [call EXCEPT ![t] = k2]
    <3>1. call' = [call EXCEPT ![t].i = n]
          BY <1>10, <1>11, <2>1 DEF PrefetchRow
    <3> QED BY <1>1, <2>5, <3>1
  <2>8. GoodCall(config, layout, slots', out'[t], k2)
        BY <1>2, <2>4, <2>6 DEF GoodCall, AtRow, AtClass, Draining
  <2> QED BY <1>7, <1>8, <1>9, <2>6, <2>7, <2>8, CallerStep
<1>12. CASE later = {}
  <2>1. PICK n \in Int : n = k.cls + 1
        BY <1>2
  <2>2. PICK k2 : k2 = [k EXCEPT !.pc = "split", !.cls = n]
        OBVIOUS
  <2>3. k2 \in CallRecord /\ k2.op = "prefetch" /\ k2.pc = "split" /\ k2.rows = k.rows /\ k2.cls = n
    <3>1. k2 \in CallRecord /\ k2.op = k.op /\ k2.pc = "split" /\ k2.rows = k.rows /\ k2.cls = n
          BY <2>2 DEF CallRecord, Points
    <3> QED BY <1>2, <3>1
  <2>4. n > 0
    <3>1. k.cls \in Nat
          BY <1>6
    <3> QED BY <2>1, <3>1
  <2>5. call' = [call EXCEPT ![t] = k2]
    <3>1. call' = [call EXCEPT ![t].pc = "split", ![t].cls = @ + 1]
          BY <1>10, <1>12 DEF PrefetchRow
    <3> QED BY <1>1, <2>1, <2>2, <3>1, CallerIs
  <2>6. GoodCall(config, layout, slots', out'[t], k2)
        BY <1>2, <2>3, <2>4 DEF GoodCall, AtRow, AtClass, Draining
  <2> QED BY <1>7, <1>8, <1>9, <2>3, <2>5, <2>6, CallerStep
<1> QED BY <1>11, <1>12

-----------------------------------------------------------------------------
(* drain *)

\* Passing a class in drain leaves only old fills of later classes.
LEMMA DrainClassStep ==
    ASSUME Live, NEW t \in Callers, DrainClass(t)
    PROVE  Live'
<1>1. PICK k \in CallRecord : k = call[t]
      BY CallerIs
<1>2. /\ k.pc = "drain" /\ k.op = "drain" /\ k.cls \in Int
      /\ \A x \in k.await : /\ x[1] \in DOMAIN slots /\ x[2] \in SlotsOf(layout, x[1]) /\ x[1] >= k.cls
                            /\ slots[x[1]][x[2]].state = "filling"
      BY <1>1, CallerIs DEF DrainClass, GoodCall, Draining, CallRecord
<1>3. UNCHANGED <<config, created, layout, slots, dropped, storage, out>>
      BY DEF DrainClass, Continue
<1>4. SlotTables(layout, slots) /\ DOMAIN slots = 1 .. Len(layout.classes) /\ Len(layout.classes) \in Nat
      BY CallerIs DEF GoodLayout, SlotTables
<1>5. ASSUME NEW x \in k.await PROVE x[1] \in Int /\ x[1] > k.cls /\ x[1] <= Len(layout.classes)
  <2>1. PICK c \in DOMAIN slots : c = x[1]
        BY <1>2
  <2>2. PICK j \in SlotsOf(layout, c) : j = x[2] /\ slots[c][j].state = "filling" /\ c >= k.cls
        BY <1>2, <2>1
  <2>3. c # k.cls
    <3>1. SUFFICES ASSUME c = k.cls PROVE FALSE
          OBVIOUS
    <3>2. j \in DOMAIN slots[c]
          BY <1>4 DEF SlotTables
    <3> QED BY <1>1, <2>2, <3>1, <3>2 DEF DrainClass, IdleTable, FillingIn
  <2> QED BY <1>2, <1>4, <2>1, <2>2, <2>3
<1>6. CASE k.cls < Len(layout.classes)
  <2>1. PICK n \in Int : n = k.cls + 1
        BY <1>2
  <2>2. PICK k2 : k2 = [k EXCEPT !.cls = n]
        OBVIOUS
  <2>3. k2 \in CallRecord /\ k2.op = "drain" /\ k2.pc = "drain" /\ k2.cls = n /\ k2.await = k.await
        BY <1>2, <2>2 DEF CallRecord
  <2>4. \A x \in k.await : x[1] >= n
        BY <1>2, <1>5, <2>1
  <2>5. call' = [call EXCEPT ![t] = k2]
        BY <1>1, <1>6, <2>1, <2>2, CallerIs DEF DrainClass
  <2>6. GoodCall(config, layout, slots, out[t], k2)
        BY <1>2, <2>3, <2>4 DEF GoodCall, AtRow, AtClass, Draining
  <2> QED BY <1>3, <2>3, <2>5, <2>6, QuietStep
<1>7. CASE ~(k.cls < Len(layout.classes))
  <2>1. k.await = {}
        BY <1>2, <1>4, <1>5, <1>7
  <2>2. PICK k2 : k2 = [k EXCEPT !.pc = "returned", !.status = "ok"]
        OBVIOUS
  <2>3. k2 \in CallRecord /\ k2.op = "drain" /\ k2.pc = "returned" /\ k2.await = {}
        BY <1>2, <2>1, <2>2 DEF CallRecord, Points, Statuses
  <2>4. call' = [call EXCEPT ![t] = k2]
        BY <1>1, <1>7, <2>2 DEF DrainClass, Returned
  <2>5. GoodCall(config, layout, slots, out[t], k2)
        BY <2>3 DEF GoodCall, AtRow, AtClass, Draining
  <2> QED BY <1>3, <2>3, <2>4, <2>5, QuietStep
<1> QED BY <1>6, <1>7

\* A drain that times out returns without the promise.
LEMMA DrainTimesOutStep ==
    ASSUME Live, NEW t \in Callers, DrainTimesOut(t)
    PROVE  Live'
<1>1. PICK k \in CallRecord : k = call[t]
      BY CallerIs
<1>2. k.pc = "drain" /\ k.op = "drain"
      BY <1>1, CallerIs DEF DrainTimesOut, GoodCall, Draining
<1>3. UNCHANGED <<config, created, layout, slots, dropped, storage, out>>
      BY DEF DrainTimesOut, Continue
<1>4. PICK k2 : k2 = [k EXCEPT !.pc = "returned", !.status = "timeout"]
      OBVIOUS
<1>5. k2 \in CallRecord /\ k2.op = "drain" /\ k2.pc = "returned" /\ k2.status = "timeout"
      BY <1>2, <1>4 DEF CallRecord, Points, Statuses
<1>6. call' = [call EXCEPT ![t] = k2]
      BY <1>1, <1>4 DEF DrainTimesOut, Returned
<1>7. GoodCall(config, layout, slots, out[t], k2)
      BY <1>5 DEF GoodCall, AtRow, AtClass, Draining
<1> QED BY <1>3, <1>5, <1>6, <1>7, QuietStep

-----------------------------------------------------------------------------
(* Reads and fills that end *)

\* A step that changes no call.
LEMMA LiveGoesOn ==
    ASSUME Live, UNCHANGED <<config, created, layout, out, call>>,
           Held(config, layout, dropped', storage', slots', out), FillsGoOn(layout, slots, slots')
    PROVE  Live'
<1>1. call \in [Callers -> CallRecord] /\ AllCalls(config, layout, slots, out, call)
      BY DEF Live
<1>2. AllCalls(config, layout, slots', out, call)
      BY <1>1, CallsGoOn
<1>3. config' = config /\ layout' = layout /\ created' = created /\ out' = out /\ call' = call
      OBVIOUS
<1>4. AllCalls(config', layout', slots', out', call')
      BY <1>2, <1>3
<1>5. Held(config', layout', dropped', storage', slots', out')
      BY <1>3
<1> QED BY <1>1, <1>3, <1>4, <1>5 DEF Live

\* A read that ends writes its own bytes of the storage and no byte another slot shows.
LEMMA ReadEndsStep ==
    ASSUME Live, ReadEnds
    PROVE  Live'
<1>1. /\ Config(config) /\ GoodLayout(config, layout) /\ SlotTables(layout, slots) /\ IsStorage(config, storage)
      /\ AllSlots(config, layout, dropped, storage, slots)
      /\ Held(config, layout, dropped, storage, slots, out)
      BY DEF Live, Held
<1>2. PICK c \in DOMAIN slots, failed \in BOOLEAN :
        \E k \in DOMAIN slots[c] : \E n \in DOMAIN slots[c][k].reads :
            /\ slots[c][k].reads[n].state = "pending"
            /\ storage' = Copied(slots[c][k].reads[n], failed)
            /\ slots' = [slots EXCEPT ![c][k].reads[n].state = IF failed THEN "failed" ELSE "ok"]
            /\ UNCHANGED <<config, created, layout, dropped, lock, out, call, calls>>
      BY Zenon DEF ReadEnds
<1>3. DOMAIN slots[c] = SlotsOf(layout, c) /\ c \in DOMAIN layout.classes
      BY <1>1 DEF SlotTables
<1>4. PICK k \in SlotsOf(layout, c) : \E n \in DOMAIN slots[c][k].reads :
            /\ storage' = Copied(slots[c][k].reads[n], failed)
            /\ slots' = [slots EXCEPT ![c][k].reads[n].state = IF failed THEN "failed" ELSE "ok"]
      BY <1>2, <1>3
<1>5. PICK n \in DOMAIN slots[c][k].reads :
            /\ storage' = Copied(slots[c][k].reads[n], failed)
            /\ slots' = [slots EXCEPT ![c][k].reads[n].state = IF failed THEN "failed" ELSE "ok"]
      BY <1>4
<1>6. PICK s \in SlotRecord : s = slots[c][k]
      BY <1>1 DEF SlotTables
<1>7. GoodSlot(config, layout, dropped, storage, c, k, s) /\ n \in DOMAIN s.reads
      BY <1>1, <1>6 DEF AllSlots
<1>8. Placed(s.reads[n])
      BY <1>1, <1>3, <1>7, SlotWaits DEF InSlot
<1>9. DOMAIN storage \subseteq Int
      BY <1>1 DEF IsStorage
<1>10. Written(storage, storage', s.reads[n], ~failed)
       BY <1>5, <1>6, <1>8, <1>9, CopiedWrites
<1>11. PICK x \in {"ok", "failed"} : x = IF failed THEN "failed" ELSE "ok"
       OBVIOUS
<1>12. PICK good \in BOOLEAN : good = ~failed
       OBVIOUS
<1>13. /\ Written(storage, storage', slots[c][k].reads[n], good) /\ (x = "ok" => good)
       /\ slots' = [slots EXCEPT ![c][k].reads[n].state = x]
       BY <1>5, <1>6, <1>10, <1>11, <1>12
<1>14. Held(config, layout, dropped, storage', slots', out) /\ FillsGoOn(layout, slots, slots')
  <2>1. PICK v : ReadEnded(slots[c][k], v, n, x) /\ Changed(layout, slots, slots', c, k, v)
        BY <1>1, <1>13, PutRead
  <2> QED BY <1>1, <1>13, <2>1, HeldRead
<1>15. UNCHANGED <<config, created, layout, dropped, out, call>>
       BY DEF ReadEnds
<1> QED BY <1>14, <1>15, LiveGoesOn

\* A dropped read that ends writes no byte that any slot shows.
LEMMA DroppedEndsStep ==
    ASSUME Live, DroppedEnds
    PROVE  Live'
<1>1. IsStorage(config, storage) /\ dropped \subseteq ReadRecord /\ Held(config, layout, dropped, storage, slots, out)
      BY DEF Live, Held
<1>2. PICK r \in dropped, failed \in BOOLEAN : storage' = Copied(r, failed) /\ dropped' = dropped \ {r}
      BY DEF DroppedEnds
<1>3. Placed(r)
      BY <1>1 DEF Placed, ReadRecord
<1>4. DOMAIN storage \subseteq Int
      BY <1>1 DEF IsStorage
<1>5. Written(storage, storage', r, ~failed)
      BY <1>2, <1>3, <1>4, CopiedWrites
<1>6. Held(config, layout, dropped \ {r}, storage', slots, out)
      BY <1>1, <1>5, HeldDropEnds
<1>7. UNCHANGED <<config, created, layout, slots, out, call>>
      BY DEF DroppedEnds
<1>8. Held(config, layout, dropped', storage', slots', out) /\ FillsGoOn(layout, slots, slots')
      BY <1>2, <1>6, <1>7 DEF FillsGoOn
<1> QED BY <1>7, <1>8, LiveGoesOn

\* A fill whose reads have all ended has its row if all of them ended well.
LEMMA FinishFillStep ==
    ASSUME Live, FinishFill
    PROVE  Live'
<1>1. SlotTables(layout, slots) /\ Held(config, layout, dropped, storage, slots, out)
      BY DEF Live, Held
<1>2. PICK c \in DOMAIN slots : \E k \in DOMAIN slots[c] :
        /\ slots[c][k].state = "filling"
        /\ \A n \in Undecided(slots[c][k].reads) : slots[c][k].reads[n].state = "failed"
        /\ slots' = [slots EXCEPT ![c][k].state = IF Undecided(slots[c][k].reads) = {} THEN "ready" ELSE "failed",
                                  ![c][k].reads = <<>>]
        /\ dropped' = dropped \cup {r \in Range(slots[c][k].reads) : r.state = "pending"}
        /\ call' = [t \in Callers |-> [call[t] EXCEPT !.await = @ \ {<<c, k>>}]]
      BY DEF FinishFill
<1>3. DOMAIN slots[c] = SlotsOf(layout, c)
      BY <1>1 DEF SlotTables
<1>4. PICK k \in SlotsOf(layout, c) :
        /\ slots[c][k].state = "filling"
        /\ \A n \in Undecided(slots[c][k].reads) : slots[c][k].reads[n].state = "failed"
        /\ slots' = [slots EXCEPT ![c][k].state = IF Undecided(slots[c][k].reads) = {} THEN "ready" ELSE "failed",
                                  ![c][k].reads = <<>>]
        /\ dropped' = dropped \cup {r \in Range(slots[c][k].reads) : r.state = "pending"}
        /\ call' = [t \in Callers |-> [call[t] EXCEPT !.await = @ \ {<<c, k>>}]]
      BY <1>2, <1>3
<1>5. PICK x : x = IF Undecided(slots[c][k].reads) = {} THEN "ready" ELSE "failed"
      OBVIOUS
<1>6. PICK more : more = {r \in Range(slots[c][k].reads) : r.state = "pending"}
      OBVIOUS
<1>7. slots' = [slots EXCEPT ![c][k].state = x, ![c][k].reads = <<>>] /\ dropped' = dropped \cup more
      BY <1>4, <1>5, <1>6
<1>8. Held(config, layout, dropped \cup more, storage, slots', out) /\ \E v : Changed(layout, slots, slots', c, k, v)
  <2>1. x \in {"ready", "failed"}
        BY <1>5
  <2>2. PICK v : FillEnded(slots[c][k], v, x) /\ Changed(layout, slots, slots', c, k, v)
        BY <1>1, <1>7, <2>1, PutEnd
  <2>3. Held(config, layout, dropped \cup more, storage, slots', out)
        BY <1>1, <1>4, <1>5, <1>6, <2>2, HeldFinish
  <2> QED BY <2>2, <2>3
<1>9. config' = config /\ created' = created /\ layout' = layout /\ storage' = storage /\ out' = out
      BY DEF FinishFill
<1>10. Held(config', layout', dropped', storage', slots', out')
      BY <1>7, <1>8, <1>9
<1>11. ASSUME NEW t \in Callers
       PROVE  call'[t] \in CallRecord /\ GoodCall(config, layout, slots', out[t], call'[t])
  <2>1. PICK q \in CallRecord : q = call[t]
        BY CallerIs
  <2>2. GoodCall(config, layout, slots, out[t], q)
        BY <2>1, CallerIs
  <2>3. PICK left : left = q.await \ {<<c, k>>}
        OBVIOUS
  <2>4. PICK q2 : q2 = [q EXCEPT !.await = left]
        OBVIOUS
  <2>5. call'[t] = q2
        BY <1>4, <2>1, <2>3, <2>4
  <2>6. q.await \in SUBSET (Int \X Int) /\ left \in SUBSET (Int \X Int)
        BY <2>3 DEF CallRecord
  <2>7. /\ q2 \in CallRecord /\ q2.op = q.op /\ q2.pc = q.pc /\ q2.rows = q.rows /\ q2.i = q.i /\ q2.cls = q.cls
        /\ q2.status = q.status /\ q2.before = q.before /\ q2.await = left
        BY <2>4, <2>6 DEF CallRecord
  <2>8. AtRow(config, out[t], q2) /\ AtClass(config, layout, q2)
        BY <2>2, <2>7 DEF GoodCall, AtRow, AtClass, Resolving
  <2>9. ASSUME q.pc = "drain", NEW y \in left
        PROVE  /\ y[1] \in DOMAIN slots' /\ y[2] \in SlotsOf(layout, y[1]) /\ y[1] >= q.cls
               /\ slots'[y[1]][y[2]].state = "filling"
    <3>1. y \in q.await /\ y # <<c, k>> /\ y = <<y[1], y[2]>>
          BY <2>3, <2>6
    <3>2. /\ y[1] \in DOMAIN slots /\ y[2] \in SlotsOf(layout, y[1]) /\ y[1] >= q.cls
          /\ slots[y[1]][y[2]].state = "filling"
          BY <2>2, <2>9, <3>1 DEF GoodCall, Draining
    <3>3. y[1] # c \/ y[2] # k
          BY <3>1
    <3>4. slots'[y[1]][y[2]] = slots[y[1]][y[2]] /\ DOMAIN slots' = DOMAIN slots
          BY <1>8, <3>2, <3>3 DEF Changed
    <3> QED BY <3>2, <3>4
  <2>10. Draining(layout, slots', q2)
    <3>1. q.op = "drain" /\ q.pc = "returned" /\ q.status = "ok" => left = {}
          BY <2>2, <2>3 DEF GoodCall, Draining
    <3>2. q.pc = "drain" => q.op = "drain"
          BY <2>2 DEF GoodCall, Draining
    <3> QED BY <2>7, <2>9, <3>1, <3>2 DEF Draining
  <2> QED BY <2>5, <2>7, <2>8, <2>10 DEF GoodCall
<1>12. call' \in [Callers -> CallRecord]
       BY <1>4, <1>11
<1>13. AllCalls(config', layout', slots', out', call')
       BY <1>9, <1>11 DEF AllCalls
<1> QED BY <1>9, <1>10, <1>12, <1>13 DEF Live

-----------------------------------------------------------------------------
(* create *)

\* create makes the tables with the invariant, or makes none.
LEMMA CreateStep ==
    ASSUME Inv, created # "ok", Create
    PROVE  Inv'
<1>1. /\ config \in Configs /\ IsStorage(config, storage) /\ out \in [Callers -> [1 .. OutSize -> LeaseRecord]]
      /\ call \in [Callers -> CallRecord] /\ slots = <<>> /\ dropped = {}
      /\ \A t \in Callers : call[t].pc = "idle" /\ \A i \in 1 .. OutSize : out[t][i] = NoLease
      BY DEF Inv, TypeInv, CreatedInv
<1>2. ASSUME NEW status, status # "ok", CreateRefused(status) PROVE Inv'
  <2>1. /\ created' # "ok" /\ config' = config /\ layout' = layout /\ slots' = slots /\ dropped' = dropped
        /\ storage' = storage /\ out' = out /\ call' = call
        BY <1>2 DEF CreateRefused
  <2>2. TypeInv'
        BY <2>1 DEF Inv, TypeInv
  <2>3. CreatedInv'
        BY <1>1, <2>1 DEF CreatedInv
  <2> QED BY <2>1, <2>2, <2>3 DEF Inv
<1>3. CASE RowCount(config) = 0 \/ config.batch = 0 \/ config.maxClasses = 0
      BY <1>2, <1>3 DEF Create
<1>4. CASE ~(RowCount(config) = 0 \/ config.batch = 0 \/ config.maxClasses = 0) /\ ScanStatus(config) # "ok"
      BY <1>2, <1>4 DEF Create
<1>5. CASE ~(RowCount(config) = 0 \/ config.batch = 0 \/ config.maxClasses = 0) /\ ScanStatus(config) = "ok"
  <2>1. PICK share \in Splits(config) :
            IF ~Fits(config, share)
            THEN CreateRefused("invalid_argument")
            ELSE /\ created' = "ok"
                 /\ layout' = LayoutOf(config, share)
                 /\ slots' = [c \in DOMAIN layout'.classes |->
                                [k \in 0 .. layout'.classes[c].budget - 1 |-> FreeSlot]]
                 /\ UNCHANGED <<config, dropped, storage, out, call>>
        BY <1>5 DEF Create
  <2>2. CASE ~Fits(config, share)
        BY <1>2, <2>1, <2>2
  <2>3. CASE Fits(config, share)
    <3>1. /\ created' = "ok" /\ layout' = LayoutOf(config, share)
          /\ slots' = [c \in DOMAIN layout'.classes |-> [k \in SlotsOf(layout', c) |-> FreeSlot]]
          /\ config' = config /\ dropped' = dropped /\ storage' = storage /\ out' = out /\ call' = call
          BY <2>1, <2>3 DEF SlotsOf
    <3>2. Config(config) /\ Scanned(config)
          BY <1>1, <1>5, ConfigFacts DEF Scanned
    <3>3. GoodLayout(config, layout')
          BY <2>3, <3>1, <3>2, LayoutGood
    <3>4. FreeSlot \in SlotRecord /\ FreeSlot.pins = 0 /\ FreeSlot.state = "free" /\ FreeSlot.reads = <<>>
      <4>1. <<>> \in Seq(ReadRecord)
            OBVIOUS
      <4> QED BY <4>1 DEF FreeSlot, SlotRecord, NONE
    <3>5. SlotTables(layout', slots')
          BY <3>1, <3>4 DEF SlotTables
    <3>6. \A c \in DOMAIN slots' : \A k \in SlotsOf(layout', c) : slots'[c][k] = FreeSlot
          BY <3>1
    <3>7. AllSlots(config, layout', dropped, storage, slots')
          BY <3>4, <3>6 DEF AllSlots, GoodSlot
    <3>8. AllLeases(config, layout', slots', out)
          BY <1>1 DEF AllLeases, GoodLease
    <3>9. AllPins(layout', slots', out)
      <4>1. SUFFICES ASSUME NEW c \in DOMAIN slots', NEW k \in SlotsOf(layout', c)
                     PROVE  GoodPins(out, c, k, slots'[c][k].pins)
            BY DEF AllPins
      <4>2. c # 0
            BY <3>1, <3>3 DEF GoodLayout
      <4>3. Leases(out, c, k) = {}
            BY <1>1, <4>2 DEF Leases, NoLease
      <4> QED BY <3>4, <3>6, <4>3, FS_EmptySet DEF GoodPins
    <3>10. AllCalls(config, layout', slots', out, call)
          BY <1>1 DEF AllCalls, GoodCall, AtRow, AtClass, Draining
    <3>11. Held(config, layout', dropped, storage, slots', out)
          BY <1>1, <3>2, <3>3, <3>5, <3>7, <3>8, <3>9 DEF Held, GoodDropped
    <3>12. Live'
          BY <1>1, <3>1, <3>10, <3>11 DEF Live
    <3> QED BY <3>12, LiveInv, PTL
  <2> QED BY <2>2, <2>3
<1> QED BY <1>3, <1>4, <1>5

\* Until create has succeeded, there is no other step.
LEMMA OnlyCreate ==
    ASSUME Inv, created # "ok", Next
    PROVE  Create
<1>1. /\ slots = <<>> /\ dropped = {}
      /\ \A t \in Callers : call[t].pc = "idle" /\ \A i \in 1 .. OutSize : out[t][i] = NoLease
      BY DEF Inv, CreatedInv
<1>2. ~ReadEnds /\ ~FinishFill /\ ~DroppedEnds
      BY <1>1 DEF ReadEnds, FinishFill, DroppedEnds
<1>3. ASSUME NEW t \in Callers
      PROVE  ~(Start(t) \/ Resolve(t) \/ Prefetch(t) \/ Drain(t) \/ Return(t) \/ DropLease(t))
  <2>1. ~Start(t)
        BY DEF Start, TryGet, CallResolve, CallPrefetch, CallDrain, Begin, MayCall
  <2>2. ~Resolve(t)
        BY <1>1 DEF Resolve, ResolveOutOfRange, ResetOut, Admit, Settle, Unwind
  <2>3. ~Prefetch(t) /\ ~Drain(t) /\ ~Return(t)
        BY <1>1 DEF Prefetch, PrefetchClass, PrefetchRow, Drain, DrainClass, DrainTimesOut, Return
  <2>4. ~DropLease(t)
        BY <1>1 DEF DropLease, Release
  <2> QED BY <2>1, <2>2, <2>3, <2>4
<1> QED BY <1>2, <1>3 DEF Next

\* The invariant holds before create.
LEMMA InitInv == Init => Inv
<1>1. SUFFICES ASSUME Init PROVE Inv
      OBVIOUS
<1>2. /\ config \in Configs /\ created = "none" /\ layout = NoLayout /\ slots = <<>> /\ dropped = {}
      /\ storage = [b \in 0 .. config.storage - 1 |-> Garbage]
      /\ out = [t \in Callers |-> [i \in 1 .. OutSize |-> NoLease]] /\ call = [t \in Callers |-> Idle]
      BY <1>1 DEF Init
<1>3. SlotTables(layout, slots)
      BY <1>2 DEF SlotTables, NoLayout
<1>4. TypeInv
      BY <1>2, <1>3, NoLeaseRecord, IdleIs DEF TypeInv, IsStorage
<1>5. CreatedInv
      BY <1>2, IdleIs DEF CreatedInv
<1>6. /\ GoodDropped(config, dropped)
      /\ AllSlots(config, layout, dropped, storage, slots) /\ AllPins(layout, slots, out)
      BY <1>2 DEF GoodDropped, AllSlots, AllPins
<1>7. AllLeases(config, layout, slots, out)
      BY <1>2 DEF AllLeases, GoodLease
<1>8. AllCalls(config, layout, slots, out, call)
      BY <1>2, IdleIs DEF AllCalls, GoodCall, AtRow, AtClass, Draining
<1> QED BY <1>4, <1>5, <1>6, <1>7, <1>8 DEF Inv

\* Every step of a created table keeps the invariant.
LEMMA LiveNext ==
    ASSUME Live, Next
    PROVE  Live'
<1>1. ~Create
      BY DEF Create, Live
<1>2. CASE ReadEnds
      BY <1>2, ReadEndsStep
<1>3. CASE DroppedEnds
      BY <1>3, DroppedEndsStep
<1>4. CASE FinishFill
      BY <1>4, FinishFillStep
<1>5. CASE \E t \in Callers : Start(t) \/ Resolve(t) \/ Prefetch(t) \/ Drain(t) \/ Return(t) \/ DropLease(t)
  <2>1. PICK t \in Callers : Start(t) \/ Resolve(t) \/ Prefetch(t) \/ Drain(t) \/ Return(t) \/ DropLease(t)
        BY <1>5
  <2>2. CASE Start(t)
        BY <2>2, TryGetStep, CallResolveStep, CallPrefetchStep, CallDrainStep DEF Start
  <2>3. CASE Resolve(t)
        BY <2>3, ResolveOutOfRangeStep, ResetOutStep, AdmitStep, SettleStep, UnwindStep DEF Resolve
  <2>4. CASE Prefetch(t)
        BY <2>4, PrefetchClassStep, PrefetchRowStep DEF Prefetch
  <2>5. CASE Drain(t)
        BY <2>5, DrainClassStep, DrainTimesOutStep DEF Drain
  <2>6. CASE Return(t)
        BY <2>6, ReturnStep
  <2>7. CASE DropLease(t)
        BY <2>7, DropLeaseStep
  <2> QED BY <2>1, <2>2, <2>3, <2>4, <2>5, <2>6, <2>7
<1> QED BY <1>1, <1>2, <1>3, <1>4, <1>5 DEF Next

\* Every step keeps the invariant.
LEMMA StepInv == Inv /\ [Next]_vars => Inv'
<1>1. SUFFICES ASSUME Inv, [Next]_vars PROVE Inv'
      OBVIOUS
<1>2. CASE UNCHANGED vars
      BY <1>1, <1>2 DEF vars, Inv, TypeInv, CreatedInv
<1>3. CASE Next /\ created # "ok"
      BY <1>1, <1>3, OnlyCreate, CreateStep
<1>4. CASE Next /\ created = "ok"
  <2>1. Live
        BY <1>1, <1>4, LiveInv
  <2>2. Live'
        BY <1>4, <2>1, LiveNext
  <2> QED BY <2>2, LiveInv, PTL
<1> QED BY <1>1, <1>2, <1>3, <1>4

\* The invariant of the tables behind one storage holds of every behaviour: create slices the
\* storage into aligned, disjoint classes; every slot that is filling or ready is of a row of its
\* class; where rows have one shard or one read
\* each, what a ready slot shows was read from its row's extent, and no read that outlives its fill
\* comes near a slot that is filling or ready; the pins of a slot count the leases on it; and every
\* call remembers truly what it found.
THEOREM ClassedInvariant == Spec => []Inv
<1> QED BY InitInv, StepInv, PTL DEF Spec

-----------------------------------------------------------------------------
(* What it says *)

\* The invariant says that a lease's bytes are its row's.
LEMMA LeaseShowsItsRowHolds == Inv /\ Guarded(config) => LeaseShowsItsRow
<1> DEFINE Shown(l) == /\ l.bytes = config.extent[l.asked].length
                       /\ \A b \in 0 .. l.bytes - 1 :
                             storage[l.from + b] =
                                 <<config.extent[l.asked].shard, config.extent[l.asked].offset + b>>
<1>0. SUFFICES ASSUME Inv, Guarded(config) PROVE \A t \in Callers : \A i \in 1 .. OutSize :
                                                    out[t][i].bytes > 0 => Shown(out[t][i])
      BY Zenon DEF LeaseShowsItsRow
<1> HIDE DEF Shown
<1>1. SUFFICES ASSUME NEW t \in Callers, NEW i \in 1 .. OutSize, NEW l, l = out[t][i], l.bytes > 0
               PROVE  Shown(l)
      OBVIOUS
<1>2. l # NoLease /\ l.bytes # 0
  <2>1. NoLease.bytes = 0
        BY DEF NoLease
  <2>2. l \in LeaseRecord
        BY <1>0, <1>1 DEF Inv, TypeInv
  <2>3. l.bytes # 0
        BY <1>1, <2>2 DEF LeaseRecord
  <2> QED BY <2>1, <2>3
<1>3. created = "ok"
      BY <1>0, <1>1, <1>2 DEF Inv, CreatedInv
<1>4. Live
      BY <1>0, <1>3, LiveInv
<1>5. /\ Config(config) /\ GoodLayout(config, layout) /\ SlotTables(layout, slots)
      /\ AllSlots(config, layout, dropped, storage, slots) /\ AllLeases(config, layout, slots, out)
      BY <1>4 DEF Live, Held
<1>6. GoodLease(config, layout, slots, l)
      BY <1>1, <1>5 DEF AllLeases
<1>7. PICK row \in Rows(config) : row = l.asked
      BY <1>2, <1>6 DEF GoodLease
<1>8. l.cls \in DOMAIN slots /\ l.slot \in SlotsOf(layout, l.cls)
      BY <1>2, <1>5, <1>6, LeaseAt
<1>9. PICK c \in DOMAIN slots : c = l.cls
      BY <1>8
<1>10. PICK k \in SlotsOf(layout, c) : k = l.slot
       BY <1>8, <1>9
<1>11. PICK s \in SlotRecord : s = slots[c][k]
       BY <1>5 DEF SlotTables
<1>12. /\ c = layout.classOf[row] /\ s.row = layout.localOf[row] /\ s.state = "ready"
       /\ l.from = BaseOf(layout, c, k) + s.head /\ l.bytes = layout.classes[c].width
       BY <1>2, <1>6, <1>7, <1>9, <1>10, <1>11 DEF GoodLease
<1>13. /\ layout.globalOf[c][s.row + 1] = row /\ layout.classes[c].width = config.extent[row].length
       /\ c \in DOMAIN layout.classes
       BY <1>5, <1>12 DEF GoodLayout, GoodRow
<1>14. l.bytes = config.extent[l.asked].length
       BY <1>7, <1>12, <1>13
<1>15. PICK e : e = ExtentOf(config, layout, c, s.row) /\ e = config.extent[row]
       BY <1>13 DEF ExtentOf
<1>16. PICK f : f = FillOf(config, layout, c, k, s.row)
       OBVIOUS
<1>17. GoodSlot(config, layout, dropped, storage, c, k, s)
       BY <1>5, <1>11 DEF AllSlots
<1>18. Occupied(config, layout, c, s.row, s.head) /\ Shows(config, f, dropped, storage, s)
       BY <1>12, <1>16, <1>17 DEF GoodSlot
<1>19. ASSUME NEW b \in 0 .. l.bytes - 1
       PROVE  storage[l.from + b] = <<config.extent[l.asked].shard, config.extent[l.asked].offset + b>>
  <2>1. b \in 0 .. layout.classes[c].width - 1
        BY <1>12
  <2>2. s.head \in Nat /\ \E n \in DOMAIN f : /\ f[n].to <= BaseOf(layout, c, k) + s.head + b
                                             /\ BaseOf(layout, c, k) + s.head + b < f[n].to + f[n].length
        BY <1>5, <1>13, <1>16, <1>18, <2>1, FillCovers
  <2>3. PICK n \in DOMAIN f : /\ f[n].to <= BaseOf(layout, c, k) + s.head + b
                              /\ BaseOf(layout, c, k) + s.head + b < f[n].to + f[n].length
        BY <2>2
  <2>4. Holds(storage, f[n])
    <3>1. Brought(config, f, storage, s) /\ s.state = "ready" /\ Guarded(config)
          BY <1>0, <1>12, <1>18 DEF Shows
    <3> QED BY <2>3, <3>1 DEF Brought
  <2>5. /\ f[n].shard = e.shard /\ f[n].from \in Nat /\ f[n].to \in Nat /\ f[n].length \in Positive
        /\ f[n].from + s.head + BaseOf(layout, c, k) = f[n].to + e.offset
    <3>1. PICK head : head = s.head /\ Occupied(config, layout, c, s.row, head)
          BY <1>18
    <3>2. /\ f[n].shard = ExtentOf(config, layout, c, s.row).shard
          /\ f[n].from \in Nat /\ f[n].to \in Nat /\ f[n].length \in Positive
          /\ f[n].from + head + BaseOf(layout, c, k) = f[n].to + ExtentOf(config, layout, c, s.row).offset
          BY <1>5, <1>13, <1>16, <3>1, FillReads
    <3> QED BY <1>15, <3>1, <3>2
  <2>6. e.offset \in Nat
    <3>1. ExtentOf(config, layout, c, s.row).offset \in Nat
          BY <1>5, <1>18, OccupiedExtent
    <3> QED BY <1>15, <3>1
  <2>7. PICK base \in Nat : base = BaseOf(layout, c, k)
        BY <1>5, <1>13, SlotRange
  <2>8. PICK to \in Nat, from \in Nat, length \in Nat : to = f[n].to /\ from = f[n].from /\ length = f[n].length
        BY <2>5 DEF Positive
  <2>9. PICK a \in Int : a = base + s.head + b
        BY <2>1, <2>2
  <2>10. a \in to .. to + length - 1
        BY <2>3, <2>7, <2>8, <2>9
  <2>11. storage[a] = <<e.shard, from + (a - to)>>
        BY <2>4, <2>5, <2>8, <2>10 DEF Holds
  <2>12. from + (a - to) = e.offset + b /\ l.from + b = a
    <3>1. PICK h \in Nat : h = s.head
          BY <2>2
    <3>2. PICK o \in Nat : o = e.offset
          BY <2>6
    <3>3. from + h + base = to + o /\ a = base + h + b /\ l.from = base + h
          BY <1>12, <2>5, <2>7, <2>8, <2>9, <3>1, <3>2
    <3>4. b \in Int
          OBVIOUS
    <3>5. from + (a - to) = o + b /\ l.from + b = a
          BY <3>3, <3>4
    <3> QED BY <3>2, <3>5
  <2> QED BY <1>7, <1>15, <2>11, <2>12
<1> QED BY <1>14, <1>19 DEF Shown

\* In a registration whose rows are all in one shard, or one read each, a lease of resolve_into or try_get
\* shows the row it was asked for, byte for byte and at its own width, for as long as it is held: whatever the
\* extents, the alignment, the chunks and the storage, in whatever order reads end, fail or come late, and
\* whoever evicts, prefetches and drains meanwhile.  (With several shards and several reads per row a read
\* that was dropped with its fill may come late into a row of another shard: no TransferSet stops it.)
THEOREM LeasesShowTheirRow == Spec => [](Guarded(config) => LeaseShowsItsRow)
<1> QED BY ClassedInvariant, LeaseShowsItsRowHolds, PTL

\* A slot has a number of claims.
LEMMA ChunksNat ==
    ASSUME NEW width \in Positive, NEW alignment \in Nat, NEW chunk \in Nat
    PROVE  ChunksPerRow(width, alignment, chunk) \in Nat
<1>1. PICK fill \in Positive : fill = SlotFor(width, alignment)
      BY SlotForFacts
<1>2. CASE chunk # 0 /\ chunk < fill
  <2>1. chunk \in Positive /\ fill + chunk - 1 \in Nat
        BY <1>2 DEF Positive
  <2>2. (fill + chunk - 1) \div chunk \in Nat
        BY <2>1, DivBounds
  <2> QED BY <1>1, <1>2, <2>2 DEF ChunksPerRow
<1>3. CASE ~(chunk # 0 /\ chunk < fill)
      BY <1>1, <1>3 DEF ChunksPerRow
<1> QED BY <1>2, <1>3

\* The invariant says that the reads of a fill stay in its slot.
LEMMA ReadsFitHolds == Inv => ReadsFitTheirSlot
<1>1. SUFFICES ASSUME Inv, NEW c \in DOMAIN slots, NEW k \in DOMAIN slots[c]
               PROVE  /\ Base(c, k) + layout.classes[c].slotBytes <= config.storage
                      /\ Len(slots[c][k].reads) <= ChunksPerRow(layout.classes[c].width, config.alignment, config.chunk)
                      /\ \A n \in InFlight(c, k) :
                            LET r == slots[c][k].reads[n] IN
                            /\ Base(c, k) <= r.to /\ r.to + r.length <= Base(c, k) + layout.classes[c].slotBytes
                            /\ r.from + r.length <= config.sources[r.shard]
                            /\ config.alignment # 0 =>
                                /\ r.from % config.alignment = 0
                                /\ (config.base + r.to) % config.alignment = 0
                                /\ r.length % config.alignment = 0 \/ r.from + r.length = config.sources[r.shard]
      BY DEF ReadsFitTheirSlot
<1>2. created = "ok"
      BY <1>1 DEF Inv, CreatedInv
<1>3. /\ Config(config) /\ GoodLayout(config, layout) /\ SlotTables(layout, slots)
      /\ AllSlots(config, layout, dropped, storage, slots)
      BY <1>1, <1>2, LiveInv DEF Live, Held
<1>4. c \in DOMAIN layout.classes /\ k \in SlotsOf(layout, c)
      BY <1>3 DEF SlotTables
<1>5. Base(c, k) = BaseOf(layout, c, k)
      BY DEF Base, BaseOf
<1>6. Base(c, k) + layout.classes[c].slotBytes <= config.storage
      BY <1>3, <1>4, <1>5, SlotRange
<1>7. PICK s \in SlotRecord : s = slots[c][k]
      BY <1>3, <1>4 DEF SlotTables
<1>8. GoodSlot(config, layout, dropped, storage, c, k, s)
      BY <1>3, <1>4, <1>7 DEF AllSlots
<1>9. CASE s.state # "filling"
  <2>1. s.reads = <<>>
        BY <1>8, <1>9 DEF GoodSlot
  <2>2. InFlight(c, k) = {}
        BY <1>7, <2>1 DEF InFlight
  <2>3. Len(s.reads) = 0
        BY <2>1
  <2>4. ChunksPerRow(layout.classes[c].width, config.alignment, config.chunk) \in Nat
    <3>1. layout.classes[c].width \in Positive /\ config.alignment \in Nat /\ config.chunk \in Nat
          BY <1>3, <1>4 DEF GoodLayout, GoodClass, Config
    <3> QED BY <3>1, ChunksNat
  <2> QED BY <1>6, <1>7, <2>2, <2>3, <2>4
<1>10. CASE s.state = "filling"
  <2>1. PICK f : f = FillOf(config, layout, c, k, s.row)
        OBVIOUS
  <2>2. Occupied(config, layout, c, s.row, s.head) /\ Shows(config, f, dropped, storage, s)
        BY <1>8, <1>10, <2>1 DEF GoodSlot
  <2>3. s.reads \in Seq(ReadRecord) /\ DOMAIN s.reads = DOMAIN f
        BY <1>10, <2>2 DEF SlotRecord, Shows
  <2>4. /\ f \in Seq(ReadRecord) /\ Len(f) <= ChunksPerRow(layout.classes[c].width, config.alignment, config.chunk)
        /\ \A n \in DOMAIN f :
            /\ BaseOf(layout, c, k) <= f[n].to
            /\ f[n].to + f[n].length <= BaseOf(layout, c, k) + layout.classes[c].slotBytes
            /\ f[n].from + f[n].length <= config.sources[f[n].shard]
        BY <1>3, <1>4, <2>1, <2>2, FillReads DEF SourceOf
  <2>5. Len(s.reads) = Len(f)
        BY <2>3, <2>4
  <2>6. ASSUME NEW n \in InFlight(c, k), NEW r, r = slots[c][k].reads[n]
        PROVE  /\ Base(c, k) <= r.to /\ r.to + r.length <= Base(c, k) + layout.classes[c].slotBytes
               /\ r.from + r.length <= config.sources[r.shard]
               /\ config.alignment # 0 =>
                    /\ r.from % config.alignment = 0
                    /\ (config.base + r.to) % config.alignment = 0
                    /\ r.length % config.alignment = 0 \/ r.from + r.length = config.sources[r.shard]
    <3>1. n \in DOMAIN f /\ r = s.reads[n]
          BY <1>7, <2>3, <2>6 DEF InFlight
    <3>2. r.shard = f[n].shard /\ r.from = f[n].from /\ r.to = f[n].to /\ r.length = f[n].length
          BY <1>10, <2>2, <3>1 DEF Shows, Tracks
    <3>3. config.alignment # 0 =>
            /\ f[n].from % config.alignment = 0
            /\ (config.base + f[n].to) % config.alignment = 0
            /\ f[n].length % config.alignment = 0 \/ f[n].from + f[n].length = config.sources[f[n].shard]
          BY <1>3, <1>4, <2>1, <2>2, <3>1, FillReads, FillAligned DEF SourceOf
    <3> QED BY <1>5, <2>4, <3>1, <3>2, <3>3
  <2> QED BY <1>6, <1>7, <2>4, <2>5, <2>6
<1> QED BY <1>9, <1>10

\* Every read that start_fill_locked submits stays within its own slot of its class's slice of the storage
\* and within the source, has a claim, and with fill_alignment is aligned up to the end of the source.
THEOREM ReadsStayInTheirSlot == Spec => []ReadsFitTheirSlot
<1> QED BY ClassedInvariant, ReadsFitHolds, PTL

\* A resolve_into over several classes that has failed has kept no lease it took, and has not touched the
\* entries of `out` it had not come to.
THEOREM FailedResolves == Spec => []FailedResolveKeepsNothing
<1>1. Inv => FailedResolveKeepsNothing
      BY DEF Inv, AllCalls, GoodCall, AtRow, FailedResolveKeepsNothing
<1> QED BY <1>1, ClassedInvariant, PTL

\* When drain returns ok after going from class to class, every fill that was in flight when it was called
\* has ended, whatever was started behind it.
THEOREM DrainsEndOldFills == Spec => []DrainEndsOldFills
<1>1. Inv => DrainEndsOldFills
      BY DEF Inv, AllCalls, GoodCall, Draining, DrainEndsOldFills
<1> QED BY <1>1, ClassedInvariant, PTL

\* A class whose budget is all its rows has a slot for each of them.
LEMMA WholeClass ==
    ASSUME NEW cfg, Scanned(cfg), cfg.storage > TotalBytes(cfg), TotalBytes(cfg) < Precision,
           NEW share \in Splits(cfg), NEW lay, lay = LayoutOf(cfg, share), NEW c \in DOMAIN lay.classes
    PROVE  Cardinality(SlotsOf(lay, c)) = Len(lay.globalOf[c])
<1>1. PICK n \in Nat :
           /\ DOMAIN LayoutOf(cfg, share).classes = 1 .. n
           /\ \A d \in 1 .. n :
                LET w == Sorted(Widths(cfg))[d] IN
                /\ w \in Widths(cfg)
                /\ LayoutOf(cfg, share).globalOf[d] = GlobalOf(cfg, w)
                /\ LayoutOf(cfg, share).classes[d] =
                    [width |-> w, slotBytes |-> SlotBytes(cfg, w), budget |-> Budget(cfg, w, share[w]),
                     at |-> Slice(cfg, share, w)]
      BY LayoutClasses
<1>2. PICK w \in Widths(cfg) : w = Sorted(Widths(cfg))[c]
      BY <1>1
<1>3. lay.globalOf[c] = GlobalOf(cfg, w) /\ lay.classes[c].budget = Budget(cfg, w, share[w])
  <2>1. c \in 1 .. n
        BY <1>1
  <2>2. PICK cls : cls = [width |-> w, slotBytes |-> SlotBytes(cfg, w), budget |-> Budget(cfg, w, share[w]),
                          at |-> Slice(cfg, share, w)]
        OBVIOUS
  <2>3. cls.budget = Budget(cfg, w, share[w])
        BY <2>2
  <2>4. LayoutOf(cfg, share).globalOf[c] = GlobalOf(cfg, w) /\ LayoutOf(cfg, share).classes[c] = cls
        BY <1>1, <1>2, <2>1, <2>2
  <2> QED BY <2>3, <2>4
<1>4. RowsOf(cfg, w) \subseteq Nat /\ IsFiniteSet(RowsOf(cfg, w)) /\ ClassRows(cfg, w) = Cardinality(RowsOf(cfg, w))
      BY RowsOfFacts
<1>5. PICK m \in Nat : m = Cardinality(RowsOf(cfg, w))
      BY <1>4, FS_CardinalityType
<1>6. lay.classes[c].budget = m
      BY <1>3, <1>4, <1>5, WholeBudget
<1>7. SlotsOf(lay, c) = 0 .. m - 1
      BY <1>6 DEF SlotsOf
<1>8. Cardinality(0 .. m - 1) = m
  <2>1. 0 \in Int /\ m - 1 \in Int
        BY <1>5
  <2>2. Cardinality(0 .. m - 1) = IF 0 > m - 1 THEN 0 ELSE (m - 1) - 0 + 1
        BY <2>1, FS_Interval
  <2> QED BY <1>5, <2>2
<1>9. GlobalOf(cfg, w) = Sorted(RowsOf(cfg, w))
      BY DEF GlobalOf, RowsOf
<1>10. PICK T : T = RowsOf(cfg, w)
      OBVIOUS
<1>11. Len(Sorted(T)) = m
      BY <1>4, <1>5, <1>10, SortedFacts
<1> QED BY <1>3, <1>7, <1>8, <1>9, <1>10, <1>11

\* create never refuses storage for more than the whole table, and then every row has a slot: the budgets cut
\* from the shares lose no row, however many classes there are, and every slice is aligned if the storage is.
\* The table must be smaller than the precision of a share, 2^51 bytes in the code.
THEOREM WholeTablesFit == Spec => WholeTableFits
<1> DEFINE Promise ==
            created = "none" /\ WellFormed(config) /\ TotalBytes(config) < Precision
                /\ config.storage > TotalBytes(config) =>
            /\ created' = "ok"
            /\ \A r \in Rows(config) :
                \E c \in DOMAIN slots' : layout'.classes[c].width = config.extent[r].length
                                         /\ Cardinality(DOMAIN slots'[c]) = Len(layout'.globalOf[c])
<1>1. Inv /\ [Next]_vars => [Promise]_vars
  <2>1. SUFFICES ASSUME Inv, Next, created = "none", WellFormed(config),
                        TotalBytes(config) < Precision, config.storage > TotalBytes(config)
                 PROVE  /\ created' = "ok"
                        /\ \A r \in Rows(config) :
                            \E c \in DOMAIN slots' : layout'.classes[c].width = config.extent[r].length
                                                     /\ Cardinality(DOMAIN slots'[c]) = Len(layout'.globalOf[c])
        OBVIOUS
  <2>2. Create
        BY <2>1, OnlyCreate
  <2>3. Config(config)
        BY <2>1, ConfigFacts DEF Inv, TypeInv
  <2>4. Scanned(config) /\ RowCount(config) > 0 /\ config.batch > 0 /\ config.maxClasses > 0
        BY <2>1, <2>3, WellFormedFacts
  <2>5. ~(RowCount(config) = 0 \/ config.batch = 0 \/ config.maxClasses = 0) /\ ScanStatus(config) = "ok"
        BY <2>4 DEF Scanned
  <2>6. PICK share \in Splits(config) :
            IF ~Fits(config, share)
            THEN CreateRefused("invalid_argument")
            ELSE /\ created' = "ok"
                 /\ layout' = LayoutOf(config, share)
                 /\ slots' = [c \in DOMAIN layout'.classes |->
                                [k \in 0 .. layout'.classes[c].budget - 1 |-> FreeSlot]]
        BY <2>2, <2>5 DEF Create
  <2>7. Fits(config, share)
        BY <2>1, <2>3, WholeFits
  <2>8. /\ created' = "ok" /\ layout' = LayoutOf(config, share)
        /\ slots' = [c \in DOMAIN layout'.classes |-> [k \in SlotsOf(layout', c) |-> FreeSlot]]
        BY <2>6, <2>7 DEF SlotsOf
  <2>9. ASSUME NEW r \in Rows(config)
        PROVE  \E c \in DOMAIN slots' : layout'.classes[c].width = config.extent[r].length
                                        /\ Cardinality(DOMAIN slots'[c]) = Len(layout'.globalOf[c])
    <3>1. PICK lay : lay = layout'
          OBVIOUS
    <3>2. GoodRow(config, lay, r)
          BY <2>4, <2>8, <3>1, LayoutRows
    <3>3. PICK c \in DOMAIN lay.classes : lay.classes[c].width = config.extent[r].length
          BY <3>2 DEF GoodRow
    <3>4. Cardinality(SlotsOf(lay, c)) = Len(lay.globalOf[c])
          BY <2>1, <2>4, <2>8, <3>1, WholeClass
    <3>5. c \in DOMAIN slots' /\ DOMAIN slots'[c] = SlotsOf(lay, c)
          BY <2>8, <3>1
    <3> QED BY <3>1, <3>3, <3>4, <3>5
  <2> QED BY <2>8, <2>9
<1>2. Spec => []Inv /\ [][Next]_vars
      BY ClassedInvariant, PTL DEF Spec
<1>3. Spec => [][Promise]_vars
      BY <1>1, <1>2, PTL
<1> QED BY <1>3 DEF WholeTableFits
===============================================================================
