----------------------------- MODULE FillWindow -----------------------------
(***************************************************************************)
(* The arithmetic of a fill: which bytes of the source start_fill_locked   *)
(* reads for a row, where they go in the slot, and how many reads that     *)
(* takes.  `alignment` and `chunk` are fill_alignment and                  *)
(* fill_chunk_bytes; 0 turns them off.                                     *)
(***************************************************************************)
EXTENDS Integers

RoundDown(n, a) == (n \div a) * a
RoundUp(n, a) == RoundDown(n + a - 1, a)
Lesser(a, b) == IF a < b THEN a ELSE b

\* A mutant: room for the row alone, without the slack in front of it.
AlignedSlotOnce(width, alignment) == RoundUp(width, alignment)
\* aligned_slot_bytes
AlignedSlot(width, alignment) == RoundDown(width + 2 * alignment - 2, alignment)

\* The slot of an identity table.
SlotFor(width, alignment) == IF alignment = 0 THEN width ELSE AlignedSlot(width, alignment)

\* The bytes read for a row: its own, or the aligned window around them, cut off at the end of the source.
WindowFrom(offset, alignment) == IF alignment = 0 THEN offset ELSE RoundDown(offset, alignment)
WindowTo(offset, length, alignment, source) ==
    IF alignment = 0 THEN offset + length ELSE Lesser(RoundUp(offset + length, alignment), source)

\* A mutant: the row is taken to start where its slot does.
HeadNone(offset, alignment) == 0
\* published_offset: where the row starts in its slot.
HeadOf(offset, alignment) == offset - WindowFrom(offset, alignment)

\* chunks_per_row_: the claims a slot of the table has.
ChunksPerRow(width, alignment, chunk) ==
    LET fill == SlotFor(width, alignment)
    IN  IF chunk # 0 /\ chunk < fill THEN (fill + chunk - 1) \div chunk ELSE 1

\* The length of a read but the last, and the number of reads of a window of `bytes` bytes.
Step(width, alignment, chunk, bytes) == IF ChunksPerRow(width, alignment, chunk) > 1 THEN chunk ELSE bytes
ReadCount(step, bytes) == (bytes + step - 1) \div step

\* The reads of a row into a slot at `base`: from the source, to the storage.
ReadsOf(e, base, alignment, chunk, source) ==
    LET from == WindowFrom(e.offset, alignment)
        bytes == WindowTo(e.offset, e.length, alignment, source) - from
        step == Step(e.length, alignment, chunk, bytes)
    IN  [n \in 1 .. ReadCount(step, bytes) |->
            [from |-> from + (n - 1) * step, to |-> base + (n - 1) * step,
             length |-> Lesser(step, bytes - (n - 1) * step)]]
=============================================================================
