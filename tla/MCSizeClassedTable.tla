------------------------- MODULE MCSizeClassedTable -------------------------
(* Registrations for TLC: a few whose tables are then called, and many that are only created. *)
EXTENDS SizeClassedTableProperties, TLC

CONSTANTS t1, t2

\* Rows of the given widths in one shard, one after the other from an offset.
Packed(first, widths) ==
    [r \in 0 .. Len(widths) - 1 |->
        [status |-> "ok", shard |-> 1, offset |-> first + SumFunction(SubSeq(widths, 1, r)),
         length |-> widths[r + 1]]]

\* Three rows of one byte and three of two, slots for two of each; row 2 is in a second shard, where it has the
\* offset of row 1, and row 3 in one that is not registered.
Plain == [extent |-> [Packed(0, <<1, 2, 1, 2, 1, 2>>) EXCEPT ![2].shard = 2, ![2].offset = 1, ![3].shard = 3],
          sources |-> <<9, 2>>, storage |-> 7, base |-> 0, batch |-> 1,
          tickets |-> 1, alignment |-> 0, chunk |-> 0, maxClasses |-> 2]

\* Windows of blocks of two bytes, read block by block; row 1 crosses a block boundary, the last window is
\* cut off at the end of the source, and row 3 is beyond it.
Aligned == [Plain EXCEPT !.extent = Packed(1, <<1, 3, 2, 3>>), !.sources = <<7>>, !.storage = 15, !.alignment = 2,
                         !.chunk = 2, !.maxClasses = 3, !.batch = 2]

MCServed == {Plain, Aligned}

\* Registrations of up to four rows of three widths, with every storage around what the whole table needs.
Widest == UNION {[1 .. n -> 1 .. 3] : n \in 1 .. 4}
Created(widths, alignment, chunk, batch, over) ==
    LET cfg == [Plain EXCEPT !.extent = Packed(0, widths), !.sources = <<12>>, !.alignment = alignment,
                             !.chunk = chunk, !.batch = batch, !.maxClasses = 3]
    IN  [cfg EXCEPT !.storage = TotalBytes(cfg) + over]
Sized ==
    {Created(w, a[1], a[2], b, o) :
        w \in Widest, a \in {<<0, 0>>, <<2, 2>>, <<3, 3>>}, b \in {1, 2}, o \in -1 .. 1}

\* Registrations with something wrong.
Refused ==
    {[Plain EXCEPT !.extent = <<>>], [Plain EXCEPT !.batch = 0], [Plain EXCEPT !.maxClasses = 0],
     [Plain EXCEPT !.maxClasses = 1], [Plain EXCEPT !.tickets = 0], [Plain EXCEPT !.sources = <<>>],
     [Plain EXCEPT !.sources = <<9, 0>>],
     [Plain EXCEPT !.extent[1].status = "io_error"], [Plain EXCEPT !.extent[2].length = 0],
     [Aligned EXCEPT !.base = 1], [Aligned EXCEPT !.chunk = 3]}

MCConfigs == MCServed \cup Sized \cup Refused

\* Rows of two classes, a batch whose second row is out of range, a third row for the two narrow slots, and a
\* row whose fill is refused: its shard is not registered, or it is beyond its source.
MCRequests == {<<0, 1>>, <<2, 9>>, <<4>>, <<3>>}
MCCallLimit == (t1 :> 2) @@ (t2 :> 1)
=============================================================================
