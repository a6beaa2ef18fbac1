------------------------ MODULE RowIndexProperties -------------------------
(***************************************************************************)
(* What the index promises Table, and the invariant that makes it true.    *)
(***************************************************************************)
EXTENDS RowIndex

TypeOK ==
    /\ home \in [Keys -> Positions]
    /\ key \in [Slots -> Keys]
    /\ indexed \in [Slots -> BOOLEAN]
    /\ index \in [Positions -> Slots \cup {NONE}]
    /\ miss \in Keys \cup {NONE}
    /\ op \in Operations

\* index_find answers with the indexed slot of the key, and with NONE only if there is none: no row that
\* is resident is ever missed, whatever was evicted from the middle of its probe sequence before.
FindIsExact ==
    op.pc = "answer" =>
        IF op.slot = NONE
        THEN \A s \in Slots : indexed[s] => key[s] # op.key
        ELSE indexed[op.slot] /\ key[op.slot] = op.key

\* index_erase looks for its key through slots_[index_[hole]], without a test for NONE: it never gets to
\* an empty entry, and what it then removes is the entry of its own slot.
EraseFindsItsEntry ==
    op.pc = "seek" =>
        /\ index[op.hole] # NONE
        /\ Names(op.hole, op.key) => index[op.hole] = op.slot

\* Every look-up, insertion and deletion ends: a probe always reaches an empty entry or its key.
OperationsEnd == op.pc # "idle" ~> op.pc = "idle"

-----------------------------------------------------------------------------
(* The inductive invariant *)

\* The entry that counts for nothing: the hole that index_erase has not closed yet.
Void(p) == op.pc = "shift" /\ p = op.hole
Entry(p) == index[p] # NONE /\ ~Void(p)

\* The slots that should have an entry.
Listed(s) == indexed[s] /\ ~(op.pc = "shift" /\ s = op.slot)

HomeOf(p) == home[key[index[p]]]

\* q is on the probe sequence from a to b.
Between(a, q, b) == Distance(a, q) <= Distance(a, b)

\* Each listed slot has exactly one entry, and no entry names another slot.
EntriesAreSlots ==
    /\ \A p \in Positions : Entry(p) => Listed(index[p])
    /\ \A p, q \in Positions : Entry(p) /\ Entry(q) /\ index[p] = index[q] => p = q
    /\ \A s \in Slots : Listed(s) => \E p \in Positions : Entry(p) /\ index[p] = s

\* No two indexed slots have one key, and the key being admitted is not indexed.
KeysDiffer ==
    /\ \A s, z \in Slots : indexed[s] /\ indexed[z] /\ key[s] = key[z] => s = z
    /\ miss # NONE => \A s \in Slots : indexed[s] => key[s] # miss

\* Linear probing: from the home of an entry to the entry itself nothing is empty ...
NoGaps ==
    \A p, q \in Positions :
        Entry(p) /\ Between(HomeOf(p), q, p) => index[q] # NONE

\* ... and during a deletion the hole separates an entry from its home only further on than pos.
HoleIsBehind ==
    op.pc = "shift" =>
        /\ index[op.hole] # NONE
        /\ op.pos # op.hole
        /\ \A q \in Positions : Distance(op.hole, q) < Distance(op.hole, op.pos) => index[q] # NONE
        /\ \A p \in Positions :
              Entry(p) /\ Between(HomeOf(p), op.hole, p) => Distance(op.hole, op.pos) <= Distance(op.hole, p)

\* What the loops have passed.
Passed ==
    /\ op.pc = "find" =>
          \A q \in Positions : Distance(home[op.key], q) < Distance(home[op.key], op.pos) =>
              index[q] # NONE /\ ~Names(q, op.key)
    /\ op.pc = "insert" =>
          \A q \in Positions : Distance(home[op.key], q) < Distance(home[op.key], op.pos) => index[q] # NONE
    /\ op.pc = "seek" =>
          \A q \in Positions : Distance(home[op.key], q) < Distance(home[op.key], op.hole) =>
              index[q] # op.slot

\* The operation's locals.
LocalsOK ==
    /\ op.pc \in {"find", "answer"} => op.key \in Keys /\ miss = NONE
    /\ op.pc = "insert" => op.key = miss /\ miss \in Keys /\ op.slot \in Slots /\ key[op.slot] = op.key
                           /\ ~indexed[op.slot]
    /\ op.pc \in {"seek", "shift"} => op.slot \in Slots /\ indexed[op.slot] /\ key[op.slot] = op.key

IndexInv ==
    /\ TypeOK
    /\ EntriesAreSlots
    /\ KeysDiffer
    /\ NoGaps
    /\ HoleIsBehind
    /\ Passed
    /\ LocalsOK
    /\ FindIsExact
    /\ EraseFindsItsEntry
=============================================================================
