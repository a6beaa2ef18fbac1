------------------------------ MODULE RowIndex ------------------------------
(***************************************************************************)
(* The open-addressing index of class Table: index_, a power-of-two array  *)
(* of slot numbers with linear probing and backward-shift deletion.  It    *)
(* holds no keys: an entry's key is row_index and row_generation of the    *)
(* slot it names.  Every operation runs under lock_; a step here is one    *)
(* iteration of one of its loops.                                          *)
(*                                                                         *)
(* Table uses the index as a map from keys to slots.  This module is what  *)
(* justifies it, for every hash function.                                  *)
(***************************************************************************)
EXTENDS Integers, FiniteSets

CONSTANTS
    Keys,        \* pairs of row and generation
    BudgetRows,  \* slots_.size()
    IndexSize    \* index_.size()

\* The constructor sizes the index to bit_ceil(2 * budget_rows), so at most half of it is in use.
ASSUME SizeAssumption ==
    BudgetRows \in Nat \ {0} /\ IndexSize \in Nat /\ IndexSize >= 2 * BudgetRows

Slots == 0 .. BudgetRows - 1
Positions == 0 .. IndexSize - 1
NONE == -1
ASSUME KeyAssumption == NONE \notin Keys

VARIABLES
    home,     \* index_home: any function from keys to positions; it never changes
    key,      \* row_index and row_generation of every slot
    indexed,  \* Slot::indexed
    index,    \* index_
    miss,     \* the key that was looked up and not found and is being admitted, or NONE
    op        \* the operation under way and its locals

vars == <<home, key, indexed, index, miss, op>>

Idle == [pc |-> "idle", key |-> NONE, slot |-> NONE, hole |-> 0, pos |-> 0]

Operations == [pc : {"idle", "find", "answer", "insert", "seek", "shift"}, key : Keys \cup {NONE},
               slot : Slots \cup {NONE}, hole : Positions, pos : Positions]

\* A mutant: the probe stops at the end of the array.
NextPosClamped(pos) == IF pos + 1 = IndexSize THEN pos ELSE pos + 1
\* (pos + 1) & mask
NextPos(pos) == IF pos + 1 = IndexSize THEN 0 ELSE pos + 1

\* (to - from) & mask: how many steps a probe takes from one position to the other.
Distance(from, to) == IF to >= from THEN to - from ELSE to - from + IndexSize

\* Whether the entry at pos, which is not NONE, is of key k.
Names(pos, k) == key[index[pos]] = k

Init ==
    /\ home \in [Keys -> Positions]
    /\ key \in [Slots -> Keys]
    /\ indexed = [s \in Slots |-> FALSE]
    /\ index = [p \in Positions |-> NONE]
    /\ miss = NONE
    /\ op = Idle

\* index_find
Find(k) ==
    /\ op.pc = "idle"
    /\ miss = NONE
    /\ op' = [Idle EXCEPT !.pc = "find", !.key = k, !.pos = home[k]]
    /\ UNCHANGED <<home, key, indexed, index, miss>>

FindStep ==
    /\ op.pc = "find"
    /\ op' = IF index[op.pos] = NONE \/ Names(op.pos, op.key)
             THEN [op EXCEPT !.pc = "answer", !.slot = index[op.pos]]
             ELSE [op EXCEPT !.pos = NextPos(op.pos)]
    /\ UNCHANGED <<home, key, indexed, index, miss>>

\* The caller has the answer.  One that admits a missing row keeps the lock until it has started its
\* fill or has found no slot for it; any other caller is done.
Answered ==
    /\ op.pc = "answer"
    /\ op' = Idle
    /\ miss' \in IF op.slot = NONE THEN {op.key, NONE} ELSE {NONE}
    /\ UNCHANGED <<home, key, indexed, index>>

NoVictim ==
    /\ op.pc = "idle"
    /\ miss # NONE
    /\ miss' = NONE
    /\ UNCHANGED <<home, key, indexed, index, op>>

\* start_fill_locked gives a slot that is not indexed to the missing row; index_insert.
Insert(s) ==
    /\ op.pc = "idle"
    /\ miss # NONE
    /\ ~indexed[s]
    /\ key' = [key EXCEPT ![s] = miss]
    /\ op' = [Idle EXCEPT !.pc = "insert", !.key = miss, !.slot = s, !.pos = home[miss]]
    /\ UNCHANGED <<home, indexed, index, miss>>

InsertStep ==
    /\ op.pc = "insert"
    /\ IF index[op.pos] # NONE
       THEN /\ op' = [op EXCEPT !.pos = NextPos(op.pos)]
            /\ UNCHANGED <<indexed, index, miss>>
       ELSE /\ index' = [index EXCEPT ![op.pos] = op.slot]
            /\ indexed' = [indexed EXCEPT ![op.slot] = TRUE]
            /\ miss' = NONE
            /\ op' = Idle
    /\ UNCHANGED <<home, key>>

\* unindex_locked: a slot is evicted or invalidated, or its fill has failed.  A victim is also unindexed
\* between the look-up of a missing row and its insertion.  index_erase first finds the entry.
Erase(s) ==
    /\ op.pc = "idle"
    /\ indexed[s]
    /\ op' = [Idle EXCEPT !.pc = "seek", !.key = key[s], !.slot = s, !.hole = home[key[s]]]
    /\ UNCHANGED <<home, key, indexed, index, miss>>

SeekStep ==
    /\ op.pc = "seek"
    /\ op' = IF Names(op.hole, op.key)
             THEN [op EXCEPT !.pc = "shift", !.pos = NextPos(op.hole)]
             ELSE [op EXCEPT !.hole = NextPos(op.hole)]
    /\ UNCHANGED <<home, key, indexed, index, miss>>

\* Mutants: every entry moves back, or one whose home is the hole itself stays.
MovesBackPastHome(pos, hole) == TRUE
MovesBackUnlessHome(pos, hole) == Distance(home[key[index[pos]]], pos) > Distance(hole, pos)
\* Whether the entry at pos may be moved back into the hole: its home is not behind the hole.
MovesBack(pos, hole) == Distance(home[key[index[pos]]], pos) >= Distance(hole, pos)

\* ... then closes the gap, entry by entry up to the end of the cluster.
ShiftStep ==
    /\ op.pc = "shift"
    /\ IF index[op.pos] = NONE
       THEN /\ index' = [index EXCEPT ![op.hole] = NONE]
            /\ indexed' = [indexed EXCEPT ![op.slot] = FALSE]
            /\ op' = Idle
       ELSE /\ indexed' = indexed
            /\ IF MovesBack(op.pos, op.hole)
               THEN /\ index' = [index EXCEPT ![op.hole] = index[op.pos]]
                    /\ op' = [op EXCEPT !.hole = op.pos, !.pos = NextPos(op.pos)]
               ELSE /\ index' = index
                    /\ op' = [op EXCEPT !.pos = NextPos(op.pos)]
    /\ UNCHANGED <<home, key, miss>>

Step == FindStep \/ Answered \/ InsertStep \/ SeekStep \/ ShiftStep

Next ==
    \/ Step
    \/ NoVictim
    \/ \E k \in Keys : Find(k)
    \/ \E s \in Slots : Insert(s) \/ Erase(s)

Spec == Init /\ [][Next]_vars

\* The thread that holds the lock goes on.
FairSpec == Spec /\ WF_vars(Step)
=============================================================================
