----------------------------- MODULE MCRowIndex -----------------------------
(***************************************************************************)
(* Instances of RowIndex for TLC: every hash function over a small index.  *)
(***************************************************************************)
EXTENDS RowIndexProperties

\* The keys are numbers and interchangeable, so it is enough to look at the hash functions that grow with
\* them, with all homes around the end of the array, so that clusters cross it; the key of a slot that
\* was never used is that of row 0, here the smallest.
MCInit ==
    /\ Init
    /\ \A k \in Keys : home[k] \in {0, IndexSize - 3, IndexSize - 2, IndexSize - 1}
    /\ \A j, k \in Keys : j < k => home[j] <= home[k]
    /\ \A s \in Slots, k \in Keys : key[s] <= k

MCSpec == MCInit /\ [][Next]_vars /\ WF_vars(Step)
=============================================================================
