-------------------------- MODULE MCMirrorBackend --------------------------
(***************************************************************************)
(* An instance of MirrorBackend for TLC: two workers, a ring of two, and   *)
(* one source more than can be registered.                                 *)
(***************************************************************************)
EXTENDS MirrorBackendProperties

CONSTANTS r1, r2, r3, s1, s2

\* One request names a source that is never, or only later, registered.
MCSourceOf == [r \in Requests |-> IF r = r2 THEN s2 ELSE s1]

\* The object is gone; nothing is left to do.
Over == life = "destroyed" /\ UNCHANGED vars

MCSpec == Init /\ [][Next \/ Over]_vars
MCFairSpec == MCSpec /\ Fairness
=============================================================================
