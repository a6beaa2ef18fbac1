------------------------------ MODULE MCMirror ------------------------------
(***************************************************************************)
(* Instances of Mirror for TLC.  Each thread makes at most Reads reads.    *)
(***************************************************************************)
EXTENDS MirrorProperties, TLC

CONSTANTS Reads, p1, p2, p3, t1, t2, t3, t4, v1, v2, v3, n1
VARIABLE budget

MCvars == <<vars, budget>>

MCInit == Init /\ budget = [t \in Threads |-> Reads]

MCCallRead(t) ==
    /\ budget[t] > 0
    /\ CallRead(t)
    /\ budget' = [budget EXCEPT ![t] = @ - 1]

MCProgress ==
    \/ \E t \in Threads : ReadStep(t)
    \/ \E p \in Processes : Open(p) \/ Crash(p)
    \/ \E n \in Names, k \in Chunks : Damage(n, k)

\* Every thread has made its reads; nothing is left to do.
Over == (\A t \in Threads : th[t].pc = "idle" /\ budget[t] = 0) /\ UNCHANGED MCvars

MCNext ==
    \/ \E t \in Threads : MCCallRead(t)
    \/ MCProgress /\ UNCHANGED budget
    \/ Over

MCSpec == MCInit /\ [][MCNext]_MCvars

\* The scheduler runs every reading thread, and a fetch ends: the transport has deadlines.
MCFairSpec == MCSpec /\ \A t \in Threads : WF_MCvars(ReadStep(t) /\ UNCHANGED budget)

-----------------------------------------------------------------------------
(* Values of the constants *)

\* t3 runs in p2 and t4 in p3, the other threads in p1.
MCProcessOf == [t \in Threads |-> CASE t = t3 -> p2 [] t = t4 -> p3 [] OTHER -> p1]

\* One version; or three with files of one name: v2's validator has the hash of v1's, and v3 differs
\* from v1 in its total size only, which no name holds.
OneVersion == [p \in Processes |-> v1]
ThreeVersions == [p \in Processes |-> CASE p = p2 -> v2 [] p = p3 -> v3 [] OTHER -> v1]
OneName == [v \in Versions |-> n1]
OneUrl == [v \in Versions |-> 0]
MCTotalOf == [v \in Versions |-> IF v = v3 THEN 4 ELSE 3]
MCValidatorOf == [v \in Versions |-> IF v = v2 THEN 2 ELSE 1]

\* Chunks of two bytes: a source of three bytes has a tail chunk of one.
SizeTwo == [p \in Processes |-> 2]
SizesDiffer == [p \in Processes |-> IF p = p2 THEN 1 ELSE 2]

\* The whole source, one chunk, the tail; ranges that are refused, and one whose destination is too short.
RangesCross == {<<1, 2, 2>>}
RangesMany == {<<0, 3, 3>>, <<1, 1, 1>>, <<2, 1, 1>>, <<1, 0, 0>>, <<1, 3, 3>>, <<0, 2, 1>>}
=============================================================================
