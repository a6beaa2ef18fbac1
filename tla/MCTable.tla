------------------------------ MODULE MCTable ------------------------------
(***************************************************************************)
(* Instances of Table for TLC.  Each client makes at most Calls[c] calls,  *)
(* of the operations in Ops[c]; dropping leases and tickets is always      *)
(* possible, so every behaviour can end with the table destroyed, and a    *)
(* state that cannot go on is a deadlock.                                  *)
(***************************************************************************)
EXTENDS TableProperties, TLC

CONSTANTS Calls, Ops
VARIABLE budget

MCvars == <<vars, budget>>

MCInit == Init /\ budget = [c \in Clients |-> Calls[c]]

MCStart(c) ==
    /\ budget[c] > 0
    /\ Start(c)
    /\ call'[c].op \in Ops[c]
    /\ budget' = [budget EXCEPT ![c] = @ - 1]

\* The table, or the process, is gone; nothing is left to do.
Over == life \in {"destroyed", "terminated"} /\ UNCHANGED MCvars

MCNext ==
    \/ life # "terminated" /\ Progress /\ UNCHANGED budget
    \/ life # "terminated" /\ \E c \in Clients : MCStart(c)
    \/ Over

MCSpec == MCInit /\ [][MCNext]_MCvars

\* The scheduler runs every thread that can go on, the backend ends every transfer it accepted, and
\* callers do look at results.  Deadlines need not pass and calls need not be made.
MCFairness ==
    /\ \A c \in Clients : WF_MCvars(life # "terminated" /\ Continue(c) /\ UNCHANGED budget)
    /\ \A t \in Threads : WF_MCvars(life # "terminated" /\ Finish(t) /\ UNCHANGED budget)
    /\ WF_MCvars(life # "terminated" /\ WorkerStep /\ UNCHANGED budget)
    /\ \A s \in Slots, c \in ChunkIds :
            WF_MCvars(life # "terminated" /\ Complete(s, c) /\ UNCHANGED budget)

MCFairSpec == MCSpec /\ MCFairness

-----------------------------------------------------------------------------
(* Values of the constants *)

CONSTANTS c1, c2

Good(shard, chunks) == [status |-> "ok", shard |-> shard, chunks |-> chunks]
Bad == [status |-> "out_of_range", shard |-> 0, chunks |-> 1]

\* One read per row, from one shard; the resolver refuses row 2.
ExtentPlain == [g \in Generations |-> [r \in Rows |-> IF r = 2 THEN Bad ELSE Good(0, 1)]]

\* One read for row 0 and two for row 1, from one shard; the resolver refuses row 2.
ExtentMixed ==
    [g \in Generations |-> [r \in Rows |-> IF r = 2 THEN Bad ELSE Good(0, IF r = 1 THEN 2 ELSE 1)]]

\* Two reads per row, from two shards by turns.
ExtentShards == [g \in Generations |-> [r \in Rows |-> Good(r % 2, 2)]]

\* Batches that overlap in both orders, with a row that cannot be resolved; every argument error; a
\* batch that repeats a row; single rows.
RequestsCross == {<<0, 1>>, <<1, 0>>, <<1, 2>>}
RequestsOdd == {<<0, 0>>, <<1, 2>>, <<0, 3>>, <<>>, <<0, 1, 0>>}
RequestsSingle == {<<0>>, <<1>>}
RequestsPair == {<<0, 1>>}

CallsTwoOne == (c1 :> 2) @@ (c2 :> 1)
CallsTwoTwo == (c1 :> 2) @@ (c2 :> 2)
CallsThreeTwo == (c1 :> 3) @@ (c2 :> 2)

OpsResolve == [c \in Clients |-> {"resolve", "none"}]
OpsInvalidate == (c1 :> {"invalidate", "drain"}) @@ (c2 :> {"resolve", "prefetch", "none"})
OpsOdd == (c1 :> {"prefetch", "wait", "drain", "none"}) @@ (c2 :> {"resolve", "wait", "prefetch"})
OpsDrain == (c1 :> {"prefetch", "wait", "drain"}) @@ (c2 :> {"resolve"})
=============================================================================
