------------------------ MODULE MCClusterFailover ------------------------
(* A shard of a master and two replicas, and two masters that vote. *)
EXTENDS ClusterFailover

\* Elections of the replicas 1 and 4, nodes that crash, other events.
Budget(one, four, r, x) ==
    [elections |-> [n \in Shard |-> CASE n = 1 -> one [] n = 4 -> four [] OTHER -> 0],
     restarts |-> r, events |-> x]

\* A voter crashes while both replicas ask; a replica that asks twice crashes;
\* an order, or a partition that heals, during an election of either replica;
\* a node crashes after an order.
MCBudgets ==
    {Budget(1, 1, {3}, 0), Budget(2, 0, {1}, 0), Budget(1, 0, {}, 1),
     Budget(0, 1, {}, 1), Budget(0, 0, {3}, 1), Budget(0, 0, {4}, 1)}

\* Each replica asks twice; both voters crash while both replicas ask.
LateBudgets == {Budget(2, 2, {}, 0)}
CrashBudgets == {Budget(1, 1, Voters, 0)}
==========================================================================
