-------------------------- MODULE ClusterFailover --------------------------
(***************************************************************************)
(* The failover of one shard of a Redis Cluster (src/cluster_legacy.c):    *)
(* its master becomes unreachable, its replicas ask the masters of the     *)
(* other shards for their votes, the winner takes the slots over with the  *)
(* epoch of its election, and PING, PONG and UPDATE messages carry epochs, *)
(* roles and slots to the nodes that missed it.  Nodes crash and restart   *)
(* from nodes.conf.                                                        *)
(*                                                                         *)
(* The slots of the shard move together, and the other shards keep theirs, *)
(* so a node's table of slots is the node that owns the slots of the shard.*)
(* Most handlers only flag the save of nodes.conf for clusterBeforeSleep():*)
(* a packet they queued on the link of another node, whose socket is ready *)
(* in the same round of the event loop, leaves before the file is written, *)
(* and a crash in between forgets what the packet says.                    *)
(***************************************************************************)
EXTENDS Integers, FiniteSets

CONSTANTS
    Shard,        \* nodes of the shard that fails over
    Voters,       \* masters of the other shards
    FirstMaster,  \* the master of the shard at the start
    Budgets       \* bounds: elections, nodes that crash, other events of a run

Nodes == Shard \cup Voters

\* A node is its name: names are compared.
ASSUME NodesAssumption ==
    /\ Nodes \subseteq Nat
    /\ IsFiniteSet(Nodes)
    /\ Shard \cap Voters = {}
    /\ FirstMaster \in Shard

ASSUME BoundsAssumption ==
    Budgets \subseteq [elections : [Shard -> Nat], restarts : SUBSET Nodes,
                  events : Nat]

VARIABLES
    currentEpoch, \* of each node
    lastVote,     \* lastVoteEpoch of each node
    saved,        \* each node's nodes.conf: its epochs and its table
    todo,         \* nodes with CLUSTER_TODO_SAVE_CONFIG
    auth,         \* a replica's election: phase, epoch and votes counted
    view,         \* each node's table of nodes and slots
    msgs,         \* messages on their way
    away,         \* nodes of the shard nobody reaches
    votes,        \* history: votes given, <<voter, epoch, replica>>
    unsaved,      \* history: votes given since the last save, <<voter, epoch>>
    lost,         \* history: votes that were unsaved when the voter crashed
    counted,      \* history: votes a replica counted, <<voter, epoch>>
    won,          \* history: elections won, <<replica, epoch, a vote of another
                  \* epoch was counted>>
    budget        \* what may still happen

vars == <<currentEpoch, lastVote, saved, todo, auth, view, msgs, away, votes,
          unsaved, lost, counted, won, budget>>
conf == <<saved, todo, unsaved>>

-----------------------------------------------------------------------------
(* What a node knows.  epoch: configEpoch of every node; slaveof: a node's *)
(* master, itself when it is one; owner: of the slots of the shard;        *)
(* unclaimed: owner_not_claiming_slot; fail: the nodes flagged FAIL.       *)

Newest(a, b) == IF a >= b THEN a ELSE b

FirstEpoch == Cardinality(Nodes)

\* Masters differ in their configEpoch; the entry of a replica has its
\* master's, which its messages carry.
FirstView ==
    [epoch |-> [n \in Nodes |->
        LET m == IF n \in Shard THEN FirstMaster ELSE n
        IN  Cardinality({x \in Nodes : x <= m})],
     slaveof |-> [n \in Nodes |-> IF n \in Shard THEN FirstMaster ELSE n],
     owner |-> FirstMaster,
     unclaimed |-> FALSE,
     fail |-> {FirstMaster}]

NoElection == [phase |-> "none", epoch |-> 0, count |-> 0]

IsMaster(v, n) == v.slaveof[n] = n

\* The header of every message: a replica sends its master's epoch and slots.
clusterBuildMessageHdr(i) ==
    LET m == view[i].slaveof[i]
    IN  [from |-> i, currentEpoch |-> currentEpoch[i],
         configEpoch |-> view[i].epoch[m], slaveof |-> m,
         claims |-> view[i].owner = m]

clusterGetMaxEpoch(c, v) ==
    CHOOSE e \in {c} \cup {v.epoch[n] : n \in Nodes} :
        e >= c /\ \A n \in Nodes : e >= v.epoch[n]

\* Mutant: the last vote is not saved.
clusterSaveConfig_noVote(n) ==
    /\ saved' = [saved EXCEPT ![n].currentEpoch = currentEpoch'[n],
                             ![n].view = [view'[n] EXCEPT !.unclaimed = FALSE]]
    /\ todo' = todo \ {n}
    /\ unsaved' = {p \in unsaved : p[1] # n}

\* clusterSaveConfig(): what is in memory, except owner_not_claiming_slot, is
\* written and the flag is cleared.
clusterSaveConfig(n) ==
    /\ saved' = [saved EXCEPT
            ![n] = [currentEpoch |-> currentEpoch'[n],
                    lastVote |-> lastVote'[n],
                    view |-> [view'[n] EXCEPT !.unclaimed = FALSE]]]
    /\ todo' = todo \ {n}
    /\ unsaved' = {p \in unsaved : p[1] # n}

\* clusterDoBeforeSleep(): some nodes are to save nodes.conf; given: the votes
\* this will save. Nobody reads the file of a node that will not crash again.
clusterDoBeforeSleep(ns, given) ==
    /\ todo' = todo \cup (ns \cap budget.restarts)
    /\ unsaved' = unsaved \cup given
    /\ UNCHANGED saved

\* A table that changes is to be saved; a newer current epoch alone is not.
SaveIfChanged(n) ==
    IF view'[n] # view[n] THEN clusterDoBeforeSleep({n}, {}) ELSE UNCHANGED conf

\* The part of clusterBeforeSleep() that saves.
clusterBeforeSleep(n) ==
    /\ n \in todo
    /\ UNCHANGED <<currentEpoch, lastVote, auth, view, msgs, away, votes, lost,
                   counted, won, budget>>
    /\ clusterSaveConfig(n)

-----------------------------------------------------------------------------
(* Tables after a message. *)

\* The sender's configEpoch, from any message.
SenderEpoch(v, hdr) ==
    [v EXCEPT !.epoch[hdr.from] = Newest(@, hdr.configEpoch)]

\* A flag of a replica, or of a master without slots, goes with its PONG.
clearNodeFailureIfNeeded(v, n) ==
    IF ~IsMaster(v, n) \/ v.owner # n
    THEN [v EXCEPT !.fail = @ \ {n}] ELSE v

clusterSetMaster(v, me, n) == [v EXCEPT !.slaveof[me] = n]

\* clusterDelSlot() and clusterAddSlot().
Bind(v, n) == [v EXCEPT !.owner = n, !.unclaimed = FALSE]

RoleSwitch(v, hdr) ==
    LET i == hdr.from
        m == hdr.slaveof
        Moved == IF v.owner = i THEN Bind(v, m) ELSE v
        Demoted ==
            IF IsMaster(v, i) /\ v.epoch[i] <= hdr.configEpoch
            THEN [Moved EXCEPT !.slaveof[m] = m, !.epoch[m] = hdr.configEpoch]
            ELSE v
    IN  IF m = i THEN [v EXCEPT !.slaveof[i] = i]
        ELSE [Demoted EXCEPT !.slaveof[i] = m]

\* Mutant: a master that lost its slots follows the new one and keeps them.
clusterUpdateSlotsConfigWith_keepsSlots(v, me, n, epoch, claims) ==
    LET Rebinds == /\ claims /\ n # me /\ v.owner # n
                   /\ v.unclaimed \/ v.epoch[v.owner] < epoch
    IN  IF Rebinds /\ v.owner = v.slaveof[me]
        THEN clusterSetMaster(v, me, n)
        ELSE IF Rebinds THEN Bind(v, n) ELSE v

\* n claims the slots of the shard with an epoch, or no longer claims them.
clusterUpdateSlotsConfigWith(v, me, n, epoch, claims) ==
    LET curmaster == v.slaveof[me]
        Rebinds == /\ claims /\ v.owner # n
                   /\ v.unclaimed \/ v.epoch[v.owner] < epoch
        Bound == IF Rebinds THEN Bind(v, n)
                 ELSE [v EXCEPT !.unclaimed = IF v.owner = n THEN ~claims ELSE @]
        Grandmaster == v.slaveof[curmaster]
    IN  IF n = me THEN v
        ELSE IF Rebinds /\ v.owner = curmaster
        THEN clusterSetMaster(Bound, me, n)
        ELSE IF Grandmaster \notin {curmaster, me}
        THEN clusterSetMaster(Bound, me, Grandmaster)
        ELSE Bound

Dirty(v, hdr) == (v.owner = v.slaveof[hdr.from]) # hdr.claims

\* The sender's epoch, flag and role, from a PING or PONG.
Switched(v, hdr) ==
    RoleSwitch(clearNodeFailureIfNeeded(SenderEpoch(v, hdr), hdr.from), hdr)

\* The slots a master claims are not those it had.
ClaimedSlots(v, me, hdr) ==
    IF IsMaster(v, hdr.from) /\ Dirty(v, hdr)
    THEN clusterUpdateSlotsConfigWith(v, me, hdr.from, hdr.configEpoch,
                                      hdr.claims)
    ELSE v

\* The sender claims slots that a master with a newer epoch has: tell it.
OutdatedClaim(v, me, hdr) ==
    /\ hdr.claims
    /\ LET switched == Switched(v, hdr)
           after == ClaimedSlots(switched, me, hdr)
       IN  /\ Dirty(switched, hdr)
           /\ after.owner # hdr.from /\ ~after.unclaimed
           /\ after.epoch[after.owner] > hdr.configEpoch

\* Mutant: collisions are not handled.
clusterHandleConfigEpochCollision_never(v, me, hdr) == FALSE

\* Two masters with one configEpoch: the one with the smaller name moves.
clusterHandleConfigEpochCollision(v, me, hdr) ==
    /\ IsMaster(v, me) /\ IsMaster(v, hdr.from)
    /\ hdr.configEpoch = v.epoch[me] /\ v.epoch[hdr.from] = v.epoch[me]
    /\ hdr.from > me

-----------------------------------------------------------------------------
(* Messages. *)

Reaches(i, j) == i # j /\ i \notin away /\ j \notin away

State(n) == [currentEpoch |-> currentEpoch[n], view |-> view[n],
             saves |-> FALSE]

\* j after a PING or PONG of i; the handler of a collision saves by itself.
ProcessPing(i, j) ==
    LET hdr == clusterBuildMessageHdr(i)
        known == Newest(currentEpoch[j], hdr.currentEpoch)
        v == ClaimedSlots(Switched(view[j], hdr), j, hdr)
        collides == clusterHandleConfigEpochCollision(v, j, hdr)
    IN  [currentEpoch |-> IF collides THEN known + 1 ELSE known,
         view |-> IF collides THEN [v EXCEPT !.epoch[j] = known + 1] ELSE v,
         saves |-> collides]

\* i after the UPDATE message with which j answers an outdated claim of i.
ProcessUpdate(i, j) ==
    LET hdr == clusterBuildMessageHdr(i)
        n == view[j].owner
        epoch == view[j].epoch[n]
        v == SenderEpoch(view[i], clusterBuildMessageHdr(j))
        known == Newest(currentEpoch[i], currentEpoch[j])
    IN  IF ~OutdatedClaim(view[j], j, hdr) THEN State(i)
        ELSE [currentEpoch |-> known, saves |-> FALSE,
              view |-> IF v.epoch[n] >= epoch THEN v
                       ELSE clusterUpdateSlotsConfigWith(
                            [v EXCEPT !.slaveof[n] = n, !.epoch[n] = epoch],
                            i, n, epoch, TRUE)]

\* n's table and epochs change.
Learn(n, state) ==
    /\ state # State(n)
    /\ currentEpoch' = [currentEpoch EXCEPT ![n] = state.currentEpoch]
    /\ view' = [view EXCEPT ![n] = state.view]
    /\ UNCHANGED <<lastVote, auth, msgs, away, votes, lost, counted, won, budget>>
    /\ IF state.saves THEN clusterSaveConfig(n) ELSE SaveIfChanged(n)

Gossip(i, j) ==
    /\ Reaches(i, j)
    /\ Learn(j, ProcessPing(i, j)) \/ Learn(i, ProcessUpdate(i, j))

\* Any message shows its sender's epochs.
ReadHeader(m) ==
    /\ currentEpoch' = [currentEpoch EXCEPT
            ![m.to] = Newest(@, m.currentEpoch)]
    /\ view' = [view EXCEPT ![m.to] = SenderEpoch(@, m)]

-----------------------------------------------------------------------------
(* Elections. *)

\* clusterHandleSlaveFailover(): its preconditions.
MayFailOver(n) ==
    LET m == view[n].slaveof[n]
    IN  m # n /\ m \in view[n].fail /\ view[n].owner = m

Elect(n, a) == auth' = [auth EXCEPT ![n] = a]

\* The retry time has elapsed: plan a new election.
ScheduleElection(n) ==
    /\ MayFailOver(n)
    /\ auth[n].phase \in {"none", "expired"} /\ budget.elections[n] > 0
    /\ Elect(n, [auth[n] EXCEPT !.phase = "scheduled", !.count = 0])
    /\ counted' = [counted EXCEPT ![n] = {}]
    /\ UNCHANGED <<currentEpoch, lastVote, conf, view, msgs, away, votes, lost,
                   won, budget>>

clusterRequestFailoverAuth(n, e) ==
    LET hdr == clusterBuildMessageHdr(n)
    IN  {[type |-> "REQUEST", from |-> n, to |-> v, currentEpoch |-> e,
          configEpoch |-> hdr.configEpoch, claims |-> hdr.claims] :
            v \in Voters}

StartElection(n) ==
    LET e == currentEpoch[n] + 1
    IN  /\ MayFailOver(n)
        /\ auth[n].phase = "scheduled" /\ budget.elections[n] > 0
        /\ currentEpoch' = [currentEpoch EXCEPT ![n] = e]
        /\ Elect(n, [auth[n] EXCEPT !.phase = "sent", !.epoch = e])
        /\ msgs' = msgs \cup clusterRequestFailoverAuth(n, e)
        /\ budget' = [budget EXCEPT !.elections[n] = @ - 1]
        /\ UNCHANGED <<lastVote, view, away, votes, lost, counted, won>>
        /\ clusterDoBeforeSleep({n}, {})

\* The time to collect votes is over.
ElectionExpires(n) ==
    /\ auth[n].phase \in {"scheduled", "sent"}
    /\ Elect(n, [auth[n] EXCEPT !.phase = "expired"])
    /\ UNCHANGED <<currentEpoch, lastVote, conf, view, msgs, away, votes, lost,
                   counted, won, budget>>

\* The conditions to vote, with the header read.
MayVote(m) ==
    LET v == view[m.to]
        master == v.slaveof[m.from]
    IN  /\ m.currentEpoch >= currentEpoch[m.to]
        /\ lastVote[m.to] # Newest(currentEpoch[m.to], m.currentEpoch)
        /\ master # m.from /\ master \in v.fail
        /\ m.claims => v.unclaimed \/ v.epoch[v.owner] <= m.configEpoch

clusterSendFailoverAuth(m) ==
    [type |-> "ACK", from |-> m.to, to |-> m.from,
     currentEpoch |-> m.currentEpoch,
     configEpoch |-> view[m.to].epoch[m.to]]

clusterSendFailoverAuthIfNeeded(m) ==
    /\ m.type = "REQUEST"
    /\ ReadHeader(m)
    /\ UNCHANGED <<auth, away, lost, counted, won, budget>>
    /\ \/ /\ MayVote(m)
          /\ lastVote' = [lastVote EXCEPT ![m.to] = m.currentEpoch]
          /\ msgs' = (msgs \ {m}) \cup {clusterSendFailoverAuth(m)}
          /\ votes' = votes \cup {<<m.to, m.currentEpoch, m.from>>}
          /\ clusterDoBeforeSleep({m.to}, {<<m.to, m.currentEpoch>>})
       \/ /\ ~MayVote(m)
          /\ msgs' = msgs \ {m}
          /\ UNCHANGED <<lastVote, votes>>
          /\ SaveIfChanged(m.to)

\* The sender of a vote is a master with slots, as all the voters are. It is
\* counted whatever the phase of the election, if its epoch is not older than
\* that of the last election that was started.
ProcessAck(m) ==
    LET n == m.to
        counts == m.currentEpoch >= auth[n].epoch
    IN  /\ m.type = "ACK"
        /\ ReadHeader(m)
        /\ msgs' = msgs \ {m}
        /\ Elect(n, IF counts THEN [auth[n] EXCEPT !.count = @ + 1]
                    ELSE auth[n])
        /\ counted' = [counted EXCEPT
                ![n] = IF counts THEN @ \cup {<<m.from, m.currentEpoch>>} ELSE @]
        /\ UNCHANGED <<lastVote, away, votes, lost, won, budget>>
        /\ SaveIfChanged(n)

\* Mutant: half of the masters are enough.
needed_quorum_half == (Cardinality(Voters) + 1) \div 2

needed_quorum == ((Cardinality(Voters) + 1) \div 2) + 1

clusterFailoverReplaceYourMaster(v, n) ==
    LET took == IF v.owner = v.slaveof[n] THEN Bind(v, n) ELSE v
    IN  [took EXCEPT !.slaveof[n] = n]

WinElection(n) ==
    LET v == [view[n] EXCEPT !.epoch[n] = Newest(@, auth[n].epoch)]
    IN  /\ MayFailOver(n)
        /\ auth[n].phase = "sent" /\ auth[n].count >= needed_quorum
        /\ view' = [view EXCEPT ![n] = clusterFailoverReplaceYourMaster(v, n)]
        /\ won' = won \cup {<<n, auth[n].epoch,
                              \E p \in counted[n] : p[2] # auth[n].epoch>>}
        /\ UNCHANGED <<currentEpoch, lastVote, auth, msgs, away, votes, lost,
                       counted, budget>>
        /\ clusterSaveConfig(n)

-----------------------------------------------------------------------------
(* Faults, operators, and the failure detector. *)

Event == budget.events > 0 /\ budget' = [budget EXCEPT !.events = @ - 1]

\* The master of the shard is cut off from everyone.
LoseMaster(n) ==
    /\ Event
    /\ n \in Shard /\ IsMaster(view[n], n)
    /\ n \notin away /\ away' = away \cup {n}
    /\ UNCHANGED <<currentEpoch, lastVote, conf, auth, view, msgs, votes, lost,
                   counted, won>>

ReachAgain(n) ==
    /\ Event
    /\ n \in away /\ away' = away \ {n}
    /\ UNCHANGED <<currentEpoch, lastVote, conf, auth, view, msgs, votes, lost,
                   counted, won>>

\* The tables of some nodes gain and lose flags.
FlagAt(ns, gain, lose) ==
    /\ ns # {}
    /\ view' = [n \in Nodes |->
            IF n \in ns THEN [view[n] EXCEPT !.fail = (@ \cup gain) \ lose]
            ELSE view[n]]
    /\ clusterDoBeforeSleep(ns, {})
    /\ UNCHANGED <<currentEpoch, lastVote, auth, msgs, away, votes, lost, counted,
                   won, budget>>

\* markNodeAsFailingIfNeeded(): a majority reported x; its FAIL message
\* reaches the others.
markNodeAsFailing(x) ==
    /\ x \in away
    /\ FlagAt({n \in Nodes \ away : x \notin view[n].fail}, {x}, {})

\* Nobody took over the slots of a master that is reachable again.
ClearOldFailure(x) ==
    FlagAt({n \in Nodes : /\ Reaches(x, n) /\ x \in view[n].fail
                          /\ IsMaster(view[n], x) /\ view[n].owner = x},
           {}, {x})

\* n takes the next epoch by itself, unless it has the greatest one already.
clusterBumpConfigEpochWithoutConsensus(n) ==
    IF \/ view[n].epoch[n] = 0
       \/ view[n].epoch[n] # clusterGetMaxEpoch(currentEpoch[n], view[n])
    THEN [currentEpoch |-> currentEpoch[n] + 1,
          view |-> [view[n] EXCEPT !.epoch[n] = currentEpoch[n] + 1],
          saves |-> FALSE]
    ELSE State(n)

\* An order changes n's epochs and table.
Order(n, state) ==
    /\ Event
    /\ currentEpoch' = [currentEpoch EXCEPT ![n] = state.currentEpoch]
    /\ view' = [view EXCEPT ![n] = state.view]
    /\ UNCHANGED <<lastVote, auth, msgs, away, votes, lost, counted, won>>

\* CLUSTER BUMPEPOCH, or the end of the import of a slot.
BumpEpoch(n) ==
    /\ clusterBumpConfigEpochWithoutConsensus(n) # State(n)
    /\ Order(n, clusterBumpConfigEpochWithoutConsensus(n))
    /\ clusterDoBeforeSleep({n}, {})

\* CLUSTER FAILOVER TAKEOVER.
Takeover(n) ==
    /\ ~IsMaster(view[n], n)
    /\ LET s == clusterBumpConfigEpochWithoutConsensus(n)
       IN  Order(n, [s EXCEPT !.view = clusterFailoverReplaceYourMaster(@, n)])
    /\ clusterSaveConfig(n)

\* A crash, and the restart with clusterLoadConfig().
Restart(n) ==
    /\ n \in budget.restarts
    /\ budget' = [budget EXCEPT !.restarts = @ \ {n}]
    /\ currentEpoch' = [currentEpoch EXCEPT
            ![n] = clusterGetMaxEpoch(saved[n].currentEpoch, saved[n].view)]
    /\ lastVote' = [lastVote EXCEPT ![n] = saved[n].lastVote]
    /\ view' = [view EXCEPT ![n] = saved[n].view]
    /\ todo' = todo \ {n}
    /\ lost' = lost \cup {p \in unsaved : p[1] = n}
    /\ unsaved' = {p \in unsaved : p[1] # n}
    /\ Elect(n, NoElection)
    /\ counted' = [counted EXCEPT ![n] = {}]
    /\ UNCHANGED <<saved, msgs, away, votes, won>>

-----------------------------------------------------------------------------
Init ==
    /\ currentEpoch = [n \in Nodes |-> FirstEpoch]
    /\ lastVote = [n \in Nodes |-> 0]
    /\ auth = [n \in Nodes |-> NoElection]
    /\ view = [n \in Nodes |-> IF n = FirstMaster
                               THEN [FirstView EXCEPT !.fail = {}]
                               ELSE FirstView]
    /\ saved = [n \in Nodes |-> [currentEpoch |-> FirstEpoch, lastVote |-> 0,
                                 view |-> view[n]]]
    /\ todo = {} /\ unsaved = {} /\ lost = {}
    /\ msgs = {} /\ away = {FirstMaster} /\ votes = {} /\ won = {}
    /\ counted = [n \in Nodes |-> {}]
    /\ budget \in Budgets

Deliver(m) ==
    /\ m.from \notin away /\ m.to \notin away
    /\ clusterSendFailoverAuthIfNeeded(m) \/ ProcessAck(m)

Next ==
    \/ \E i, j \in Nodes : Gossip(i, j)
    \/ \E m \in msgs : Deliver(m)
    \/ \E n \in Shard :
        \/ ScheduleElection(n) \/ StartElection(n) \/ ElectionExpires(n)
        \/ WinElection(n) \/ LoseMaster(n) \/ ReachAgain(n) \/ Takeover(n)
        \/ markNodeAsFailing(n) \/ ClearOldFailure(n)
    \/ \E n \in Nodes :
        BumpEpoch(n) \/ Restart(n) \/ clusterBeforeSleep(n)

Spec == Init /\ [][Next]_vars

\* Nobody has news: no PING or UPDATE among the nodes that reach each other
\* would change a table or an epoch.
Quiet ==
    \A i, j \in Nodes : Reaches(i, j) =>
        ProcessPing(i, j) = State(j) /\ ProcessUpdate(i, j) = State(i)

\* clusterCron() pings every node again and again, so news is told: either
\* there is none again and again, or steps that change only tables and
\* epochs never end.
Fairness ==
    []<>Quiet \/ []<><<UNCHANGED <<auth, msgs, away, budget>>>>_vars

FairSpec == Spec /\ Fairness

-----------------------------------------------------------------------------
(* Properties. *)

Views == [epoch : [Nodes -> Nat], slaveof : [Nodes -> Nodes], owner : Nodes,
          unclaimed : BOOLEAN, fail : SUBSET Shard]

Requests == [type : {"REQUEST"}, from : Shard, to : Voters, currentEpoch : Nat,
             configEpoch : Nat, claims : BOOLEAN]

Acks == [type : {"ACK"}, from : Voters, to : Shard, currentEpoch : Nat,
         configEpoch : Nat]

\* Types; epochs never go back in memory, so neither nodes.conf nor a vote is
\* ahead of the current epoch.
TypeOK ==
    /\ currentEpoch \in [Nodes -> Nat] /\ lastVote \in [Nodes -> Nat]
    /\ saved \in [Nodes -> [currentEpoch : Nat, lastVote : Nat, view : Views]]
    /\ todo \subseteq Nodes
    /\ auth \in [Nodes -> [phase : {"none", "scheduled", "sent", "expired"},
                           epoch : Nat, count : Nat]]
    /\ view \in [Nodes -> Views]
    /\ msgs \subseteq Requests \cup Acks
    /\ away \subseteq Shard
    /\ votes \subseteq Voters \X Nat \X Shard
    /\ unsaved \subseteq Voters \X Nat /\ lost \subseteq Voters \X Nat
    /\ won \subseteq Shard \X Nat \X BOOLEAN
    /\ counted \in [Nodes -> SUBSET (Voters \X Nat)]
    /\ \A n \in Nodes :
        /\ saved[n].currentEpoch <= currentEpoch[n]
        /\ saved[n].lastVote <= lastVote[n]
        /\ saved[n].lastVote <= saved[n].currentEpoch
        /\ lastVote[n] <= currentEpoch[n]

\* A master does not vote for two replicas in one epoch, whatever else crashes
\* and restarts from nodes.conf, but for one case: the ACK of its first vote left
\* and it crashed before the clusterBeforeSleep() that saves this vote.
OneVotePerEpoch ==
    \A a, b \in votes :
        a[1] = b[1] /\ a[2] = b[2] => a[3] = b[3] \/ <<a[1], a[2]>> \in lost

\* Two replicas win elections of one epoch only if a master forgot its vote of
\* that epoch in a crash, or one of them counted a vote that was given in another
\* epoch than that of its election: one that arrived after its own election was
\* given up and before the next one was sent.
OneWinnerPerEpoch ==
    \A a, b \in won :
        a[2] = b[2] => \/ a[1] = b[1]
                      \/ a[3] \/ b[3]
                      \/ \E v \in Voters : <<v, a[2]>> \in lost

\* What a comment says of them, and does not hold in these cases: "It is not
\* possible that different slaves get the same config epoch during a failover
\* election, because the slaves need to get voted by a majority"
\* (clusterHandleConfigEpochCollision).
WinnersDiffer ==
    \A a, b \in won : a[2] = b[2] => a[1] = b[1]

\* A node that its own table gives the slots knows it is a master, so that
\* clusterSetMaster()'s assertion that it owns none holds.
ReplicasOwnNothing ==
    \A n \in Nodes : view[n].owner = n => IsMaster(view[n], n)

\* The nodes that reach a master that serves the slots agree that it owns
\* them and is the only master of the shard; and "different masters" have
\* "different configuration epochs whatever happened".
Settled ==
    \A i, j \in Nodes \ away :
        /\ view[i].owner = i =>
            /\ view[j].owner = i
            /\ j \in Shard /\ IsMaster(view[j], j) => j = i
        /\ i # j /\ IsMaster(view[i], i) /\ IsMaster(view[j], j) =>
                view[i].epoch[i] # view[j].epoch[j]

\* Once failures, elections and orders end, the cluster settles for good.
EventuallySettled == <>[]Settled
=============================================================================
