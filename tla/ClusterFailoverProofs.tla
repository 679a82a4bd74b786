----------------------- MODULE ClusterFailoverProofs -----------------------
(***************************************************************************)
(* For every set of nodes and every number of elections, crashes and other *)
(* events: two replicas win elections of one epoch only if a voter forgot  *)
(* its vote of that epoch in a crash, or a vote of another epoch was       *)
(* counted.                                                                *)
(*                                                                         *)
(* A vote that was not forgotten is covered by the voter's last vote, and, *)
(* once it was saved, by the last vote in its nodes.conf, so the voter     *)
(* votes once in an epoch over restarts.  A vote is counted once, so the   *)
(* count of a replica is the number of voters it counted.  Two winners of  *)
(* an epoch share a voter.                                                 *)
(***************************************************************************)
EXTENDS ClusterFailover, FiniteSetTheorems, WellFoundedInduction, TLAPS

\* The votes behind a winner are more than half of those there are.
Elected(n, e) ==
    \E Q \in SUBSET Voters :
        /\ Cardinality(Q) >= needed_quorum
        /\ \A v \in Q : <<v, e, n>> \in votes

\* A vote that no crash took is covered by the voter's last vote, in memory and,
\* once it was saved, in nodes.conf.
Covered(v, e) ==
    /\ e <= lastVote[v]
    /\ <<v, e>> \in unsaved \/ e <= saved[v].lastVote

VotesCovered == \A t \in votes : <<t[1], t[2]>> \in lost \/ Covered(t[1], t[2])

AcksAreVotes == \A m \in msgs \cap Acks :
    <<m.from, m.currentEpoch, m.to>> \in votes

\* A vote is sent once, unless the voter forgot it.
AcksDiffer == \A m, k \in msgs \cap Acks :
    m.from = k.from /\ m.to = k.to /\ m.currentEpoch = k.currentEpoch =>
        m = k \/ <<m.from, m.currentEpoch>> \in lost

VoteInv == OneVotePerEpoch /\ VotesCovered /\ AcksAreVotes /\ AcksDiffer

\* What a replica counted are votes for it, which are not on their way again.
CountedVotes == \A n \in Shard : \A p \in counted[n] :
    <<p[1], p[2], n>> \in votes

CountedOnce == \A m \in msgs \cap Acks :
    <<m.from, m.currentEpoch>> \in counted[m.to] =>
        <<m.from, m.currentEpoch>> \in lost

CountsVoters == \A n \in Shard :
    /\ IsFiniteSet(counted[n])
    /\ auth[n].count = Cardinality(counted[n]) \/ counted[n] \cap lost # {}

WinnersElected == \A w \in won :
    \/ w[3] \/ Elected(w[1], w[2])
    \/ \E v \in Voters : <<v, w[2]>> \in lost

CountInv == CountedVotes /\ CountedOnce /\ CountsVoters /\ WinnersElected

Inv == TypeOK /\ VoteInv /\ CountInv

-----------------------------------------------------------------------------
(* Operators. *)

(* The newer of two epochs. *)
LEMMA NewestNat ==
  ASSUME NEW a \in Nat, NEW b \in Nat
  PROVE  Newest(a, b) \in Nat /\ Newest(a, b) >= a /\ Newest(a, b) >= b
         /\ Newest(a, b) \in {a, b}
BY DEF Newest

(* There are finitely many nodes. *)
LEMMA NodesFinite ==
  /\ IsFiniteSet(Nodes) /\ IsFiniteSet(Voters) /\ Cardinality(Voters) \in Nat
  /\ Cardinality(Nodes) \in Nat
<1>1. IsFiniteSet(Nodes) /\ Voters \subseteq Nodes
  BY NodesAssumption, Zenon DEF Nodes
<1>2. IsFiniteSet(Voters)
  BY <1>1, FS_Subset, Zenon
<1> QED BY <1>1, <1>2, FS_CardinalityType, Zenon

\* A finite set of epochs has a greatest one: take an element with the fewest
\* elements above it.
LEMMA GreatestExists ==
  ASSUME NEW S, IsFiniteSet(S), S # {}, S \subseteq Nat
  PROVE  \E e \in S : \A x \in S : e >= x
<1> DEFINE Above(x) == {y \in S : y > x}
           T == {Above(x) : x \in S}
           R == StrictSubsetOrdering(S)
<1>1. IsWellFoundedOn(R, FiniteSubsetsOf(S))
  BY FS_StrictSubsetOrderingWellFounded, Zenon
<1>2. T \subseteq FiniteSubsetsOf(S)
  <2> SUFFICES ASSUME NEW x \in S PROVE Above(x) \in FiniteSubsetsOf(S)
    BY Zenon
  <2>1. Above(x) \in SUBSET S
    BY Zenon
  <2>2. IsFiniteSet(Above(x))
    BY <2>1, FS_Subset, Zenon
  <2> QED BY <2>1, <2>2, Zenon DEF FiniteSubsetsOf
<1>3. T # {}
  BY Zenon
<1>4. PICK A \in T : \A B \in T : ~(<<B, A>> \in R)
  BY <1>1, <1>2, <1>3, WFMin, Zenon
<1>5. PICK e \in S : A = Above(e)
  BY Zenon
<1>6. SUFFICES ASSUME NEW x \in S, x > e PROVE FALSE
  <2>1. \A x \in S : ~(x > e) => e >= x
    OBVIOUS
  <2> QED BY <2>1, Zenon
<1>7. Above(x) \subseteq A /\ x \in A /\ x \notin Above(x)
  <2>1. x \in Nat /\ e \in Nat /\ x > e /\ ~(x > x)
    BY <1>6
  <2>2. \A y \in S : y \in Nat /\ (y > x => y > e)
    BY <2>1
  <2>3. A = {y \in S : y > e}
    BY <1>5, Zenon
  <2> QED BY <2>1, <2>2, <2>3, Zenon
<1>8. <<Above(x), A>> \in R
  BY <1>7, Zenon DEF StrictSubsetOrdering
<1> QED BY <1>4, <1>8, Zenon

(* clusterGetMaxEpoch() is an epoch not older than the current one. *)
LEMMA MaxEpoch ==
  ASSUME NEW c \in Nat, NEW v \in Views
  PROVE  clusterGetMaxEpoch(c, v) \in Nat /\ clusterGetMaxEpoch(c, v) >= c
<1> DEFINE E == {v.epoch[n] : n \in Nodes}
           S == {c} \cup E
<1>1. S \subseteq Nat
  BY Zenon DEF Views
<1>2. IsFiniteSet(E)
  <2>1. v.epoch \in Surjection(Nodes, E)
    BY Zenon DEF Views, Surjection
  <2> QED BY ONLY <2>1, NodesFinite, FS_Surjection, Zenon
<1>3. IsFiniteSet(S)
  BY <1>2, FS_AddElement
<1>4. PICK e \in S : \A x \in S : e >= x
  BY <1>1, <1>3, GreatestExists, Zenon
<1>5. e >= c /\ \A n \in Nodes : e >= v.epoch[n]
  BY <1>4, Zenon
<1>6. clusterGetMaxEpoch(c, v) \in S /\ clusterGetMaxEpoch(c, v) >= c
  BY <1>5, Zenon DEF clusterGetMaxEpoch
<1> QED BY <1>1, <1>6, Zenon

-----------------------------------------------------------------------------
(* Tables stay tables. *)

\* The fields of a header that the tables are updated from.
IsHeader(h) ==
    h.from \in Nodes /\ h.currentEpoch \in Nat /\ h.configEpoch \in Nat

(* Taking over the sender's epoch keeps the type of a view. *)
LEMMA SenderEpochType ==
  ASSUME NEW v \in Views, NEW h, IsHeader(h)
  PROVE  SenderEpoch(v, h) \in Views
<1>1. Newest(v.epoch[h.from], h.configEpoch) \in Nat
  BY NewestNat, Zenon DEF Views, IsHeader
<1> QED BY <1>1, Zenon DEF SenderEpoch, Views, IsHeader

(* Binding the slots to a node keeps the type of a view. *)
LEMMA BindType ==
  ASSUME NEW v \in Views, NEW n \in Nodes
  PROVE  Bind(v, n) \in Views
BY Zenon DEF Bind, Views

(* Taking over the sender's role keeps the type of a view. *)
LEMMA RoleSwitchType ==
  ASSUME NEW v \in Views, NEW h, IsHeader(h), h.slaveof \in Nodes
  PROVE  RoleSwitch(v, h) \in Views
<1> DEFINE w == IF v.owner = h.from THEN Bind(v, h.slaveof) ELSE v
           d == [w EXCEPT !.slaveof[h.slaveof] = h.slaveof,
                          !.epoch[h.slaveof] = h.configEpoch]
<1>1. w \in Views
  BY BindType, Zenon
<1>2. RoleSwitch(v, h) \in {[v EXCEPT !.slaveof[h.from] = h.from],
                            [v EXCEPT !.slaveof[h.from] = h.slaveof],
                            [d EXCEPT !.slaveof[h.from] = h.slaveof]}
  BY Zenon DEF RoleSwitch
<1> HIDE DEF w
<1>3. d \in Views
  BY <1>1, Zenon DEF Views, IsHeader
<1> HIDE DEF d
<1>4. ASSUME NEW x \in Views, NEW y \in Nodes
      PROVE  [x EXCEPT !.slaveof[h.from] = y] \in Views
  BY Zenon DEF Views, IsHeader
<1> QED BY <1>2, <1>3, <1>4, Zenon DEF IsHeader

(* clusterUpdateSlotsConfigWith() keeps the type of a view. *)
LEMMA SlotsType ==
  ASSUME NEW v \in Views, NEW me \in Nodes, NEW n \in Nodes, NEW e \in Nat,
         NEW c \in BOOLEAN
  PROVE  clusterUpdateSlotsConfigWith(v, me, n, e, c) \in Views
<1> DEFINE Rebinds == /\ c /\ v.owner # n
                      /\ v.unclaimed \/ v.epoch[v.owner] < e
           Bound == IF Rebinds THEN Bind(v, n)
                    ELSE [v EXCEPT !.unclaimed = IF v.owner = n THEN ~c ELSE @]
<1>1. [v EXCEPT !.unclaimed = IF v.owner = n THEN ~c ELSE @] \in Views
  BY DEF Views
<1>2. Bound \in Views
  BY <1>1, BindType, Zenon
<1>3. \A x \in Nodes : clusterSetMaster(Bound, me, x) \in Views
  BY <1>2, Zenon DEF Views, clusterSetMaster
<1>4. v.slaveof[v.slaveof[me]] \in Nodes
  BY Zenon DEF Views
<1> HIDE DEF Bound
<1> QED BY <1>2, <1>3, <1>4, Zenon DEF clusterUpdateSlotsConfigWith, Bound

(* Taking over the sender's slots keeps the type of a view. *)
LEMMA ClaimedSlotsType ==
  ASSUME NEW v \in Views, NEW h, IsHeader(h), h.slaveof \in Nodes,
         h.claims \in BOOLEAN, NEW me \in Nodes
  PROVE  ClaimedSlots(Switched(v, h), me, h) \in Views
<1> DEFINE a == SenderEpoch(v, h)
           b == clearNodeFailureIfNeeded(a, h.from)
<1>1. a \in Views
  BY SenderEpochType, Zenon
<1>2. b \in Views
  BY <1>1, Zenon DEF clearNodeFailureIfNeeded, Views
<1>3. Switched(v, h) \in Views
  BY <1>2, RoleSwitchType, Zenon DEF Switched
<1> QED BY <1>3, SlotsType, Zenon DEF ClaimedSlots, IsHeader

(* A header has the type of headers and carries the sender's current epoch. *)
LEMMA HeaderType ==
  ASSUME TypeOK, NEW i \in Nodes
  PROVE  /\ IsHeader(clusterBuildMessageHdr(i))
         /\ clusterBuildMessageHdr(i).slaveof \in Nodes
         /\ clusterBuildMessageHdr(i).currentEpoch = currentEpoch[i]
         /\ clusterBuildMessageHdr(i).claims \in BOOLEAN
BY DEF TypeOK, clusterBuildMessageHdr, IsHeader, Views

\* What a message teaches a node.
Learned(n, s) ==
    s.currentEpoch \in Nat /\ s.currentEpoch >= currentEpoch[n] /\ s.view \in Views

(* What a node learns from a PING. *)
LEMMA PingLearned ==
  ASSUME TypeOK, NEW i \in Nodes, NEW j \in Nodes
  PROVE  Learned(j, ProcessPing(i, j))
<1> DEFINE h == clusterBuildMessageHdr(i)
           known == Newest(currentEpoch[j], h.currentEpoch)
           v == ClaimedSlots(Switched(view[j], h), j, h)
           collides == clusterHandleConfigEpochCollision(v, j, h)
<1>1. view[j] \in Views /\ currentEpoch[j] \in Nat
  BY Zenon DEF TypeOK
<1>2. v \in Views
  BY <1>1, HeaderType, ClaimedSlotsType, Zenon
<1>3. known \in Nat /\ known >= currentEpoch[j]
  BY <1>1, HeaderType, NewestNat, Zenon DEF IsHeader
<1> HIDE DEF v, known, h
<1>4. [v EXCEPT !.epoch[j] = known + 1] \in Views
  BY <1>2, <1>3 DEF Views
<1>5. ProcessPing(i, j) =
        [currentEpoch |-> IF collides THEN known + 1 ELSE known,
         view |-> IF collides THEN [v EXCEPT !.epoch[j] = known + 1] ELSE v,
         saves |-> collides]
  BY Zenon DEF ProcessPing, v, known, h
<1> HIDE DEF collides
<1> QED BY <1>1, <1>2, <1>3, <1>4, <1>5 DEF Learned

(* What a node learns from an UPDATE. *)
LEMMA UpdateLearned ==
  ASSUME TypeOK, NEW i \in Nodes, NEW j \in Nodes
  PROVE  Learned(i, ProcessUpdate(i, j))
<1> DEFINE n == view[j].owner
           epoch == view[j].epoch[n]
           v == SenderEpoch(view[i], clusterBuildMessageHdr(j))
           known == Newest(currentEpoch[i], currentEpoch[j])
           w == [v EXCEPT !.slaveof[n] = n, !.epoch[n] = epoch]
<1>1. /\ view[j] \in Views /\ view[i] \in Views
      /\ currentEpoch[i] \in Nat /\ currentEpoch[j] \in Nat
  BY Zenon DEF TypeOK
<1>2. n \in Nodes /\ epoch \in Nat
  BY <1>1, Zenon DEF Views
<1>3. v \in Views
  BY <1>1, HeaderType, SenderEpochType, Zenon
<1>4. known \in Nat /\ known >= currentEpoch[i]
  BY <1>1, NewestNat, Zenon
<1> HIDE DEF v, known, n, epoch
<1>5. w \in Views
  BY <1>2, <1>3, Zenon DEF Views
<1>6. clusterUpdateSlotsConfigWith(w, i, n, epoch, TRUE) \in Views
  BY <1>2, <1>5, SlotsType, Zenon
<1>7. ProcessUpdate(i, j) =
        IF ~OutdatedClaim(view[j], j, clusterBuildMessageHdr(i)) THEN State(i)
        ELSE [currentEpoch |-> known, saves |-> FALSE,
              view |-> IF v.epoch[n] >= epoch THEN v
                       ELSE clusterUpdateSlotsConfigWith(w, i, n, epoch, TRUE)]
  BY Zenon DEF ProcessUpdate, v, known, n, epoch
<1> HIDE DEF w
<1>8. Learned(i, State(i))
  BY <1>1 DEF Learned, State
<1>9. ASSUME NEW x \in Views
      PROVE  Learned(i, [currentEpoch |-> known, saves |-> FALSE, view |-> x])
  BY <1>4, Zenon DEF Learned
<1> QED BY <1>3, <1>6, <1>7, <1>8, <1>9, Zenon

-----------------------------------------------------------------------------
(* Types. *)

\* The conjuncts of TypeOK on epochs and nodes.conf, and on everything else.
EpochsOK ==
    /\ currentEpoch \in [Nodes -> Nat] /\ lastVote \in [Nodes -> Nat]
    /\ saved \in [Nodes -> [currentEpoch : Nat, lastVote : Nat, view : Views]]
    /\ \A n \in Nodes :
        /\ saved[n].currentEpoch <= currentEpoch[n]
        /\ saved[n].lastVote <= lastVote[n]
        /\ saved[n].lastVote <= saved[n].currentEpoch
        /\ lastVote[n] <= currentEpoch[n]

FlagsOK == todo \subseteq Nodes /\ unsaved \subseteq Voters \X Nat

RestOK ==
    /\ auth \in [Nodes -> [phase : {"none", "scheduled", "sent", "expired"},
                           epoch : Nat, count : Nat]]
    /\ view \in [Nodes -> Views]
    /\ msgs \subseteq Requests \cup Acks
    /\ away \subseteq Shard
    /\ votes \subseteq Voters \X Nat \X Shard
    /\ lost \subseteq Voters \X Nat
    /\ won \subseteq Shard \X Nat \X BOOLEAN
    /\ counted \in [Nodes -> SUBSET (Voters \X Nat)]

(* The type invariant has three parts. *)
LEMMA TypeSplit == TypeOK <=> EpochsOK /\ FlagsOK /\ RestOK
BY Zenon DEF TypeOK, EpochsOK, FlagsOK, RestOK

(* The three parts after a step. *)
LEMMA TypeJoin ==
  ASSUME EpochsOK', FlagsOK', RestOK'
  PROVE  TypeOK'
BY Zenon DEF TypeOK, EpochsOK, FlagsOK, RestOK

\* What every step but a vote and a restart does to votes and nodes.conf.
Bookkeeping ==
    /\ UNCHANGED <<lastVote, lost, votes>>
    /\ msgs' \cap Acks \subseteq msgs
    /\ \/ UNCHANGED conf
       \/ \E ns \in SUBSET Nodes : clusterDoBeforeSleep(ns, {})
       \/ \E n \in Nodes : clusterSaveConfig(n)

(* A node saves what it has in memory. *)
LEMMA Saving ==
  ASSUME EpochsOK, NEW n \in Nodes, clusterSaveConfig(n)
  PROVE  /\ saved'[n].currentEpoch = currentEpoch'[n]
         /\ saved'[n].lastVote = lastVote'[n]
         /\ \A x \in Nodes : x # n => saved'[x] = saved[x]
BY Zenon DEF EpochsOK, clusterSaveConfig

(* What is saved has the type of nodes.conf. *)
LEMMA SavingType ==
  ASSUME EpochsOK, NEW n \in Nodes, clusterSaveConfig(n),
         currentEpoch'[n] \in Nat, lastVote'[n] \in Nat, view'[n] \in Views
  PROVE  saved' \in [Nodes -> [currentEpoch : Nat, lastVote : Nat, view : Views]]
<1>1. [view'[n] EXCEPT !.unclaimed = FALSE] \in Views
  BY Zenon DEF Views
<1> QED BY <1>1, Zenon DEF EpochsOK, clusterSaveConfig

(* Current epochs grow, and nodes.conf is saved, or to be saved, or not. *)
LEMMA EpochsKept ==
  ASSUME EpochsOK, FlagsOK, Bookkeeping, view' \in [Nodes -> Views],
         currentEpoch' \in [Nodes -> Nat],
         \A n \in Nodes : currentEpoch'[n] >= currentEpoch[n]
  PROVE  EpochsOK' /\ FlagsOK'
<1>1. lastVote' = lastVote
  BY Zenon DEF Bookkeeping
<1>0. \A n \in Nodes :
        /\ saved[n].currentEpoch \in Nat /\ saved[n].lastVote \in Nat
        /\ currentEpoch[n] \in Nat /\ lastVote[n] \in Nat
        /\ currentEpoch'[n] \in Nat
  BY Zenon DEF EpochsOK
<1>2. ASSUME saved' = saved PROVE EpochsOK'
  <2>1. ASSUME NEW x \in Nodes
        PROVE  /\ saved'[x].currentEpoch <= currentEpoch'[x]
               /\ lastVote'[x] <= currentEpoch'[x]
    <3>1. /\ saved[x].currentEpoch <= currentEpoch[x]
          /\ lastVote[x] <= currentEpoch[x]
      BY Zenon DEF EpochsOK
    <3> QED BY <1>0, <1>1, <1>2, <3>1
  <2> QED BY <1>1, <1>2, <2>1, Zenon DEF EpochsOK
<1>3. ASSUME NEW n \in Nodes, clusterSaveConfig(n) PROVE EpochsOK'
  <2>1. saved' \in [Nodes -> [currentEpoch : Nat, lastVote : Nat, view : Views]]
    BY <1>1, <1>3, SavingType, Zenon DEF EpochsOK
  <2>2. /\ saved'[n].currentEpoch = currentEpoch'[n]
        /\ saved'[n].lastVote = lastVote'[n]
        /\ \A x \in Nodes : x # n => saved'[x] = saved[x]
    BY <1>3, Saving, Zenon
  <2>3. ASSUME NEW x \in Nodes
        PROVE  /\ saved'[x].currentEpoch <= currentEpoch'[x]
               /\ saved'[x].lastVote <= lastVote'[x]
               /\ saved'[x].lastVote <= saved'[x].currentEpoch
               /\ lastVote'[x] <= currentEpoch'[x]
    BY <1>1, <2>2 DEF EpochsOK
  <2> QED BY <1>1, <2>1, <2>3, Zenon DEF EpochsOK
<1>4. saved' = saved \/ \E n \in Nodes : clusterSaveConfig(n)
  BY Zenon DEF Bookkeeping, conf, clusterDoBeforeSleep
<1>5. FlagsOK'
  BY Zenon DEF FlagsOK, Bookkeeping, conf, clusterDoBeforeSleep, clusterSaveConfig
<1> QED BY <1>2, <1>3, <1>4, <1>5, Zenon

(* A step that changes no current epoch and no table. *)
LEMMA EpochsSame ==
  ASSUME TypeOK, Bookkeeping, UNCHANGED <<currentEpoch, view>>
  PROVE  EpochsOK' /\ FlagsOK'
<1>1. \A n \in Nodes : currentEpoch'[n] >= currentEpoch[n]
  BY DEF TypeOK
<1>2. view' \in [Nodes -> Views] /\ currentEpoch' \in [Nodes -> Nat]
  BY Zenon DEF TypeOK
<1> QED BY <1>1, <1>2, TypeSplit, EpochsKept, Zenon

(* The current epoch of one node grows. *)
LEMMA EpochGrows ==
  ASSUME EpochsOK, NEW n \in Nodes, NEW c \in Nat, c >= currentEpoch[n],
         currentEpoch' = [currentEpoch EXCEPT ![n] = c]
  PROVE  /\ currentEpoch' \in [Nodes -> Nat]
         /\ \A x \in Nodes : currentEpoch'[x] >= currentEpoch[x]
BY DEF EpochsOK

(* Saving a table that changed is bookkeeping. *)
LEMMA SaveIfChangedKeeps ==
  ASSUME NEW n \in Nodes, UNCHANGED <<lastVote, lost, votes>>,
         msgs' \subseteq msgs, SaveIfChanged(n)
  PROVE  Bookkeeping
BY Zenon DEF Bookkeeping, SaveIfChanged

(* Learning from a packet keeps the types. *)
LEMMA LearnType ==
  ASSUME TypeOK, NEW n \in Nodes, NEW s, Learned(n, s), Learn(n, s)
  PROVE  TypeOK' /\ Bookkeeping
<1>1. Bookkeeping
  BY SaveIfChangedKeeps, Zenon DEF Learn, Bookkeeping
<1>2. view' \in [Nodes -> Views]
  BY Zenon DEF Learn, Learned, TypeOK
<1>3. /\ currentEpoch' \in [Nodes -> Nat]
      /\ \A x \in Nodes : currentEpoch'[x] >= currentEpoch[x]
  BY TypeSplit, EpochGrows, Zenon DEF Learn, Learned
<1>4. RestOK'
  BY <1>2, TypeSplit, Zenon DEF Learn, RestOK
<1> QED BY <1>1, <1>2, <1>3, <1>4, TypeSplit, EpochsKept, TypeJoin, Zenon

(* An order of the administrator keeps the types. *)
LEMMA OrderType ==
  ASSUME TypeOK, NEW n \in Nodes, NEW s, Learned(n, s), Order(n, s),
         clusterDoBeforeSleep({n}, {}) \/ clusterSaveConfig(n)
  PROVE  TypeOK' /\ Bookkeeping
<1>1. Bookkeeping
  BY Zenon DEF Order, Bookkeeping
<1>2. view' \in [Nodes -> Views]
  BY Zenon DEF Order, Learned, TypeOK
<1>3. /\ currentEpoch' \in [Nodes -> Nat]
      /\ \A x \in Nodes : currentEpoch'[x] >= currentEpoch[x]
  BY TypeSplit, EpochGrows, Zenon DEF Order, Learned
<1>4. RestOK'
  BY <1>2, TypeSplit, Zenon DEF Order, RestOK
<1> QED BY <1>1, <1>2, <1>3, <1>4, TypeSplit, EpochsKept, TypeJoin, Zenon

(* What a node with a bumped epoch knows. *)
LEMMA BumpLearned ==
  ASSUME TypeOK, NEW n \in Nodes
  PROVE  Learned(n, clusterBumpConfigEpochWithoutConsensus(n))
<1>1. view[n] \in Views /\ currentEpoch[n] \in Nat
  BY Zenon DEF TypeOK
<1>2. [view[n] EXCEPT !.epoch[n] = currentEpoch[n] + 1] \in Views
  BY <1>1 DEF Views
<1> QED BY <1>1, <1>2
    DEF Learned, clusterBumpConfigEpochWithoutConsensus, State

(* Flagging nodes as failed or reachable keeps the types. *)
LEMMA FlagType ==
  ASSUME TypeOK, NEW ns \in SUBSET Nodes, NEW gain \in SUBSET Shard,
         NEW lose \in SUBSET Shard, FlagAt(ns, gain, lose)
  PROVE  TypeOK' /\ Bookkeeping
<1>1. Bookkeeping
  BY Zenon DEF FlagAt, Bookkeeping
<1>2. ASSUME NEW n \in Nodes
      PROVE  [view[n] EXCEPT !.fail = (@ \cup gain) \ lose] \in Views
  <2>1. view[n] \in Views
    BY Zenon DEF TypeOK
  <2>2. (view[n].fail \cup gain) \ lose \in SUBSET Shard
    BY <2>1, Zenon DEF Views
  <2> QED BY <2>1, <2>2, Zenon DEF Views
<1>3. view' \in [Nodes -> Views]
  BY <1>2, Zenon DEF FlagAt, TypeOK
<1>4. RestOK'
  BY <1>3, Zenon DEF FlagAt, TypeOK, RestOK
<1>5. /\ currentEpoch' \in [Nodes -> Nat]
      /\ \A n \in Nodes : currentEpoch'[n] >= currentEpoch[n]
  BY DEF FlagAt, TypeOK
<1> QED BY <1>1, <1>3, <1>4, <1>5, TypeSplit, EpochsKept, TypeJoin, Zenon

\* A message changes the epochs and tables of its receiver only.
LEMMA HeaderRead ==
  ASSUME TypeOK, NEW m \in msgs, ReadHeader(m)
  PROVE  /\ m.to \in Nodes /\ m.from \in Nodes /\ m.currentEpoch \in Nat
         /\ currentEpoch' = [currentEpoch EXCEPT
                ![m.to] = Newest(currentEpoch[m.to], m.currentEpoch)]
         /\ Newest(currentEpoch[m.to], m.currentEpoch) \in Nat
         /\ Newest(currentEpoch[m.to], m.currentEpoch) >= currentEpoch[m.to]
         /\ view' \in [Nodes -> Views]
<1>1. /\ m.to \in Nodes /\ m.from \in Nodes /\ m.currentEpoch \in Nat
      /\ m.configEpoch \in Nat
  BY Zenon DEF TypeOK, Requests, Acks, Nodes
<1>2. currentEpoch[m.to] \in Nat /\ view[m.to] \in Views
  BY <1>1, Zenon DEF TypeOK
<1>3. SenderEpoch(view[m.to], m) \in Views
  BY <1>1, <1>2, SenderEpochType, Zenon DEF IsHeader
<1>4. view' \in [Nodes -> Views]
  BY <1>1, <1>3, Zenon DEF ReadHeader, TypeOK
<1> QED BY <1>1, <1>2, <1>4, NewestNat, Zenon DEF ReadHeader

\* A message changes the current epoch and the table of its receiver only.
LEMMA HeaderGrows ==
  ASSUME TypeOK, NEW m \in msgs, ReadHeader(m)
  PROVE  /\ view' \in [Nodes -> Views] /\ currentEpoch' \in [Nodes -> Nat]
         /\ \A n \in Nodes : currentEpoch'[n] >= currentEpoch[n]
BY TypeSplit, HeaderRead, EpochGrows, Zenon

\* What a vote is.
Voting(m) == clusterSendFailoverAuthIfNeeded(m) /\ MayVote(m)

(* What a vote changes. *)
LEMMA VoteChanges ==
  ASSUME TypeOK, NEW m \in msgs, Voting(m)
  PROVE  /\ m \in Requests /\ ReadHeader(m)
         /\ UNCHANGED <<auth, away, lost, counted, won, saved>>
         /\ lastVote' = [lastVote EXCEPT ![m.to] = m.currentEpoch]
         /\ msgs' = (msgs \ {m}) \cup {clusterSendFailoverAuth(m)}
         /\ votes' = votes \cup {<<m.to, m.currentEpoch, m.from>>}
         /\ unsaved' = unsaved \cup {<<m.to, m.currentEpoch>>}
         /\ m.to \in Voters /\ m.to \in Nodes /\ m.from \in Shard
         /\ m.currentEpoch \in Nat
         /\ clusterSendFailoverAuth(m) \in Acks
         /\ clusterSendFailoverAuth(m).from = m.to
         /\ clusterSendFailoverAuth(m).to = m.from
         /\ clusterSendFailoverAuth(m).currentEpoch = m.currentEpoch
<1>1. /\ m \in Requests /\ ReadHeader(m)
      /\ UNCHANGED <<auth, away, lost, counted, won, saved>>
      /\ lastVote' = [lastVote EXCEPT ![m.to] = m.currentEpoch]
      /\ msgs' = (msgs \ {m}) \cup {clusterSendFailoverAuth(m)}
      /\ votes' = votes \cup {<<m.to, m.currentEpoch, m.from>>}
      /\ unsaved' = unsaved \cup {<<m.to, m.currentEpoch>>}
  BY Zenon DEF Voting, clusterSendFailoverAuthIfNeeded, TypeOK, Acks,
     clusterDoBeforeSleep
<1>2. /\ m.to \in Voters /\ m.to \in Nodes /\ m.from \in Shard
      /\ m.currentEpoch \in Nat
  BY <1>1, Zenon DEF Requests, Nodes
<1>3. clusterSendFailoverAuth(m) \in Acks
  <2>1. view[m.to] \in Views
    BY <1>2, Zenon DEF TypeOK
  <2>2. view[m.to].epoch[m.to] \in Nat
    BY <1>2, <2>1, Zenon DEF Views
  <2> QED BY <1>2, <2>2 DEF clusterSendFailoverAuth, Acks
<1> QED BY <1>1, <1>2, <1>3, Zenon DEF clusterSendFailoverAuth

\* The voter had not voted in this epoch or a newer one, as far as it knows.
LEMMA VoteIsNew ==
  ASSUME TypeOK, NEW m \in msgs, Voting(m)
  PROVE  /\ lastVote[m.to] < m.currentEpoch
         /\ currentEpoch[m.to] <= m.currentEpoch
         /\ currentEpoch' = [currentEpoch EXCEPT ![m.to] = m.currentEpoch]
<1>1. /\ m.to \in Nodes /\ m.currentEpoch \in Nat /\ ReadHeader(m)
  BY VoteChanges, Zenon
<1>2. /\ currentEpoch[m.to] \in Nat /\ lastVote[m.to] \in Nat
      /\ lastVote[m.to] <= currentEpoch[m.to]
  BY <1>1, Zenon DEF TypeOK
<1>3. /\ m.currentEpoch >= currentEpoch[m.to]
      /\ lastVote[m.to] # Newest(currentEpoch[m.to], m.currentEpoch)
  BY Zenon DEF Voting, MayVote
<1>4. Newest(currentEpoch[m.to], m.currentEpoch) = m.currentEpoch
  BY <1>1, <1>2, <1>3 DEF Newest
<1>5. lastVote[m.to] < m.currentEpoch /\ currentEpoch[m.to] <= m.currentEpoch
  BY <1>1, <1>2, <1>3, <1>4
<1> QED BY <1>1, <1>4, <1>5, HeaderRead, Zenon

(* A vote keeps the types. *)
LEMMA VoteType ==
  ASSUME TypeOK, NEW m \in msgs, Voting(m)
  PROVE  TypeOK'
<1>1. RestOK'
  <2>1. view' \in [Nodes -> Views]
    BY HeaderGrows, VoteChanges, Zenon
  <2>2. votes' \subseteq Voters \X Nat \X Shard
    <3>1. votes' = votes \cup {<<m.to, m.currentEpoch, m.from>>}
          /\ <<m.to, m.currentEpoch, m.from>> \in Voters \X Nat \X Shard
      BY VoteChanges
    <3> QED BY <3>1, Zenon DEF TypeOK
  <2>3. msgs' \subseteq Requests \cup Acks
    BY VoteChanges, Zenon DEF TypeOK
  <2>4. UNCHANGED <<auth, away, lost, counted, won>>
    BY VoteChanges, Zenon
  <2> QED BY <2>1, <2>2, <2>3, <2>4, TypeSplit, Zenon DEF RestOK
<1>2. /\ currentEpoch' \in [Nodes -> Nat]
      /\ \A n \in Nodes : currentEpoch'[n] >= currentEpoch[n]
  BY HeaderGrows, VoteChanges, Zenon
<1>3. /\ lastVote' \in [Nodes -> Nat] /\ saved' = saved
      /\ lastVote'[m.to] = m.currentEpoch /\ currentEpoch'[m.to] = m.currentEpoch
      /\ \A n \in Nodes : n # m.to => lastVote'[n] = lastVote[n]
  BY VoteChanges, VoteIsNew, Zenon DEF TypeOK
<1>4. ASSUME NEW n \in Nodes
      PROVE  /\ saved'[n].currentEpoch <= currentEpoch'[n]
             /\ saved'[n].lastVote <= lastVote'[n]
             /\ saved'[n].lastVote <= saved'[n].currentEpoch
             /\ lastVote'[n] <= currentEpoch'[n]
  <2>1. saved'[n].currentEpoch <= currentEpoch'[n]
        /\ saved'[n].lastVote <= saved'[n].currentEpoch
    BY <1>2, <1>3 DEF TypeOK
  <2>2. CASE n = m.to
    BY <1>3, <2>1, <2>2, VoteIsNew DEF TypeOK
  <2>3. CASE n # m.to
    BY <1>2, <1>3, <2>1, <2>3 DEF TypeOK
  <2> QED BY <2>2, <2>3, Zenon
<1>5. EpochsOK'
  BY <1>2, <1>3, <1>4, TypeSplit, Zenon DEF EpochsOK
<1>6. FlagsOK'
  <2>1. todo' \subseteq Nodes
    BY VoteChanges, Zenon DEF Voting, clusterSendFailoverAuthIfNeeded,
       clusterDoBeforeSleep, TypeOK
  <2>2. unsaved' = unsaved \cup {<<m.to, m.currentEpoch>>}
        /\ <<m.to, m.currentEpoch>> \in Voters \X Nat
    BY VoteChanges
  <2> QED BY <2>1, <2>2, TypeSplit, Zenon DEF FlagsOK
<1> QED BY <1>1, <1>5, <1>6, TypeJoin, Zenon

(* A request that is refused keeps the types. *)
LEMMA RefuseType ==
  ASSUME TypeOK, NEW m \in msgs, clusterSendFailoverAuthIfNeeded(m), ~MayVote(m)
  PROVE  TypeOK' /\ Bookkeeping
<1>1. /\ ReadHeader(m) /\ msgs' = msgs \ {m}
      /\ UNCHANGED <<auth, away, counted, won, lastVote, votes, lost>>
      /\ SaveIfChanged(m.to) /\ m.to \in Nodes
  BY Zenon DEF clusterSendFailoverAuthIfNeeded, TypeOK, Requests, Acks, Nodes
<1>2. Bookkeeping
  BY <1>1, SaveIfChangedKeeps, Zenon
<1>3. RestOK'
  BY <1>1, HeaderGrows, TypeSplit, Zenon DEF RestOK
<1> QED BY <1>1, <1>2, <1>3, HeaderGrows, TypeSplit, EpochsKept, TypeJoin, Zenon

(* Counting a vote keeps the types. *)
LEMMA AckType ==
  ASSUME TypeOK, NEW m \in msgs, ProcessAck(m)
  PROVE  TypeOK' /\ Bookkeeping
<1>1. /\ ReadHeader(m) /\ m \in Acks /\ msgs' = msgs \ {m}
      /\ UNCHANGED <<lastVote, away, votes, won, lost>>
      /\ SaveIfChanged(m.to)
  BY Zenon DEF ProcessAck, TypeOK, Requests
<1>2. m.to \in Nodes /\ <<m.from, m.currentEpoch>> \in Voters \X Nat
  BY <1>1, Zenon DEF Acks, Nodes
<1>3. Bookkeeping
  BY <1>1, <1>2, SaveIfChangedKeeps, Zenon
<1>4. auth' \in [Nodes -> [phase : {"none", "scheduled", "sent", "expired"},
                           epoch : Nat, count : Nat]]
  <2>1. auth[m.to].count \in Nat
    BY <1>2, Zenon DEF TypeOK
  <2>2. auth[m.to].count + 1 \in Nat
    BY <2>1
  <2>3. auth' = [auth EXCEPT ![m.to] = IF m.currentEpoch >= auth[m.to].epoch
                    THEN [auth[m.to] EXCEPT !.count = auth[m.to].count + 1]
                    ELSE auth[m.to]]
    BY Zenon DEF ProcessAck, Elect
  <2> QED BY <1>2, <2>2, <2>3, Zenon DEF TypeOK
<1>5. counted' \in [Nodes -> SUBSET (Voters \X Nat)]
  <2>1. counted[m.to] \cup {<<m.from, m.currentEpoch>>} \in SUBSET (Voters \X Nat)
    BY <1>2, Zenon DEF TypeOK
  <2> QED BY <1>2, <2>1, Zenon DEF ProcessAck, TypeOK
<1>6. RestOK'
  BY <1>1, <1>4, <1>5, HeaderGrows, TypeSplit, Zenon DEF RestOK
<1> QED BY <1>1, <1>3, <1>6, HeaderGrows, TypeSplit, EpochsKept, TypeJoin, Zenon

\* The new master's tables.
LEMMA ReplaceType ==
  ASSUME NEW v \in Views, NEW n \in Nodes
  PROVE  clusterFailoverReplaceYourMaster(v, n) \in Views
<1> DEFINE took == IF v.owner = v.slaveof[n] THEN Bind(v, n) ELSE v
<1>1. took \in Views
  BY BindType, Zenon
<1>2. clusterFailoverReplaceYourMaster(v, n) = [took EXCEPT !.slaveof[n] = n]
  BY Zenon DEF clusterFailoverReplaceYourMaster
<1> HIDE DEF took
<1>3. [took EXCEPT !.slaveof[n] = n] \in Views
  BY <1>1, Zenon DEF Views
<1> QED BY <1>2, <1>3, Zenon

(* The first state is well typed. *)
LEMMA TypeInit == Init => TypeOK
<1> SUFFICES ASSUME Init PROVE TypeOK
  BY Zenon
<1>1. FirstEpoch \in Nat
  BY NodesFinite, Zenon DEF FirstEpoch
<1>2. \A m : Cardinality({x \in Nodes : x <= m}) \in Nat
  BY NodesFinite, FS_Subset, FS_CardinalityType, Zenon
<1>3. FirstMaster \in Nodes /\ FirstMaster \in Shard /\ Shard \subseteq Nodes
  BY NodesAssumption, Zenon DEF Nodes
<1>4. FirstView \in Views
  BY <1>2, <1>3, Zenon DEF FirstView, Views
<1>5. [FirstView EXCEPT !.fail = {}] \in Views
  BY <1>4, Zenon DEF Views
<1>6. view \in [Nodes -> Views]
  BY <1>4, <1>5, Zenon DEF Init
<1>7. saved = [n \in Nodes |-> [currentEpoch |-> FirstEpoch, lastVote |-> 0,
                                view |-> view[n]]]
  BY Zenon DEF Init
<1>8. saved \in [Nodes -> [currentEpoch : Nat, lastVote : Nat, view : Views]]
  BY <1>1, <1>6, <1>7
<1>9. EpochsOK
  <2>1. /\ currentEpoch = [n \in Nodes |-> FirstEpoch]
        /\ lastVote = [n \in Nodes |-> 0]
    BY Zenon DEF Init
  <2>2. ASSUME NEW n \in Nodes
        PROVE  /\ saved[n].currentEpoch = FirstEpoch /\ saved[n].lastVote = 0
               /\ currentEpoch[n] = FirstEpoch /\ lastVote[n] = 0
    BY <1>7, <2>1, Zenon
  <2>3. 0 <= FirstEpoch /\ FirstEpoch <= FirstEpoch /\ 0 <= 0
    BY <1>1
  <2>4. currentEpoch \in [Nodes -> Nat] /\ lastVote \in [Nodes -> Nat]
    BY <1>1, <2>1
  <2> QED BY <1>8, <2>2, <2>3, <2>4, Zenon DEF EpochsOK
<1>10. RestOK /\ FlagsOK
  BY <1>3, <1>6, Zenon DEF Init, RestOK, FlagsOK, NoElection
<1> QED BY <1>9, <1>10, TypeSplit, Zenon

\* Every step keeps the types; all but votes and restarts are bookkeeping.
Kind ==
    \/ Bookkeeping
    \/ \E m \in msgs : Voting(m)
    \/ \E n \in Nodes : Restart(n)

(* The four steps that change neither an epoch nor a table. *)
LEMMA PlainType ==
  ASSUME TypeOK, UNCHANGED <<currentEpoch, view>>, Bookkeeping, RestOK'
  PROVE  TypeOK' /\ Kind
BY EpochsSame, TypeJoin, Zenon DEF Kind

(* A restart brings back what was saved. *)
LEMMA RestartType ==
  ASSUME TypeOK, NEW n \in Nodes, Restart(n)
  PROVE  TypeOK'
<1> DEFINE c == clusterGetMaxEpoch(saved[n].currentEpoch, saved[n].view)
<1>1. saved[n].view \in Views /\ saved[n].currentEpoch \in Nat
  BY Zenon DEF TypeOK
<1>2. c \in Nat /\ c >= saved[n].currentEpoch
  BY <1>1, MaxEpoch, Zenon
<1>3. /\ currentEpoch' = [currentEpoch EXCEPT ![n] = c]
      /\ lastVote' = [lastVote EXCEPT ![n] = saved[n].lastVote]
      /\ saved' = saved
  BY Zenon DEF Restart
<1> HIDE DEF c
<1>4. EpochsOK'
  BY <1>2, <1>3, TypeSplit DEF EpochsOK
<1>5. view' \in [Nodes -> Views]
  BY <1>1, Zenon DEF Restart, TypeOK
<1>6. auth' \in [Nodes -> [phase : {"none", "scheduled", "sent", "expired"},
                           epoch : Nat, count : Nat]]
  BY Zenon DEF Restart, Elect, NoElection, TypeOK
<1>7. counted' \in [Nodes -> SUBSET (Voters \X Nat)]
  BY Zenon DEF Restart, TypeOK
<1>8. RestOK'
  BY <1>5, <1>6, <1>7, TypeSplit, Zenon DEF Restart, RestOK, FlagsOK
<1>9. FlagsOK'
  BY TypeSplit, Zenon DEF Restart, FlagsOK
<1> QED BY <1>4, <1>8, <1>9, TypeJoin, Zenon

(* Every step keeps the types. *)
LEMMA TypeStep ==
  ASSUME TypeOK, [Next]_vars
  PROVE  TypeOK' /\ Kind
<1>0. CASE UNCHANGED vars
  <2>1. Bookkeeping /\ UNCHANGED <<currentEpoch, view>>
    BY <1>0, Zenon DEF vars, Bookkeeping, conf
  <2>2. RestOK'
    BY <1>0, TypeSplit, Zenon DEF vars, RestOK
  <2> QED BY <2>1, <2>2, PlainType, Zenon
<1>1. ASSUME NEW i \in Nodes, NEW j \in Nodes, Gossip(i, j)
      PROVE  TypeOK' /\ Kind
  BY <1>1, LearnType, PingLearned, UpdateLearned, Zenon DEF Gossip, Kind
<1>2. ASSUME NEW m \in msgs, Deliver(m)
      PROVE  TypeOK' /\ Kind
  BY <1>2, VoteType, RefuseType, AckType, Zenon DEF Deliver, Voting, Kind
<1>3. ASSUME NEW n \in Shard, ScheduleElection(n)
      PROVE  TypeOK' /\ Kind
  <2>1. Bookkeeping /\ UNCHANGED <<currentEpoch, view>>
    BY <1>3, Zenon DEF ScheduleElection, Bookkeeping, conf
  <2>2. RestOK'
    BY <1>3, TypeSplit, Zenon DEF ScheduleElection, Elect, RestOK, Nodes
  <2> QED BY <2>1, <2>2, PlainType, Zenon
<1>4. ASSUME NEW n \in Shard, StartElection(n)
      PROVE  TypeOK' /\ Kind
  <2> DEFINE e == currentEpoch[n] + 1
  <2>1. n \in Nodes /\ e \in Nat /\ e >= currentEpoch[n]
    BY DEF TypeOK, Nodes
  <2>2. /\ currentEpoch' = [currentEpoch EXCEPT ![n] = e]
        /\ auth' = [auth EXCEPT ![n] = [auth[n] EXCEPT !.phase = "sent", !.epoch = e]]
        /\ msgs' = msgs \cup clusterRequestFailoverAuth(n, e)
        /\ UNCHANGED <<lastVote, view, away, votes, lost, counted, won>>
        /\ clusterDoBeforeSleep({n}, {})
    BY <1>4, Zenon DEF StartElection, Elect
  <2> HIDE DEF e
  <2>3. clusterRequestFailoverAuth(n, e) \subseteq Requests
    BY <2>1, HeaderType DEF clusterRequestFailoverAuth, Requests, IsHeader
  <2>4. msgs' \cap Acks \subseteq msgs
    BY <2>2, <2>3, Zenon DEF Requests, Acks
  <2>5. Bookkeeping
    BY <2>1, <2>2, <2>4, Zenon DEF Bookkeeping
  <2>6. auth' \in [Nodes -> [phase : {"none", "scheduled", "sent", "expired"},
                             epoch : Nat, count : Nat]]
    BY <2>1, <2>2, Zenon DEF TypeOK
  <2>7. RestOK'
    BY <2>2, <2>3, <2>6, TypeSplit, Zenon DEF RestOK
  <2>8. /\ currentEpoch' \in [Nodes -> Nat]
        /\ \A x \in Nodes : currentEpoch'[x] >= currentEpoch[x]
    BY <2>1, <2>2, TypeSplit, EpochGrows, Zenon
  <2>9. view' \in [Nodes -> Views]
    BY <2>7, Zenon DEF RestOK
  <2> QED BY <2>5, <2>7, <2>8, <2>9, TypeSplit, EpochsKept, TypeJoin, Zenon DEF Kind
<1>5. ASSUME NEW n \in Shard, ElectionExpires(n)
      PROVE  TypeOK' /\ Kind
  <2>1. Bookkeeping /\ UNCHANGED <<currentEpoch, view>>
    BY <1>5, Zenon DEF ElectionExpires, Bookkeeping, conf
  <2>2. RestOK'
    BY <1>5, TypeSplit, Zenon DEF ElectionExpires, Elect, RestOK, Nodes
  <2> QED BY <2>1, <2>2, PlainType, Zenon
<1>6. ASSUME NEW n \in Shard, WinElection(n)
      PROVE  TypeOK' /\ Kind
  <2>1. n \in Nodes
    BY Zenon DEF Nodes
  <2>2. view[n] \in Views /\ auth[n].epoch \in Nat
    BY <2>1, Zenon DEF TypeOK
  <2>3. Newest(view[n].epoch[n], auth[n].epoch) \in Nat
    BY <2>1, <2>2, NewestNat, Zenon DEF Views
  <2>4. [view[n] EXCEPT !.epoch[n] = Newest(@, auth[n].epoch)] \in Views
    BY <2>1, <2>2, <2>3, Zenon DEF Views
  <2>5. view' \in [Nodes -> Views]
    BY <1>6, <2>1, <2>4, ReplaceType, Zenon DEF WinElection, TypeOK
  <2>6. Bookkeeping
    BY <1>6, <2>1, Zenon DEF WinElection, Bookkeeping
  <2>7. <<n, auth[n].epoch, \E p \in counted[n] : p[2] # auth[n].epoch>>
            \in Shard \X Nat \X BOOLEAN
    BY <2>2
  <2>8. RestOK'
    BY <1>6, <2>5, <2>7, TypeSplit, Zenon DEF WinElection, RestOK
  <2>9. /\ currentEpoch' \in [Nodes -> Nat]
        /\ \A x \in Nodes : currentEpoch'[x] >= currentEpoch[x]
    BY <1>6 DEF WinElection, TypeOK
  <2> QED BY <2>5, <2>6, <2>8, <2>9, TypeSplit, EpochsKept, TypeJoin, Zenon DEF Kind
<1>7. ASSUME NEW n \in Shard, LoseMaster(n) \/ ReachAgain(n)
      PROVE  TypeOK' /\ Kind
  <2>1. Bookkeeping /\ UNCHANGED <<currentEpoch, view>>
    BY <1>7, Zenon DEF LoseMaster, ReachAgain, Bookkeeping, conf
  <2>2. RestOK'
    BY <1>7, TypeSplit, Zenon DEF LoseMaster, ReachAgain, RestOK
  <2> QED BY <2>1, <2>2, PlainType, Zenon
<1>8. ASSUME NEW n \in Shard, Takeover(n)
      PROVE  TypeOK' /\ Kind
  <2>0. n \in Nodes
    BY Zenon DEF Nodes
  <2> DEFINE s == clusterBumpConfigEpochWithoutConsensus(n)
             t == [s EXCEPT !.view = clusterFailoverReplaceYourMaster(@, n)]
  <2>1. Learned(n, s)
    BY <2>0, BumpLearned, Zenon
  <2>2. t.currentEpoch = s.currentEpoch
        /\ t.view = clusterFailoverReplaceYourMaster(s.view, n)
    BY Zenon DEF clusterBumpConfigEpochWithoutConsensus, State
  <2>3. Order(n, t) /\ clusterSaveConfig(n)
    BY <1>8, Zenon DEF Takeover
  <2> HIDE DEF s, t
  <2>4. Learned(n, t)
    BY <2>0, <2>1, <2>2, ReplaceType, Zenon DEF Learned
  <2> QED BY <2>0, <2>3, <2>4, OrderType, Zenon DEF Kind
<1>9. ASSUME NEW x \in Shard, markNodeAsFailing(x) \/ ClearOldFailure(x)
      PROVE  TypeOK' /\ Kind
  BY <1>9, FlagType DEF markNodeAsFailing, ClearOldFailure, Kind
<1>10. ASSUME NEW n \in Nodes, BumpEpoch(n)
       PROVE  TypeOK' /\ Kind
  BY <1>10, BumpLearned, OrderType, Zenon DEF BumpEpoch, Kind
<1>11. ASSUME NEW n \in Nodes, Restart(n)
       PROVE  TypeOK' /\ Kind
  BY <1>11, RestartType, Zenon DEF Kind
<1>12. ASSUME NEW n \in Nodes, clusterBeforeSleep(n)
       PROVE  TypeOK' /\ Kind
  <2>1. Bookkeeping /\ UNCHANGED <<currentEpoch, view>>
    BY <1>12, Zenon DEF clusterBeforeSleep, Bookkeeping
  <2>2. RestOK'
    BY <1>12, TypeSplit, Zenon DEF clusterBeforeSleep, RestOK
  <2> QED BY <2>1, <2>2, PlainType, Zenon
<1> QED BY <1>0, <1>1, <1>2, <1>3, <1>4, <1>5, <1>6, <1>7, <1>8, <1>9, <1>10,
           <1>11, <1>12, Zenon DEF Next

\* Epochs and tables are well formed, and neither a vote nor nodes.conf is
\* ever ahead of a node's current epoch, over restarts too.
THEOREM TypeCorrect == Spec => []TypeOK
<1>1. TypeOK /\ [Next]_vars => TypeOK'
  BY TypeStep, Zenon
<1> QED BY TypeInit, <1>1, PTL DEF Spec

-----------------------------------------------------------------------------
(* Votes. *)

\* Steps that neither vote nor crash.
LEMMA VotesKept ==
  ASSUME TypeOK, VoteInv, Bookkeeping
  PROVE  VoteInv'
<1>1. OneVotePerEpoch' /\ AcksAreVotes' /\ AcksDiffer'
  BY Zenon DEF VoteInv, OneVotePerEpoch, AcksAreVotes, AcksDiffer, Bookkeeping
<1>2. ASSUME NEW t \in votes, Covered(t[1], t[2]) PROVE Covered(t[1], t[2])'
  <2>1. t[1] \in Nodes /\ t[1] \in Voters
    BY Zenon DEF TypeOK, Nodes
  <2>2. CASE saved' = saved /\ unsaved \subseteq unsaved'
    BY <1>2, <2>2, Zenon DEF Covered, Bookkeeping
  <2>3. ASSUME NEW n \in Nodes, clusterSaveConfig(n) PROVE Covered(t[1], t[2])'
    <3>1. t[2] <= lastVote'[t[1]] /\ lastVote' = lastVote
      BY <1>2, Zenon DEF Covered, Bookkeeping
    <3>2. CASE t[1] = n
      BY <2>3, <3>1, <3>2, TypeSplit, Saving, Zenon DEF Covered
    <3>3. CASE t[1] # n
      <4>1. saved'[t[1]] = saved[t[1]]
        BY <2>1, <2>3, <3>3, TypeSplit, Saving, Zenon
      <4>2. <<t[1], t[2]>> \in unsaved => <<t[1], t[2]>> \in unsaved'
        BY <2>3, <3>3, Zenon DEF clusterSaveConfig
      <4> QED BY <1>2, <3>1, <4>1, <4>2, Zenon DEF Covered
    <3> QED BY <3>2, <3>3, Zenon
  <2>4. \/ saved' = saved /\ unsaved \subseteq unsaved'
        \/ \E n \in Nodes : clusterSaveConfig(n)
    BY Zenon DEF Bookkeeping, conf, clusterDoBeforeSleep
  <2> QED BY <2>2, <2>3, <2>4, Zenon
<1>3. VotesCovered'
  BY <1>2, Zenon DEF VoteInv, VotesCovered, Bookkeeping
<1> QED BY <1>1, <1>3, Zenon DEF VoteInv

\* A voter that votes again in an epoch has forgotten its vote.
LEMMA FreshVote ==
  ASSUME TypeOK, VoteInv, NEW m \in msgs, Voting(m), NEW t \in votes,
         t[1] = m.to, t[2] = m.currentEpoch
  PROVE  <<m.to, m.currentEpoch>> \in lost
<1>1. lastVote[m.to] < m.currentEpoch /\ m.currentEpoch \in Nat /\ m.to \in Nodes
  BY VoteIsNew, VoteChanges, Zenon
<1>2. lastVote[m.to] \in Nat
  BY <1>1, Zenon DEF TypeOK
<1>3. ~(m.currentEpoch <= lastVote[m.to])
  BY <1>1, <1>2
<1> QED BY <1>3, Zenon DEF VoteInv, VotesCovered, Covered

(* A vote is the only one that counts in its epoch. *)
LEMMA VoteGiven ==
  ASSUME TypeOK, VoteInv, NEW m \in msgs, Voting(m)
  PROVE  VoteInv'
<1> DEFINE k == clusterSendFailoverAuth(m)
           vote == <<m.to, m.currentEpoch, m.from>>
<1>1. /\ votes' = votes \cup {vote} /\ msgs' = (msgs \ {m}) \cup {k}
      /\ lost' = lost /\ saved' = saved
      /\ unsaved' = unsaved \cup {<<m.to, m.currentEpoch>>}
      /\ k.from = m.to /\ k.to = m.from /\ k.currentEpoch = m.currentEpoch
  BY VoteChanges, Zenon
<1>2. vote[1] = m.to /\ vote[2] = m.currentEpoch /\ vote[3] = m.from
  OBVIOUS
<1> HIDE DEF vote, k
<1>3. OneVotePerEpoch'
  <2> SUFFICES ASSUME NEW a \in votes', NEW b \in votes',
                      a[1] = b[1], a[2] = b[2], a[3] # b[3]
               PROVE  <<a[1], a[2]>> \in lost
    BY <1>1, Zenon DEF OneVotePerEpoch
  <2>1. CASE a \in votes /\ b \in votes
    BY <2>1, Zenon DEF VoteInv, OneVotePerEpoch
  <2>2. CASE a = vote /\ b \in votes
    BY <1>2, <2>2, FreshVote, Zenon
  <2>3. CASE b = vote /\ a \in votes
    BY <1>2, <2>3, FreshVote, Zenon
  <2> QED BY <1>1, <2>1, <2>2, <2>3, Zenon
<1>4. ASSUME NEW t \in votes' PROVE <<t[1], t[2]>> \in lost \/ Covered(t[1], t[2])'
  <2>1. m.to \in Nodes /\ m.currentEpoch \in Nat
        /\ lastVote' = [lastVote EXCEPT ![m.to] = m.currentEpoch]
    BY VoteChanges, Zenon
  <2>2. CASE t = vote
    <3>1. t[2] <= lastVote'[t[1]]
      BY <1>2, <2>1, <2>2 DEF TypeOK
    <3> QED BY <1>1, <1>2, <2>2, <3>1, Zenon DEF Covered
  <2>3. ASSUME t \in votes, Covered(t[1], t[2]) PROVE Covered(t[1], t[2])'
    <3>1. t[1] \in Nodes /\ t[2] \in Nat
      BY <2>3, Zenon DEF TypeOK, Nodes
    <3>2. t[2] <= lastVote[t[1]]
      BY <2>3, Zenon DEF Covered
    <3>3. t[2] <= lastVote'[t[1]]
      BY <2>1, <3>1, <3>2, VoteIsNew DEF TypeOK
    <3> QED BY <1>1, <2>3, <3>3, Zenon DEF Covered
  <2> QED BY <1>1, <2>2, <2>3, Zenon DEF VoteInv, VotesCovered
<1>5. VotesCovered'
  BY <1>1, <1>4, Zenon DEF VotesCovered
<1>6. AcksAreVotes'
  BY <1>1, Zenon DEF VoteInv, AcksAreVotes, vote
<1>7. ASSUME NEW x \in msgs \cap Acks, x.from = k.from, x.to = k.to,
             x.currentEpoch = k.currentEpoch
      PROVE  <<k.from, k.currentEpoch>> \in lost
  <2> DEFINE t == <<x.from, x.currentEpoch, x.to>>
  <2>1. t \in votes
    BY <1>7, Zenon DEF VoteInv, AcksAreVotes
  <2>2. t[1] = m.to /\ t[2] = m.currentEpoch
    BY <1>1, <1>7
  <2> HIDE DEF t
  <2> QED BY <1>1, <2>1, <2>2, FreshVote, Zenon
<1>8. AcksDiffer'
  <2> SUFFICES ASSUME NEW x \in msgs' \cap Acks, NEW y \in msgs' \cap Acks,
                      x.from = y.from, x.to = y.to,
                      x.currentEpoch = y.currentEpoch, x # y
               PROVE  <<x.from, x.currentEpoch>> \in lost
    BY <1>1, Zenon DEF AcksDiffer
  <2>1. CASE x \in msgs /\ y \in msgs
    BY <2>1, Zenon DEF VoteInv, AcksDiffer
  <2>2. CASE x = k /\ y \in msgs
    BY <1>7, <2>2, Zenon
  <2>3. CASE y = k /\ x \in msgs
    BY <1>7, <2>3, Zenon
  <2> QED BY <1>1, <2>1, <2>2, <2>3, Zenon
<1> QED BY <1>3, <1>5, <1>6, <1>8, Zenon DEF VoteInv

(* What a crash takes is remembered as lost. *)
LEMMA VotesCrash ==
  ASSUME TypeOK, VoteInv, NEW n \in Nodes, Restart(n)
  PROVE  VoteInv'
<1>1. /\ votes' = votes /\ msgs' = msgs /\ saved' = saved
      /\ lost' = lost \cup {p \in unsaved : p[1] = n}
      /\ unsaved' = {p \in unsaved : p[1] # n}
      /\ lastVote' = [lastVote EXCEPT ![n] = saved[n].lastVote]
  BY Zenon DEF Restart
<1>2. OneVotePerEpoch' /\ AcksAreVotes' /\ AcksDiffer'
  BY <1>1, Zenon DEF VoteInv, OneVotePerEpoch, AcksAreVotes, AcksDiffer
<1>3. ASSUME NEW t \in votes, Covered(t[1], t[2])
      PROVE  <<t[1], t[2]>> \in lost' \/ Covered(t[1], t[2])'
  <2>1. t[1] \in Nodes
    BY Zenon DEF TypeOK, Nodes
  <2> DEFINE p == <<t[1], t[2]>>
  <2>2. p[1] = t[1]
    OBVIOUS
  <2>3. CASE t[1] = n /\ p \in unsaved
    BY <1>1, <2>2, <2>3, Zenon
  <2>4. CASE t[1] = n /\ p \notin unsaved
    <3>1. t[2] <= saved[n].lastVote
      BY <1>3, <2>4, Zenon DEF Covered
    <3>2. lastVote'[n] = saved[n].lastVote
      BY <1>1, Zenon DEF TypeOK
    <3> QED BY <1>1, <2>4, <3>1, <3>2, Zenon DEF Covered
  <2>5. CASE t[1] # n
    <3>1. lastVote'[t[1]] = lastVote[t[1]]
      BY <1>1, <2>1, <2>5, Zenon DEF TypeOK
    <3>2. p \in unsaved => p \in unsaved'
      BY <1>1, <2>2, <2>5, Zenon
    <3> QED BY <1>1, <1>3, <3>1, <3>2, Zenon DEF Covered
  <2> QED BY <2>3, <2>4, <2>5, Zenon
<1>4. VotesCovered'
  BY <1>1, <1>3, Zenon DEF VoteInv, VotesCovered
<1> QED BY <1>2, <1>4, Zenon DEF VoteInv

(* Every step keeps VoteInv. *)
LEMMA VoteStep ==
  ASSUME TypeOK, VoteInv, [Next]_vars
  PROVE  VoteInv'
BY TypeStep, VotesKept, VoteGiven, VotesCrash, Zenon DEF Kind

(* There are no votes in the first state. *)
LEMMA VoteInit == Init => VoteInv
BY Zenon DEF Init, VoteInv, OneVotePerEpoch, VotesCovered, AcksAreVotes, AcksDiffer

\* A voter gives two votes in an epoch only if it crashed between the first one
\* and the save of nodes.conf that follows it.
THEOREM VotesOnce == Spec => []OneVotePerEpoch
<1>1. Init => TypeOK /\ VoteInv
  BY TypeInit, VoteInit, Zenon
<1>2. TypeOK /\ VoteInv /\ [Next]_vars => (TypeOK /\ VoteInv)'
  BY TypeStep, VoteStep, Zenon
<1>3. VoteInv => OneVotePerEpoch
  BY Zenon DEF VoteInv
<1> QED BY <1>1, <1>2, <1>3, PTL DEF Spec

-----------------------------------------------------------------------------
(* Counting. *)

(* Winners stay elected. *)
LEMMA WinnersKept ==
  ASSUME WinnersElected, votes \subseteq votes', lost \subseteq lost'
  PROVE  \A w \in won : \/ w[3] \/ Elected(w[1], w[2])'
                        \/ \E v \in Voters : <<v, w[2]>> \in lost'
<1>1. ASSUME NEW n, NEW e, Elected(n, e) PROVE Elected(n, e)'
  BY <1>1, Zenon DEF Elected, needed_quorum
<1> QED BY <1>1, Zenon DEF WinnersElected

(* Steps that leave what a replica counted alone, or forget it. *)
LEMMA CountsKept ==
  ASSUME TypeOK, CountInv, votes \subseteq votes', lost \subseteq lost',
         msgs' \cap Acks \subseteq msgs, won' = won,
         \A n \in Shard :
            \/ counted'[n] = counted[n] /\ auth'[n].count = auth[n].count
            \/ counted'[n] = {} /\ auth'[n].count = 0
  PROVE  CountInv'
<1>1. CountedVotes'
  BY Zenon DEF CountInv, CountedVotes
<1>2. \A m \in Acks : m.to \in Shard
  BY Zenon DEF Acks
<1>3. CountedOnce'
  BY <1>2, Zenon DEF CountInv, CountedOnce
<1>4. CountsVoters'
  BY FS_EmptySet, Zenon DEF CountInv, CountsVoters
<1>5. WinnersElected'
  BY WinnersKept, Zenon DEF CountInv, WinnersElected
<1> QED BY <1>1, <1>3, <1>4, <1>5, Zenon DEF CountInv

(* A vote that was counted before had been forgotten. *)
LEMMA CountsVote ==
  ASSUME TypeOK, VoteInv, CountInv, NEW m \in msgs, Voting(m)
  PROVE  CountInv'
<1> DEFINE k == clusterSendFailoverAuth(m)
<1>1. /\ UNCHANGED <<auth, counted, won, lost>> /\ votes \subseteq votes'
      /\ msgs' = (msgs \ {m}) \cup {k}
      /\ k.from = m.to /\ k.to = m.from /\ k.currentEpoch = m.currentEpoch
      /\ m.from \in Shard
  BY VoteChanges, Zenon
<1> HIDE DEF k
<1>2. CountedVotes' /\ CountsVoters'
  BY <1>1, Zenon DEF CountInv, CountedVotes, CountsVoters
<1>3. ASSUME <<k.from, k.currentEpoch>> \in counted[k.to]
      PROVE  <<k.from, k.currentEpoch>> \in lost
  <2> DEFINE p == <<k.from, k.currentEpoch>>
             t == <<p[1], p[2], k.to>>
  <2>1. t \in votes
    BY <1>1, <1>3, Zenon DEF CountInv, CountedVotes
  <2>2. t[1] = m.to /\ t[2] = m.currentEpoch
    BY <1>1
  <2> HIDE DEF t
  <2> QED BY <1>1, <2>1, <2>2, FreshVote, Zenon
<1>4. CountedOnce'
  BY <1>1, <1>3, Zenon DEF CountInv, CountedOnce
<1>5. WinnersElected'
  BY <1>1, WinnersKept, Zenon DEF CountInv, WinnersElected
<1> QED BY <1>2, <1>4, <1>5, Zenon DEF CountInv

(* A vote is counted once, or was forgotten. *)
LEMMA CountsAck ==
  ASSUME TypeOK, VoteInv, CountInv, NEW m \in msgs, ProcessAck(m)
  PROVE  CountInv'
<1> DEFINE n == m.to
           p == <<m.from, m.currentEpoch>>
<1>1. /\ m \in Acks /\ n \in Shard /\ n \in Nodes /\ msgs' = msgs \ {m}
      /\ UNCHANGED <<votes, lost, won>>
  BY Zenon DEF ProcessAck, TypeOK, Requests, Acks, Nodes
<1>2. CASE ~(m.currentEpoch >= auth[n].epoch)
  <2>1. auth' = [auth EXCEPT ![n] = auth[n]]
        /\ counted' = [counted EXCEPT ![n] = counted[n]]
    BY <1>2, Zenon DEF ProcessAck, Elect
  <2>2. \A x \in Shard : counted'[x] = counted[x] /\ auth'[x] = auth[x]
    BY <1>1, <2>1, Zenon DEF TypeOK, Nodes
  <2> QED BY <1>1, <2>2, CountsKept, Zenon
<1>3. CASE m.currentEpoch >= auth[n].epoch
  <2>1. /\ auth' = [auth EXCEPT ![n] = [auth[n] EXCEPT !.count = auth[n].count + 1]]
        /\ counted' = [counted EXCEPT ![n] = counted[n] \cup {p}]
    BY <1>3, Zenon DEF ProcessAck, Elect
  <2>2. /\ counted'[n] = counted[n] \cup {p}
        /\ auth'[n].count = auth[n].count + 1
        /\ \A x \in Shard : x # n =>
                counted'[x] = counted[x] /\ auth'[x] = auth[x]
    BY <1>1, <2>1, Zenon DEF TypeOK, Nodes
  <2>3. <<p[1], p[2], n>> \in votes
    BY <1>1, Zenon DEF VoteInv, AcksAreVotes
  <2>4. ASSUME NEW k \in msgs' \cap Acks,
               <<k.from, k.currentEpoch>> \in counted'[k.to]
        PROVE  <<k.from, k.currentEpoch>> \in lost
    <3>1. k \in msgs \cap Acks /\ k # m /\ k.to \in Shard
      BY <1>1, Zenon DEF Acks
    <3>2. CASE <<k.from, k.currentEpoch>> \in counted[k.to]
      BY <3>1, <3>2, Zenon DEF CountInv, CountedOnce
    <3>3. CASE k.to = n /\ <<k.from, k.currentEpoch>> = p
      <4>1. k.from = m.from /\ k.currentEpoch = m.currentEpoch
        BY <3>3
      <4> QED BY <1>1, <3>1, <3>3, <4>1, Zenon DEF VoteInv, AcksDiffer
    <3> QED BY <2>2, <2>4, <3>1, <3>2, <3>3, Zenon
  <2>5. p \in counted[n] => p \in lost
    BY <1>1, Zenon DEF CountInv, CountedOnce
  <2> HIDE DEF n, p
  <2>6. CountedOnce'
    BY <1>1, <2>4, Zenon DEF CountedOnce
  <2>7. CountedVotes'
    BY <1>1, <2>2, <2>3, Zenon DEF CountInv, CountedVotes
  <2>8. /\ IsFiniteSet(counted[n])
        /\ auth[n].count = Cardinality(counted[n]) \/ counted[n] \cap lost # {}
    BY <1>1, Zenon DEF CountInv, CountsVoters
  <2>9. /\ IsFiniteSet(counted'[n])
        /\ Cardinality(counted'[n]) =
             IF p \in counted[n] THEN Cardinality(counted[n])
             ELSE Cardinality(counted[n]) + 1
    <3> DEFINE S == counted[n]
    <3>1. /\ IsFiniteSet(S \cup {p})
          /\ Cardinality(S \cup {p}) =
               IF p \in S THEN Cardinality(S) ELSE Cardinality(S) + 1
      BY <2>8, FS_AddElement, Zenon
    <3> QED BY <2>2, <3>1, Zenon
  <2>10. auth'[n].count = Cardinality(counted'[n]) \/ counted'[n] \cap lost # {}
    BY <2>2, <2>5, <2>8, <2>9, Zenon
  <2>11. CountsVoters'
    BY <1>1, <2>2, <2>9, <2>10, Zenon DEF CountInv, CountsVoters
  <2>12. WinnersElected'
    BY <1>1, WinnersKept, Zenon DEF CountInv, WinnersElected
  <2> QED BY <2>6, <2>7, <2>11, <2>12, Zenon DEF CountInv
<1> QED BY <1>2, <1>3, Zenon

(* A winner that counted votes of its epoch only, none forgotten, counted as *)
(* many voters as votes.                                                     *)
LEMMA WinnerElected ==
  ASSUME TypeOK, CountInv, NEW n \in Shard, NEW e,
         auth[n].count >= needed_quorum,
         \A p \in counted[n] : p[2] = e,
         \A v \in Voters : <<v, e>> \notin lost
  PROVE  Elected(n, e)
<1> DEFINE S == counted[n]
           Q == {p[1] : p \in S}
           f == [p \in S |-> p[1]]
<1>1. n \in Nodes /\ S \subseteq Voters \X Nat
  BY Zenon DEF TypeOK, Nodes
<1>2. Q \subseteq Voters /\ \A p \in S : p = <<p[1], e>> /\ p[1] \in Voters
  <2>1. ASSUME NEW p \in S PROVE p = <<p[1], e>> /\ p[1] \in Voters
    <3>1. p \in Voters \X Nat /\ p[2] = e
      BY <1>1, Zenon
    <3> QED BY <3>1
  <2> QED BY <2>1, Zenon
<1>3. IsFiniteSet(Q)
  BY <1>2, NodesFinite, FS_Subset, Zenon
<1>4. f \in Injection(S, Q)
  <2>1. f \in [S -> Q]
    BY Zenon
  <2>2. \A a, b \in S : f[a] = f[b] => a = b
    BY <1>2, Zenon
  <2> QED BY <2>1, <2>2 DEF Injection, IsInjective
<1>5. Cardinality(S) <= Cardinality(Q)
  BY <1>3, <1>4, FS_Injection, Zenon
<1>6. auth[n].count = Cardinality(S)
  <2>1. S \cap lost = {}
    BY <1>2, Zenon
  <2> QED BY <2>1, Zenon DEF CountInv, CountsVoters
<1>7. Cardinality(Q) >= needed_quorum
  <2>1. Cardinality(S) \in Nat /\ Cardinality(Q) \in Nat
    BY <1>3, FS_CardinalityType, Zenon DEF CountInv, CountsVoters
  <2>2. needed_quorum \in Int
    BY NodesFinite DEF needed_quorum
  <2> QED BY <1>5, <1>6, <2>1, <2>2
<1>8. \A v \in Q : <<v, e, n>> \in votes
  BY Zenon DEF CountInv, CountedVotes
<1> QED BY <1>2, <1>7, <1>8, Zenon DEF Elected

(* A winner was elected, or counted a vote of another epoch or a forgotten one. *)
LEMMA CountsWin ==
  ASSUME TypeOK, CountInv, NEW n \in Shard, WinElection(n)
  PROVE  CountInv'
<1> DEFINE e == auth[n].epoch
           w == <<n, e, \E p \in counted[n] : p[2] # e>>
<1>1. /\ UNCHANGED <<auth, counted, votes, lost, msgs>>
      /\ won' = won \cup {w} /\ auth[n].count >= needed_quorum
  BY Zenon DEF WinElection
<1>2. CountedVotes' /\ CountedOnce' /\ CountsVoters'
  BY <1>1, Zenon DEF CountInv, CountedVotes, CountedOnce, CountsVoters
<1>3. w[1] = n /\ w[2] = e /\ (w[3] <=> \E p \in counted[n] : p[2] # e)
  OBVIOUS
<1> HIDE DEF w
<1>4. \/ w[3] \/ Elected(w[1], w[2])
      \/ \E v \in Voters : <<v, w[2]>> \in lost
  BY <1>1, <1>3, WinnerElected, Zenon
<1>5. \A x, y : Elected(x, y) => Elected(x, y)'
  BY <1>1, Zenon DEF Elected, needed_quorum
<1>6. WinnersElected'
  BY <1>1, <1>4, <1>5, Zenon DEF CountInv, WinnersElected
<1> QED BY <1>2, <1>6, Zenon DEF CountInv

(* Every step keeps CountInv. *)
LEMMA CountStep ==
  ASSUME TypeOK, VoteInv, CountInv, [Next]_vars
  PROVE  CountInv'
<1>0. \A n \in Shard : n \in Nodes
  BY Zenon DEF Nodes
<1>1. ASSUME UNCHANGED <<auth, counted, won, lost>>, votes' = votes,
             msgs' \cap Acks \subseteq msgs
      PROVE  CountInv'
  BY <1>1, CountsKept, Zenon
<1>2. ASSUME NEW m \in msgs, Deliver(m) PROVE CountInv'
  <2>1. CASE Voting(m)
    BY <2>1, CountsVote, Zenon
  <2>2. CASE clusterSendFailoverAuthIfNeeded(m) /\ ~MayVote(m)
    BY <1>1, <2>2, Zenon DEF clusterSendFailoverAuthIfNeeded
  <2>3. CASE ProcessAck(m)
    BY <2>3, CountsAck, Zenon
  <2> QED BY <1>2, <2>1, <2>2, <2>3, Zenon DEF Deliver, Voting
<1>3. ASSUME NEW n \in Nodes, NEW a, a.count = 0, UNCHANGED <<won, votes, msgs>>,
             lost \subseteq lost', auth' = [auth EXCEPT ![n] = a],
             counted' = [counted EXCEPT ![n] = {}]
      PROVE  CountInv'
  <2>1. ASSUME NEW x \in Shard
        PROVE  \/ counted'[x] = counted[x] /\ auth'[x].count = auth[x].count
               \/ counted'[x] = {} /\ auth'[x].count = 0
    BY <1>0, <1>3, Zenon DEF TypeOK
  <2> QED BY <1>3, <2>1, CountsKept, Zenon
<1>4. ASSUME NEW n \in Shard, ScheduleElection(n) PROVE CountInv'
  <2> DEFINE a == [auth[n] EXCEPT !.phase = "scheduled", !.count = 0]
  <2>1. a.count = 0
    BY <1>0, Zenon DEF TypeOK
  <2>2. /\ UNCHANGED <<won, votes, msgs, lost>> /\ auth' = [auth EXCEPT ![n] = a]
        /\ counted' = [counted EXCEPT ![n] = {}]
    BY <1>4, Zenon DEF ScheduleElection, Elect
  <2> HIDE DEF a
  <2> QED BY <1>0, <1>3, <2>1, <2>2, Zenon
<1>5. ASSUME NEW n \in Nodes, Restart(n) PROVE CountInv'
  <2>1. NoElection.count = 0
    BY Zenon DEF NoElection
  <2>2. /\ UNCHANGED <<won, votes, msgs>> /\ lost \subseteq lost'
        /\ auth' = [auth EXCEPT ![n] = NoElection]
        /\ counted' = [counted EXCEPT ![n] = {}]
    BY <1>5, Zenon DEF Restart, Elect
  <2> QED BY <1>3, <2>1, <2>2, Zenon
<1>6. ASSUME NEW n \in Nodes, NEW a, a.count = auth[n].count,
             UNCHANGED <<won, votes, lost, counted>>,
             msgs' \cap Acks \subseteq msgs, auth' = [auth EXCEPT ![n] = a]
      PROVE  CountInv'
  <2>1. \A x \in Shard : auth'[x].count = auth[x].count
    BY <1>0, <1>6, Zenon DEF TypeOK
  <2> QED BY <1>6, <2>1, CountsKept, Zenon
<1>7. ASSUME NEW n \in Shard, StartElection(n) PROVE CountInv'
  <2> DEFINE a == [auth[n] EXCEPT !.phase = "sent", !.epoch = currentEpoch[n] + 1]
  <2>1. a.count = auth[n].count
    BY <1>0, Zenon DEF TypeOK
  <2>2. /\ auth' = [auth EXCEPT ![n] = a] /\ UNCHANGED <<won, votes, lost, counted>>
        /\ msgs' = msgs \cup clusterRequestFailoverAuth(n, currentEpoch[n] + 1)
    BY <1>7, Zenon DEF StartElection, Elect
  <2>3. \A k \in clusterRequestFailoverAuth(n, currentEpoch[n] + 1) :
            k.type = "REQUEST"
    BY DEF clusterRequestFailoverAuth
  <2>4. msgs' \cap Acks \subseteq msgs
    BY <2>2, <2>3 DEF Acks
  <2> HIDE DEF a
  <2> QED BY <1>0, <1>6, <2>1, <2>2, <2>4, Zenon
<1>8. ASSUME NEW n \in Shard, ElectionExpires(n) PROVE CountInv'
  <2> DEFINE a == [auth[n] EXCEPT !.phase = "expired"]
  <2>1. a.count = auth[n].count
    BY <1>0, Zenon DEF TypeOK
  <2>2. /\ auth' = [auth EXCEPT ![n] = a]
        /\ UNCHANGED <<won, votes, lost, counted, msgs>>
    BY <1>8, Zenon DEF ElectionExpires, Elect
  <2> HIDE DEF a
  <2> QED BY <1>0, <1>6, <2>1, <2>2, Zenon
<1>9. ASSUME NEW n \in Shard, WinElection(n) PROVE CountInv'
  BY <1>9, CountsWin, Zenon
<1>10. CASE \E i, j \in Nodes : Gossip(i, j)
  BY <1>1, <1>10, Zenon DEF Gossip, Learn
<1>11. ASSUME NEW n \in Shard,
              \/ LoseMaster(n) \/ ReachAgain(n) \/ Takeover(n)
              \/ markNodeAsFailing(n) \/ ClearOldFailure(n)
       PROVE  CountInv'
  BY <1>1, <1>11, Zenon DEF LoseMaster, ReachAgain, Takeover, Order,
     markNodeAsFailing, ClearOldFailure, FlagAt
<1>12. ASSUME NEW n \in Nodes, BumpEpoch(n) \/ clusterBeforeSleep(n)
       PROVE  CountInv'
  BY <1>1, <1>12, Zenon DEF BumpEpoch, Order, clusterBeforeSleep
<1>13. CASE UNCHANGED vars
  BY <1>1, <1>13, Zenon DEF vars
<1> QED BY <1>2, <1>4, <1>5, <1>7, <1>8, <1>9, <1>10, <1>11, <1>12, <1>13,
           Zenon DEF Next

(* Nothing is counted in the first state. *)
LEMMA CountInit == Init => CountInv
<1> SUFFICES ASSUME Init PROVE CountInv
  OBVIOUS
<1>1. \A n \in Shard : counted[n] = {} /\ auth[n].count = 0
  BY Zenon DEF Init, NoElection, Nodes
<1> QED BY <1>1, FS_EmptySet, Zenon DEF Init, CountInv, CountedVotes, CountedOnce,
           CountsVoters, WinnersElected

(* Two elected winners of an epoch share a voter, who voted once or forgot. *)
LEMMA WinnersShareAVoter == TypeOK /\ VoteInv /\ CountInv => OneWinnerPerEpoch
<1> SUFFICES ASSUME TypeOK, VoteInv, CountInv,
                    NEW a \in won, NEW b \in won, a[2] = b[2], ~a[3], ~b[3],
                    \A v \in Voters : <<v, a[2]>> \notin lost
             PROVE  a[1] = b[1]
  BY Zenon DEF OneWinnerPerEpoch
<1>1. PICK P \in SUBSET Voters :
        /\ Cardinality(P) >= needed_quorum
        /\ \A v \in P : <<v, a[2], a[1]>> \in votes
  BY Zenon DEF CountInv, WinnersElected, Elected
<1>2. PICK Q \in SUBSET Voters :
        /\ Cardinality(Q) >= needed_quorum
        /\ \A v \in Q : <<v, b[2], b[1]>> \in votes
  BY Zenon DEF CountInv, WinnersElected, Elected
<1>3. Cardinality(P) \in Nat /\ Cardinality(Q) \in Nat
  BY NodesFinite, FS_Subset, FS_CardinalityType, Zenon
<1>4. Cardinality(P) + Cardinality(Q) > Cardinality(Voters)
  BY <1>1, <1>2, <1>3, NodesFinite DEF needed_quorum
<1>5. PICK v \in P : v \in Q
  BY <1>4, NodesFinite, FS_MajoritiesIntersect, Zenon
<1> DEFINE s == <<v, a[2], a[1]>>
           t == <<v, a[2], b[1]>>
<1>6. s \in votes /\ t \in votes
  BY <1>1, <1>2, <1>5, Zenon
<1>7. /\ s[1] = v /\ s[2] = a[2] /\ s[3] = a[1]
      /\ t[1] = v /\ t[2] = a[2] /\ t[3] = b[1]
  OBVIOUS
<1> HIDE DEF s, t
<1> QED BY <1>5, <1>6, <1>7, Zenon DEF VoteInv, OneVotePerEpoch

\* Two replicas win elections of one epoch only if a voter forgot its vote of that
\* epoch in a crash, or one of them counted a vote of another epoch.
THEOREM OneWinner == Spec => []OneWinnerPerEpoch
<1>1. Init => Inv
  BY TypeInit, VoteInit, CountInit, Zenon DEF Inv
<1>2. Inv /\ [Next]_vars => Inv'
  BY TypeStep, VoteStep, CountStep, Zenon DEF Inv
<1>3. Inv => OneWinnerPerEpoch
  BY WinnersShareAVoter, Zenon DEF Inv
<1> QED BY <1>1, <1>2, <1>3, PTL DEF Spec

-----------------------------------------------------------------------------
(* Slots. *)

Sound(v, me) == v.owner = me => v.slaveof[me] = me

\* nodes.conf is sound too: a restart brings its table back.
SavedSound == \A n \in Nodes : Sound(saved[n].view, n)

(* clusterUpdateSlotsConfigWith() leaves the slots with a master. *)
LEMMA SlotsSound ==
  ASSUME NEW v \in Views, NEW me \in Nodes, NEW n \in Nodes, NEW e \in Nat,
         NEW c \in BOOLEAN, Sound(v, me)
  PROVE  Sound(clusterUpdateSlotsConfigWith(v, me, n, e, c), me)
BY Zenon DEF Sound, clusterUpdateSlotsConfigWith, clusterSetMaster, Bind, Views

(* A sender that became a replica loses its slots to its master. *)
LEMMA RoleSwitchSound ==
  ASSUME NEW v \in Views, NEW h, IsHeader(h), h.slaveof \in Nodes,
         NEW me \in Nodes, h.from # me, Sound(v, me)
  PROVE  Sound(RoleSwitch(v, h), me)
<1> DEFINE w == IF v.owner = h.from THEN Bind(v, h.slaveof) ELSE v
           d == [w EXCEPT !.slaveof[h.slaveof] = h.slaveof,
                          !.epoch[h.slaveof] = h.configEpoch]
<1>1. v.slaveof \in [Nodes -> Nodes] /\ d.slaveof \in [Nodes -> Nodes]
  BY Zenon DEF Views, Bind
<1>2. Sound(d, me)
  BY Zenon DEF Sound, Views, Bind
<1>3. RoleSwitch(v, h) \in {[v EXCEPT !.slaveof[h.from] = h.from],
                            [v EXCEPT !.slaveof[h.from] = h.slaveof],
                            [d EXCEPT !.slaveof[h.from] = h.slaveof]}
  BY Zenon DEF RoleSwitch
<1>4. ASSUME NEW x \in Nodes
      PROVE  Sound([v EXCEPT !.slaveof[h.from] = x], me)
  BY <1>1, Zenon DEF Sound, Views
<1>5. Sound([d EXCEPT !.slaveof[h.from] = h.slaveof], me)
  <2>1. d.slaveof[me] = [d EXCEPT !.slaveof[h.from] = h.slaveof].slaveof[me]
    BY <1>1, Zenon
  <2> QED BY <1>2, <2>1 DEF Sound
<1> QED BY <1>3, <1>4, <1>5, Zenon DEF IsHeader

(* A PING leaves the slots with a master. *)
LEMMA PingSound ==
  ASSUME TypeOK, ReplicasOwnNothing, NEW i \in Nodes, NEW j \in Nodes, i # j
  PROVE  Sound(ProcessPing(i, j).view, j)
<1> DEFINE h == clusterBuildMessageHdr(i)
           a == SenderEpoch(view[j], h)
           b == clearNodeFailureIfNeeded(a, h.from)
           c == RoleSwitch(b, h)
           v == ClaimedSlots(c, j, h)
           known == Newest(currentEpoch[j], h.currentEpoch)
           collides == clusterHandleConfigEpochCollision(v, j, h)
<1>1. /\ view[j] \in Views /\ Sound(view[j], j) /\ h.from = i
      /\ IsHeader(h) /\ h.slaveof \in Nodes /\ h.claims \in BOOLEAN
  BY HeaderType, Zenon DEF TypeOK, ReplicasOwnNothing, Sound, IsMaster,
     clusterBuildMessageHdr
<1>2. a \in Views /\ Sound(a, j)
  <2>1. a \in Views
    BY <1>1, SenderEpochType, Zenon
  <2> QED BY <1>1, <2>1, Zenon DEF SenderEpoch, Sound, Views
<1>3. b \in Views /\ Sound(b, j)
  BY <1>2, Zenon DEF clearNodeFailureIfNeeded, Sound, Views
<1> HIDE DEF h, b
<1>4. c \in Views /\ Sound(c, j)
  <2>1. c \in Views
    BY <1>1, <1>3, RoleSwitchType, Zenon
  <2> QED BY <1>1, <1>3, <2>1, RoleSwitchSound, Zenon
<1> HIDE DEF c
<1>5. v \in Views /\ Sound(v, j)
  BY <1>1, <1>4, SlotsType, SlotsSound, Zenon DEF ClaimedSlots, IsHeader
<1>6. ProcessPing(i, j).view =
        IF collides THEN [v EXCEPT !.epoch[j] = known + 1] ELSE v
  BY Zenon DEF ProcessPing, Switched, v, c, b, h
<1> HIDE DEF v, known, collides
<1>7. Sound([v EXCEPT !.epoch[j] = known + 1], j)
  BY <1>5, Zenon DEF Sound, Views
<1> QED BY <1>5, <1>6, <1>7, Zenon

(* An UPDATE leaves the slots with a master. *)
LEMMA UpdateSound ==
  ASSUME TypeOK, ReplicasOwnNothing, NEW i \in Nodes, NEW j \in Nodes
  PROVE  Sound(ProcessUpdate(i, j).view, i)
<1> DEFINE n == view[j].owner
           epoch == view[j].epoch[n]
           v == SenderEpoch(view[i], clusterBuildMessageHdr(j))
           w == [v EXCEPT !.slaveof[n] = n, !.epoch[n] = epoch]
<1>1. /\ view[j] \in Views /\ view[i] \in Views /\ Sound(view[i], i)
      /\ n \in Nodes /\ epoch \in Nat
  BY Zenon DEF TypeOK, ReplicasOwnNothing, Sound, IsMaster, Views
<1>2. v \in Views /\ Sound(v, i)
  <2>1. v \in Views
    BY <1>1, HeaderType, SenderEpochType, Zenon
  <2> QED BY <1>1, <2>1, Zenon DEF SenderEpoch, Sound, Views
<1>3. \/ ProcessUpdate(i, j).view = view[i]
      \/ ProcessUpdate(i, j).view = v
      \/ ProcessUpdate(i, j).view = clusterUpdateSlotsConfigWith(w, i, n, epoch, TRUE)
  BY Zenon DEF ProcessUpdate, State
<1> HIDE DEF v, n, epoch
<1>4. w \in Views /\ Sound(w, i)
  BY <1>1, <1>2, Zenon DEF Sound, Views
<1>5. Sound(clusterUpdateSlotsConfigWith(w, i, n, epoch, TRUE), i)
  BY <1>1, <1>4, SlotsSound, Zenon
<1> QED BY <1>1, <1>2, <1>3, <1>5, Zenon

\* A new master is one in its table.
LEMMA ReplaceSound ==
  ASSUME NEW v \in Views, NEW n \in Nodes
  PROVE  Sound(clusterFailoverReplaceYourMaster(v, n), n)
<1> DEFINE took == IF v.owner = v.slaveof[n] THEN Bind(v, n) ELSE v
<1>1. took \in Views
  BY BindType, Zenon
<1>2. clusterFailoverReplaceYourMaster(v, n) = [took EXCEPT !.slaveof[n] = n]
  BY Zenon DEF clusterFailoverReplaceYourMaster
<1> HIDE DEF took
<1>3. [took EXCEPT !.slaveof[n] = n].slaveof[n] = n
  BY <1>1, Zenon DEF Views
<1> QED BY <1>2, <1>3, Zenon DEF Sound

\* One node's table changes.
LEMMA TableChanges ==
  ASSUME TypeOK, ReplicasOwnNothing, NEW n \in Nodes, NEW v, Sound(v, n),
         view' = [view EXCEPT ![n] = v]
  PROVE  ReplicasOwnNothing'
BY Zenon DEF TypeOK, ReplicasOwnNothing, Sound, IsMaster

(* Every step keeps ReplicasOwnNothing. *)
LEMMA OwnerStep ==
  ASSUME TypeOK, ReplicasOwnNothing, SavedSound, [Next]_vars
  PROVE  ReplicasOwnNothing'
<1>0. ASSUME NEW n \in Nodes PROVE view[n] \in Views /\ Sound(view[n], n)
  BY Zenon DEF TypeOK, ReplicasOwnNothing, Sound, IsMaster
<1>1. ASSUME view' = view PROVE ReplicasOwnNothing'
  BY <1>1, Zenon DEF ReplicasOwnNothing, IsMaster
<1>2. ASSUME NEW i \in Nodes, NEW j \in Nodes, Gossip(i, j)
      PROVE  ReplicasOwnNothing'
  <2>1. i # j
    BY <1>2, Zenon DEF Gossip, Reaches
  <2>2. CASE Learn(j, ProcessPing(i, j))
    BY <2>1, <2>2, PingSound, TableChanges, Zenon DEF Learn
  <2>3. CASE Learn(i, ProcessUpdate(i, j))
    BY <2>3, UpdateSound, TableChanges, Zenon DEF Learn
  <2> QED BY <1>2, <2>2, <2>3, Zenon DEF Gossip
<1>3. ASSUME NEW m \in msgs, Deliver(m) PROVE ReplicasOwnNothing'
  <2>1. ReadHeader(m) /\ m.to \in Nodes /\ m.from \in Nodes
    BY <1>3, Zenon DEF Deliver, clusterSendFailoverAuthIfNeeded, ProcessAck, TypeOK,
       Requests, Acks, Nodes
  <2>2. Sound(SenderEpoch(view[m.to], m), m.to)
    BY <1>0, <2>1 DEF SenderEpoch, Sound, Views
  <2>3. view' = [view EXCEPT ![m.to] = SenderEpoch(view[m.to], m)]
    BY <2>1, Zenon DEF ReadHeader
  <2> QED BY <2>1, <2>2, <2>3, TableChanges, Zenon
<1>4. ASSUME NEW n \in Shard, WinElection(n) PROVE ReplicasOwnNothing'
  <2> DEFINE v == [view[n] EXCEPT !.epoch[n] = Newest(@, auth[n].epoch)]
  <2>1. n \in Nodes /\ v \in Views
    <3>1. n \in Nodes /\ view[n] \in Views /\ auth[n].epoch \in Nat
      BY <1>0, Zenon DEF Nodes, TypeOK
    <3>2. Newest(view[n].epoch[n], auth[n].epoch) \in Nat
      BY <3>1, NewestNat, Zenon DEF Views
    <3> QED BY <3>1, <3>2, Zenon DEF Views
  <2>2. view' = [view EXCEPT ![n] = clusterFailoverReplaceYourMaster(v, n)]
    BY <1>4, Zenon DEF WinElection
  <2> HIDE DEF v
  <2>3. Sound(clusterFailoverReplaceYourMaster(v, n), n)
    BY <2>1, ReplaceSound, Zenon
  <2> QED BY <2>1, <2>2, <2>3, TableChanges, Zenon
<1>5. ASSUME NEW n \in Nodes
      PROVE  Sound(clusterBumpConfigEpochWithoutConsensus(n).view, n)
             /\ clusterBumpConfigEpochWithoutConsensus(n).view \in Views
  <2>1. clusterBumpConfigEpochWithoutConsensus(n).view \in
            {view[n], [view[n] EXCEPT !.epoch[n] = currentEpoch[n] + 1]}
    BY Zenon DEF clusterBumpConfigEpochWithoutConsensus, State
  <2>2. Sound([view[n] EXCEPT !.epoch[n] = currentEpoch[n] + 1], n)
    BY <1>0, Zenon DEF Sound, Views
  <2> QED BY <1>0, <2>1, <2>2, BumpLearned, Zenon DEF Learned
<1>6. ASSUME NEW n \in Shard, Takeover(n) PROVE ReplicasOwnNothing'
  <2> DEFINE s == clusterBumpConfigEpochWithoutConsensus(n)
             v == clusterFailoverReplaceYourMaster(s.view, n)
  <2>1. n \in Nodes
    BY Zenon DEF Nodes
  <2>2. s = [currentEpoch |-> s.currentEpoch, view |-> s.view, saves |-> s.saves]
    BY Zenon DEF clusterBumpConfigEpochWithoutConsensus, State
  <2>3. view' = [view EXCEPT ![n] = [s EXCEPT !.view = v].view]
    BY <1>6, Zenon DEF Takeover, Order
  <2>4. s.view \in Views
    BY <1>5, <2>1, Zenon
  <2> HIDE DEF s
  <2>5. Sound(v, n)
    BY <2>1, <2>4, ReplaceSound, Zenon
  <2>6. view' = [view EXCEPT ![n] = v]
    BY <2>2, <2>3, Zenon
  <2> HIDE DEF v
  <2> QED BY <2>1, <2>5, <2>6, TableChanges, Zenon
<1>7. ASSUME NEW n \in Nodes, BumpEpoch(n) PROVE ReplicasOwnNothing'
  BY <1>5, <1>7, TableChanges, Zenon DEF BumpEpoch, Order
<1>8. ASSUME NEW x \in Shard, markNodeAsFailing(x) \/ ClearOldFailure(x)
      PROVE  ReplicasOwnNothing'
  <2>1. ASSUME NEW n \in Nodes
        PROVE  view'[n].owner = view[n].owner /\ view'[n].slaveof = view[n].slaveof
    BY <1>0, <1>8 DEF markNodeAsFailing, ClearOldFailure, FlagAt, Views
  <2> QED BY <2>1, Zenon DEF ReplicasOwnNothing, IsMaster
<1>9. ASSUME NEW n \in Shard,
             \/ ScheduleElection(n) \/ StartElection(n) \/ ElectionExpires(n)
             \/ LoseMaster(n) \/ ReachAgain(n)
      PROVE  ReplicasOwnNothing'
  BY <1>1, <1>9, Zenon DEF ScheduleElection, StartElection, ElectionExpires,
     LoseMaster, ReachAgain
<1>10. ASSUME NEW n \in Nodes, Restart(n) PROVE ReplicasOwnNothing'
  BY <1>10, TableChanges, Zenon DEF Restart, SavedSound
<1>12. ASSUME NEW n \in Nodes, clusterBeforeSleep(n) PROVE ReplicasOwnNothing'
  BY <1>1, <1>12, Zenon DEF clusterBeforeSleep
<1>11. CASE UNCHANGED vars
  BY <1>1, <1>11, Zenon DEF vars
<1> QED BY <1>2, <1>3, <1>4, <1>6, <1>7, <1>8, <1>9, <1>10, <1>11, <1>12,
           Zenon DEF Next

(* What is saved is as sound as what is in memory. *)
LEMMA SavedStep ==
  ASSUME TypeOK, SavedSound, [Next]_vars, ReplicasOwnNothing'
  PROVE  SavedSound'
<1>1. ASSUME NEW n \in Nodes, clusterSaveConfig(n) PROVE SavedSound'
  <2>1. view'[n] \in Views /\ Sound(view'[n], n)
    BY TypeStep, Zenon DEF TypeOK, ReplicasOwnNothing, Sound, IsMaster
  <2>2. Sound([view'[n] EXCEPT !.unclaimed = FALSE], n)
    BY <2>1, Zenon DEF Sound, Views
  <2>3. /\ saved'[n].view = [view'[n] EXCEPT !.unclaimed = FALSE]
        /\ \A x \in Nodes : x # n => saved'[x] = saved[x]
    BY <1>1, Zenon DEF clusterSaveConfig, TypeOK
  <2> QED BY <2>2, <2>3, Zenon DEF SavedSound
<1>2. saved' = saved \/ \E n \in Nodes : clusterSaveConfig(n)
  BY TypeStep, VoteChanges, Zenon DEF Kind, Bookkeeping, conf,
     clusterDoBeforeSleep, Restart
<1> QED BY <1>1, <1>2, Zenon DEF SavedSound

\* A node that owns slots in its own table is a master there, so the
\* assertion of clusterSetMaster() that a new replica owns none never fails.
THEOREM OwnersAreMasters == Spec => []ReplicasOwnNothing
<1>1. ASSUME Init PROVE ReplicasOwnNothing /\ SavedSound
  <2>1. ASSUME NEW n \in Nodes PROVE Sound(view[n], n)
    <3>1. view[n].owner = FirstMaster /\ view[n].slaveof = FirstView.slaveof
      BY <1>1, Zenon DEF Init, FirstView
    <3>2. FirstView.slaveof[n] = IF n \in Shard THEN FirstMaster ELSE n
      BY Zenon DEF FirstView
    <3> QED BY <3>1, <3>2, Zenon DEF Sound
  <2>2. \A n \in Nodes : saved[n].view = view[n]
    BY <1>1, Zenon DEF Init
  <2> QED BY <2>1, <2>2, Zenon DEF ReplicasOwnNothing, SavedSound, Sound, IsMaster
<1>2. TypeOK /\ ReplicasOwnNothing /\ SavedSound /\ [Next]_vars
        => (ReplicasOwnNothing /\ SavedSound)'
  BY OwnerStep, SavedStep, Zenon
<1> QED BY <1>1, <1>2, TypeCorrect, PTL DEF Spec
=============================================================================
