------------------------- MODULE PartialResyncSteps -------------------------
(***************************************************************************)
(* The handlers of PartialResync that ask for, grant, start and serve a    *)
(* synchronization keep the invariant of PartialResyncInvariant.           *)
(***************************************************************************)
EXTENDS PartialResyncInvariant


(* A step that changes nothing of a server's history: its connection only. *)
SameHistory(v, v2) ==
    /\ v2.host = v.host /\ v2.data = v.data /\ v2.offset = v.offset /\ v2.backlog = v.backlog
    /\ v2.replid = v.replid /\ v2.replid2 = v.replid2 /\ v2.second = v.second
    /\ v2.bgsave = v.bgsave \/ v2.bgsave = <<>>

(* A replica that changes only how it is connected keeps the invariant. *)
LEMMA QuietStep ==
    ASSUME NEW w, NEW n \in Nat, Inv(w, n), NEW w2, Shaped(w2), w2.ids = w.ids,
           w2.disk = w.disk, NEW r \in Servers, OthersStay(w, w2, r), TargetsOk(w2),
           SameHistory(w.srv[r], w2.srv[r]), ServerRole(w2.srv[r]),
           w2.srv[r].state \in {"none", "connect", "psync", "transfer", "connected"},
           w2.srv[r].master \in Marks, w2.srv[r].cached \in Marks, w2.srv[r].initial \in Marks,
           Known(w2.srv[r]) <=> Known(w.srv[r]),
           Alone(w2.srv[r]) => Alone(w.srv[r]) /\ w2.link[r].answer.type # "continue",
           LinkOk(w2.srv[r], w2.link[r]), StaysSlave(w, w2, r), w2.link[r].to # r,
           Arriving(w2.srv[r], w2.link[r]) =>
               /\ Arriving(w.srv[r], w.link[r])
               /\ Coming(w2.srv[r], w2.link[r]) = Coming(w.srv[r], w.link[r])
    PROVE  Inv(w2, n)
  <1> DEFINE v  == w.srv[r]
             v2 == w2.srv[r]
  <1>1. /\ Shaped(w) /\ w.ids \in Nat /\ ServerOk(v, r, w.ids, n)
    BY InvFacts, Zenon
  <1>2. w.ids <= w2.ids
    BY <1>1
  <1>3. SlavesStay(w, w2, r)
    BY <1>2, SlavesStayIf, Zenon DEF SameHistory, HasBacklog, Here
  <1>4. SameHistory(v, v2) /\ ServerRole(v2) /\ (Known(v2) <=> Known(v))
    BY Zenon
  <1>5. /\ v2.state \in {"none", "connect", "psync", "transfer", "connected"}
        /\ v2.master \in Marks /\ v2.cached \in Marks /\ v2.initial \in Marks
    BY Zenon
  <1>6. MasterKept(w, w2, r, r)
    <2>1. v.offset <= v2.offset
      BY <1>1, <1>4, ServerNumbers DEF SameHistory
    <2> QED BY <1>4, <2>1, Zenon DEF MasterKept, StaysMaster, SameHistory
  <1>7. AloneKept(w, w2, r)
    BY <1>4, Zenon DEF AloneKept, StaysAlone, SameHistory
  <1>8. PointsFrom(w, w2, r, {}) /\ OwnEnd(w, w2, r, {})
    <2> SUFFICES ASSUME NEW p, Point(w2, r, p)
                 PROVE  Point(w, r, p)
      BY OldPoint, NoEnd, Zenon DEF PointsFrom
    <2>1. Here(v2) = Here(v) /\ Second(v2) = Second(v) /\ (HasSecond(v2) <=> HasSecond(v))
      BY <1>4, Zenon DEF Here, Second, HasSecond, SameHistory
    <2> QED BY <1>4, <2>1, Zenon DEF Point, IsPoint, SameHistory
  <1>9. ServerOk(v2, r, w2.ids, n)
    <2> HIDE DEF v, v2
    <2>1. ServerTypes(v2, r, w2.ids, n)
      BY <1>1, <1>4, <1>5, Zenon DEF ServerOk, ServerTypes, SameHistory
    <2>2. ServerLog(v2)
      BY <1>1, <1>4, Zenon DEF ServerOk, ServerLog, HasSecond, SameHistory
    <2> QED BY <1>4, <2>1, <2>2, Zenon DEF ServerOk
  <1> QED BY <1>2, <1>3, <1>6, <1>7, <1>8, <1>9, StepOfOne, Zenon

(* The connection of a replica is dropped; its master is cached. *)
LEMMA DropKeeps ==
    ASSUME NEW w, NEW n \in Nat, Inv(w, n), NEW r \in Servers
    PROVE  Inv(cancelReplicationHandshake(replicationCacheMaster(w, r), r), n)
  <1> DEFINE c  == replicationCacheMaster(w, r)
             w2 == cancelReplicationHandshake(c, r)
             v  == w.srv[r]
             v2 == w2.srv[r]
  <1>1. Shaped(w) /\ w.ids \in Nat /\ ServerOk(v, r, w.ids, n) /\ LinkOk(v, w.link[r])
    BY InvFacts, Zenon
  <1>2. /\ Only(w, c, r, {"cached", "master", "state"}) /\ c.ids = w.ids
        /\ \A t \in Servers \ {r} : c.link[t] = w.link[t]
        /\ c.srv[r].master = NoMaster
        /\ IF v.master = NoMaster
           THEN c.srv[r].cached = v.cached /\ c.srv[r].state = v.state /\ c.link[r] = w.link[r]
           ELSE c.srv[r].cached = v.master /\ c.srv[r].state = "connect" /\ c.link[r] = NoLink
    BY <1>1, CacheEffect
  <1> HIDE DEF c
  <1>3. /\ Only(c, w2, r, {"state"}) /\ w2.ids = c.ids
        /\ \A t \in Servers \ {r} : w2.link[t] = c.link[t]
        /\ IF c.srv[r].state \in {"psync", "transfer"}
           THEN v2.state = "connect" /\ w2.link[r] = NoLink
           ELSE v2.state = c.srv[r].state /\ w2.link[r] = c.link[r]
    BY <1>2, CancelEffect DEF Only
  <1> HIDE DEF w2
  <1>4. /\ v2.host = v.host /\ v2.data = v.data /\ v2.offset = v.offset /\ v2.backlog = v.backlog
        /\ v2.replid = v.replid /\ v2.replid2 = v.replid2 /\ v2.second = v.second
        /\ v2.initial = v.initial /\ v2.bgsave = v.bgsave
        /\ v2.failover = v.failover /\ v2.target = v.target /\ v2.force = v.force
        /\ v2.master = NoMaster
        /\ v2.cached = IF v.master = NoMaster THEN v.cached ELSE v.master
    BY <1>2, <1>3 DEF Only, Fields, Core
  <1>5. /\ Shaped(w2) /\ w2.disk = w.disk /\ w2.ids = w.ids
        /\ \A t \in Servers \ {r} : w2.srv[t] = w.srv[t] /\ w2.link[t] = w.link[t]
    BY <1>2, <1>3, Zenon DEF Only
  <1>6. OthersStay(w, w2, r) /\ TargetsOk(w2)
    BY <1>4, <1>5, ClosedStay, TargetsKept
  <1>7. /\ v2.state \in {"none", "connect"} /\ (v2.state = "none" <=> v.state = "none")
        /\ w2.link[r] = NoLink
    BY <1>1, <1>2, <1>3, Zenon DEF LinkOk, ServerOk, ServerTypes, ServerRole
  <1> HIDE DEF v, v2
  <1>8. /\ SameHistory(v, v2) /\ ServerRole(v2) /\ (Known(v2) <=> Known(v))
        /\ Alone(v2) => Alone(v)
    BY <1>1, <1>4, <1>7, Zenon DEF SameHistory, ServerOk, ServerRole, Known, Alone
  <1>9. v2.master \in Marks /\ v2.cached \in Marks /\ v2.initial \in Marks
    BY <1>1, <1>4, NoLinkIsALink, Zenon DEF ServerOk, ServerTypes
  <1>10. /\ ~Arriving(v2, w2.link[r]) /\ w2.link[r].answer.type = "none" /\ w2.link[r].to # r
         /\ LinkOk(v2, w2.link[r]) /\ StaysSlave(w, w2, r)
    BY <1>7, NoLinkIsALink, NoLinkNoSlave, BoundsAssumption, Zenon DEF Arriving, LinkOk
  <1>11. Inv(w2, n)
    BY <1>5, <1>6, <1>7, <1>8, <1>9, <1>10, QuietStep, Zenon DEF v, v2
  <1> QED BY <1>11, Zenon DEF w2, c


LinkAt(w, r, l) == [w EXCEPT !.link[r] = l]

(* Changing one connection changes nothing else. *)
LEMMA LinkAtEffect ==
    ASSUME NEW w, Shaped(w), NEW r \in Servers, NEW l \in Links, NEW w2, w2 = LinkAt(w, r, l)
    PROVE  /\ Shaped(w2) /\ w2.srv = w.srv /\ w2.disk = w.disk /\ w2.ids = w.ids
           /\ w2.link[r] = l /\ \A t \in Servers \ {r} : w2.link[t] = w.link[t]
  <1>1. w2 = [w EXCEPT !.link = [w.link EXCEPT ![r] = l]]
    BY Zenon DEF Shaped, LinkAt
  <1>2. [w.link EXCEPT ![r] = l] \in [Servers -> Links]
    BY Zenon DEF Shaped
  <1> QED BY <1>1, <1>2, LinkEffect DEF Shaped

Phase(phase) == phase \in {"none", "start", "end", "online"}

(* Sending an answer changes one connection. *)
LEMMA SendEffect ==
    ASSUME NEW w, Shaped(w), NEW r \in Servers, NEW phase, Phase(phase),
           NEW answer \in Answers, NEW stream \in Data,
           NEW w2, w2 = Send(w, r, phase, answer, stream)
    PROVE  /\ Shaped(w2) /\ w2.srv = w.srv /\ w2.disk = w.disk /\ w2.ids = w.ids
           /\ \A t \in Servers \ {r} : w2.link[t] = w.link[t]
           /\ w2.link[r].to = w.link[r].to /\ w2.link[r].closed = w.link[r].closed
           /\ w2.link[r].phase = phase /\ w2.link[r].answer = answer /\ w2.link[r].stream = stream
  <1> DEFINE l == [w.link[r] EXCEPT !.phase = phase, !.answer = answer, !.stream = stream]
  <1>1. w.link[r] \in Links
    BY Zenon DEF Shaped
  <1>2. /\ l \in Links /\ l.to = w.link[r].to /\ l.closed = w.link[r].closed
        /\ l.phase = phase /\ l.answer = answer /\ l.stream = stream
    BY <1>1, Zenon DEF Links, Phase
  <1>3. w2 = LinkAt(w, r, l)
    BY Zenon DEF Send, LinkAt
  <1> HIDE DEF l
  <1> QED BY <1>2, <1>3, LinkAtEffect

(* The master answers a request. *)
Requests(w, r) ==
    /\ w.srv[r].state = "psync" /\ w.link[r].answer.type = "none" /\ w.link[r].phase = "none"
    /\ ~w.link[r].closed

(* An error is sent to a replica that has asked. *)
LEMMA SendErrorKeeps ==
    ASSUME NEW w, NEW n \in Nat, Inv(w, n), NEW r \in Servers, Requests(w, r)
    PROVE  Inv(Send(w, r, "none", ReplError, <<>>), n)
  <1> DEFINE w2 == Send(w, r, "none", ReplError, <<>>)
             v  == w.srv[r]
  <1>1. /\ Shaped(w) /\ w.ids \in Nat /\ ServerOk(v, r, w.ids, n) /\ LinkOk(v, w.link[r])
        /\ w.link[r].to # r /\ v.state = "psync"
    BY InvFacts, LinkIsNotOwn, Zenon DEF Requests
  <1>2. /\ Shaped(w2) /\ w2.srv = w.srv /\ w2.disk = w.disk /\ w2.ids = w.ids
        /\ \A t \in Servers \ {r} : w2.link[t] = w.link[t]
        /\ w2.link[r].to = w.link[r].to /\ w2.link[r].phase = "none"
        /\ w2.link[r].answer.type = "error" /\ w2.link[r].stream = <<>>
    <2>1. ReplError \in Answers /\ ReplError.type = "error" /\ <<>> \in Data
      BY AnswersAreAnswers, Zenon
    <2> HIDE DEF w2
    <2>2. w2 = Send(w, r, "none", ReplError, <<>>) /\ Phase("none")
      BY Zenon DEF w2, Phase
    <2> QED BY <1>1, <2>1, <2>2, SendEffect
  <1> HIDE DEF w2
  <1>3. OthersStay(w, w2, r) /\ TargetsOk(w2)
    BY <1>2, ClosedStay, TargetsKept, Zenon
  <1>4. SameHistory(v, v) /\ ServerRole(v) /\ v.master \in Marks /\ v.cached \in Marks
        /\ v.initial \in Marks
    BY <1>1, Zenon DEF SameHistory, ServerOk, ServerTypes
  <1>5. LinkOk(v, w2.link[r])
    BY <1>1, <1>2, Zenon DEF LinkOk
  <1>6. StaysSlave(w, w2, r)
    BY <1>2, Zenon DEF StaysSlave, Slaves
  <1>7. ~Arriving(v, w2.link[r])
    BY <1>2, Zenon DEF Arriving
  <1>8. Inv(w2, n)
    BY <1>1, <1>2, <1>3, <1>4, <1>5, <1>6, <1>7, QuietStep, Zenon
  <1> QED BY <1>8, Zenon DEF w2

(* A slave that is to wait for a snapshot. *)
LEMMA StartKeeps ==
    ASSUME NEW w, NEW n \in Nat, Inv(w, n), NEW r \in Servers, Requests(w, r),
           HasBacklog(w, w.link[r].to), NEW w2, Shaped(w2), w2.ids = w.ids, w2.disk = w.disk,
           OthersStay(w, w2, r), TargetsOk(w2), \A i \in Core : w2.srv[r][i] = w.srv[r][i],
           w2.link[r].to = w.link[r].to, w2.link[r].phase = "start",
           w2.link[r].answer.type = "none", w2.link[r].stream = <<>>
    PROVE  Inv(w2, n)
  <1> DEFINE v  == w.srv[r]
             v2 == w2.srv[r]
  <1>1. /\ Shaped(w) /\ w.ids \in Nat /\ ServerOk(v, r, w.ids, n) /\ LinkOk(v, w.link[r])
        /\ w.link[r].to # r /\ v.state = "psync"
    BY InvFacts, LinkIsNotOwn, Zenon DEF Requests
  <1>2. /\ v2.host = v.host /\ v2.state = v.state /\ v2.data = v.data /\ v2.replid = v.replid
        /\ v2.replid2 = v.replid2 /\ v2.second = v.second /\ v2.offset = v.offset
        /\ v2.backlog = v.backlog /\ v2.master = v.master /\ v2.cached = v.cached
        /\ v2.initial = v.initial /\ v2.bgsave = v.bgsave
    BY CoreSame, Zenon
  <1> HIDE DEF v, v2
  <1>3. SameHistory(v, v2) /\ ServerRole(v2) /\ v2.master \in Marks /\ v2.cached \in Marks
        /\ v2.initial \in Marks
    BY <1>1, <1>2, Zenon DEF SameHistory, ServerOk, ServerTypes, ServerRole
  <1>4. LinkOk(v2, w2.link[r])
    BY <1>1, <1>2, Zenon DEF LinkOk
  <1>5. StaysSlave(w, w2, r)
    BY Zenon DEF StaysSlave, Slaves
  <1>6. ~Arriving(v2, w2.link[r]) /\ (Known(v2) <=> Known(v)) /\ (Alone(v2) <=> Alone(v))
    BY <1>1, <1>2, Zenon DEF Arriving, Known, Alone
  <1> QED BY <1>1, <1>2, <1>3, <1>4, <1>5, <1>6, QuietStep, Zenon DEF v, v2

(* A slave waits for a snapshot of a master with a backlog. *)
LEMMA SendStartKeeps ==
    ASSUME NEW w, NEW n \in Nat, Inv(w, n), NEW r \in Servers, Requests(w, r),
           HasBacklog(w, w.link[r].to)
    PROVE  Inv(Send(w, r, "start", NoAnswer, <<>>), n)
  <1> DEFINE w2 == Send(w, r, "start", NoAnswer, <<>>)
  <1>1. Shaped(w)
    BY InvFacts, Zenon
  <1>2. /\ Shaped(w2) /\ w2.srv = w.srv /\ w2.disk = w.disk /\ w2.ids = w.ids
        /\ \A t \in Servers \ {r} : w2.link[t] = w.link[t]
        /\ w2.link[r].to = w.link[r].to /\ w2.link[r].phase = "start"
        /\ w2.link[r].answer.type = "none" /\ w2.link[r].stream = <<>>
    <2>1. NoAnswer \in Answers /\ NoAnswer.type = "none" /\ <<>> \in Data
      BY AnswersAreAnswers, NoLinkIsALink, Zenon
    <2> HIDE DEF w2
    <2>2. w2 = Send(w, r, "start", NoAnswer, <<>>) /\ Phase("start")
      BY Zenon DEF w2, Phase
    <2> QED BY <1>1, <2>1, <2>2, SendEffect
  <1> HIDE DEF w2
  <1>3. OthersStay(w, w2, r) /\ TargetsOk(w2)
    BY <1>2, ClosedStay, TargetsKept, Zenon
  <1>4. Inv(w2, n)
    BY <1>2, <1>3, StartKeeps, Zenon
  <1> QED BY <1>4, Zenon DEF w2

(* The replica connects and sends its request. *)
Ask(w, r) == [Set(w, r, [state |-> "psync", initial |-> NoMaster]) EXCEPT
                 !.link[r] = [NoLink EXCEPT !.to = w.srv[r].host]]

(* What sending PSYNC changes. *)
LEMMA AskEffect ==
    ASSUME NEW w, Shaped(w), NEW r \in Servers, w.srv[r].host \in Servers, NEW w2, w2 = Ask(w, r)
    PROVE  /\ Only(w, w2, r, {"state", "initial"}) /\ w2.ids = w.ids
           /\ w2.srv[r].state = "psync" /\ w2.srv[r].initial = NoMaster
           /\ \A t \in Servers \ {r} : w2.link[t] = w.link[t]
           /\ w2.link[r].to = w.srv[r].host /\ w2.link[r].phase = "none"
           /\ w2.link[r].answer = NoAnswer /\ w2.link[r].stream = <<>> /\ ~w2.link[r].closed
  <1> DEFINE f == [state |-> "psync", initial |-> NoMaster]
             c == Set(w, r, f)
             l == [NoLink EXCEPT !.to = w.srv[r].host]
  <1>1. /\ DOMAIN f = {"state", "initial"} /\ {"state", "initial"} \subseteq Fields
        /\ f.state = "psync" /\ f.initial = NoMaster
    BY Zenon DEF Fields, Core
  <1>2. /\ l \in Links /\ l.to = w.srv[r].host /\ l.phase = "none" /\ l.answer = NoAnswer
        /\ l.stream = <<>> /\ ~l.closed
    BY NoLinkIsALink, Zenon DEF Links, NoLink
  <1>3. w2 = LinkAt(c, r, l)
    BY Zenon DEF Ask, LinkAt
  <1> HIDE DEF f, l
  <1>4. /\ Only(w, c, r, {"state", "initial"}) /\ c.link = w.link /\ c.ids = w.ids
        /\ c.srv[r].state = "psync" /\ c.srv[r].initial = NoMaster
    BY <1>1, SetOnly
  <1> HIDE DEF c
  <1>5. /\ Shaped(w2) /\ w2.srv = c.srv /\ w2.disk = c.disk /\ w2.ids = c.ids
        /\ w2.link[r] = l /\ \A t \in Servers \ {r} : w2.link[t] = c.link[t]
    BY <1>2, <1>3, <1>4, LinkAtEffect DEF Only
  <1> QED BY <1>2, <1>4, <1>5, Zenon DEF Only

(* Sending PSYNC keeps the invariant. *)
LEMMA AskKeeps ==
    ASSUME NEW w, NEW n \in Nat, Inv(w, n), NEW r \in Servers, w.srv[r].state = "connect"
    PROVE  /\ Inv(Ask(w, r), n) /\ Requests(Ask(w, r), r)
           /\ Ask(w, r).link[r].to = w.srv[r].host /\ w.srv[r].host \in Servers \ {r}
           /\ Only(w, Ask(w, r), r, {"state", "initial"})
           /\ \A t \in Servers \ {r} : Ask(w, r).link[t] = w.link[t]
  <1> DEFINE w2 == Ask(w, r)
             v  == w.srv[r]
             v2 == w2.srv[r]
  <1>1. /\ Shaped(w) /\ w.ids \in Nat /\ ServerOk(v, r, w.ids, n) /\ v.host \in Servers \ {r}
    BY InvFacts, Zenon DEF ServerOk, ServerTypes, ServerRole
  <1>2. /\ Only(w, w2, r, {"state", "initial"}) /\ w2.ids = w.ids
        /\ v2.state = "psync" /\ v2.initial = NoMaster
        /\ \A t \in Servers \ {r} : w2.link[t] = w.link[t]
        /\ w2.link[r].to = v.host /\ w2.link[r].phase = "none"
        /\ w2.link[r].answer = NoAnswer /\ w2.link[r].stream = <<>> /\ ~w2.link[r].closed
    BY <1>1, AskEffect, Zenon
  <1> HIDE DEF w2
  <1>3. /\ v2.host = v.host /\ v2.data = v.data /\ v2.offset = v.offset /\ v2.backlog = v.backlog
        /\ v2.replid = v.replid /\ v2.replid2 = v.replid2 /\ v2.second = v.second
        /\ v2.master = v.master /\ v2.cached = v.cached /\ v2.bgsave = v.bgsave
        /\ v2.failover = v.failover /\ v2.target = v.target /\ v2.force = v.force
    BY <1>2, Zenon DEF Only, Fields, Core
  <1>4. Shaped(w2) /\ w2.disk = w.disk /\ \A t \in Servers \ {r} : w2.srv[t] = w.srv[t]
    BY <1>2, Zenon DEF Only
  <1>5. OthersStay(w, w2, r) /\ TargetsOk(w2)
    BY <1>2, <1>3, <1>4, ClosedStay, TargetsKept
  <1>6. w2.link[r].answer.type = "none"
    BY <1>2, AnswersAreAnswers, Zenon
  <1>7. /\ LinkOk(v2, w2.link[r]) /\ ~Arriving(v2, w2.link[r]) /\ StaysSlave(w, w2, r)
        /\ w2.link[r].to # r /\ Requests(w2, r)
    BY <1>1, <1>2, <1>3, <1>6, Zenon DEF LinkOk, Arriving, StaysSlave, Slaves, Requests
  <1> HIDE DEF v, v2
  <1>8. /\ SameHistory(v, v2) /\ ServerRole(v2) /\ (Known(v2) <=> Known(v))
        /\ Alone(v2) => Alone(v)
    BY <1>1, <1>2, <1>3, Zenon DEF SameHistory, ServerOk, ServerRole, Known, Alone, v
  <1>9. v2.master \in Marks /\ v2.cached \in Marks /\ v2.initial \in Marks
    BY <1>1, <1>2, <1>3, NoLinkIsALink, Zenon DEF ServerOk, ServerTypes
  <1>10. Inv(w2, n)
    BY <1>2, <1>4, <1>5, <1>6, <1>7, <1>8, <1>9, QuietStep, Zenon DEF v, v2
  <1> QED BY <1>1, <1>2, <1>7, <1>10, Zenon DEF w2, v


(* A slave whose stream leads it to its master's place. *)
Fed(phase) == phase \in {"end", "online"}

Leads(v, l, s) == LinkOk(v, l) /\ Coming(v, l) = Here(s)

(* A slave that is sent what leads it to its master's place keeps the invariant. *)
LEMMA AttachKeeps ==
    ASSUME NEW w, NEW n \in Nat, Inv(w, n), NEW r \in Servers, NEW m \in Servers,
           w.srv[r].state = "psync", w.link[r].to = m, HasBacklog(w, m),
           NEW phase, Fed(phase), NEW x \in Answers, NEW d \in Data,
           x.type \in {"fullresync", "continue"},
           Leads(w.srv[r], Send(w, r, phase, x, d).link[r], w.srv[m]),
           phase = "end" => x.type = "fullresync",
           x.type = "continue" => ~Alone(w.srv[r])
    PROVE  Inv(Send(w, r, phase, x, d), n)
  <1> DEFINE w2 == Send(w, r, phase, x, d)
             v  == w.srv[r]
  <1>1. /\ Shaped(w) /\ w.ids \in Nat /\ ServerOk(v, r, w.ids, n) /\ m # r /\ w.ids <= w.ids
    BY InvFacts, LinkIsNotOwn
  <1>2. /\ Shaped(w2) /\ w2.srv = w.srv /\ w2.disk = w.disk /\ w2.ids = w.ids
        /\ \A t \in Servers \ {r} : w2.link[t] = w.link[t]
        /\ w2.link[r].to = m /\ w2.link[r].phase = phase
        /\ w2.link[r].answer = x
    <2> HIDE DEF w2
    <2>1. w2 = Send(w, r, phase, x, d) /\ Phase(phase)
      BY Zenon DEF w2, Phase, Fed
    <2>2. /\ Shaped(w2) /\ w2.srv = w.srv /\ w2.disk = w.disk /\ w2.ids = w.ids
          /\ \A t \in Servers \ {r} : w2.link[t] = w.link[t]
          /\ w2.link[r].to = w.link[r].to /\ w2.link[r].phase = phase
          /\ w2.link[r].answer = x
      BY <1>1, <2>1, SendEffect
    <2> QED BY <2>2, Zenon
  <1>3. LinkOk(v, w2.link[r]) /\ Coming(v, w2.link[r]) = Here(w.srv[m])
    BY Zenon DEF Leads
  <1> HIDE DEF w2
  <1>4. OthersStay(w, w2, r) /\ TargetsOk(w2)
    BY <1>2, ClosedStay, TargetsKept, Zenon
  <1>5. StaysSlave(w, w2, r)
    BY <1>2, <1>3, Zenon DEF StaysSlave, Slaves, Fed
  <1>6. SlavesStay(w, w2, r)
    BY <1>1, <1>2, <1>4, SlavesStayIf, Zenon DEF HasBacklog
  <1>7. Point(w, m, Here(w.srv[m])) /\ Here(w.srv[m]).id = w.srv[m].replid
    <2>1. ServerOk(w.srv[m], m, w.ids, n)
      BY InvFacts, Zenon
    <2>2. Known(w.srv[m])
      BY <2>1, Zenon DEF ServerOk, ServerLog, HasBacklog
    <2> QED BY <2>2, PlaceIsKnown, Zenon
  <1>8. PointsFrom(w, w2, r, {})
    <2> SUFFICES ASSUME NEW p, Point(w2, r, p)
                 PROVE  Point(w, r, p) \/ Point(w, m, p)
      BY OldPoint, Zenon DEF PointsFrom
    <2> QED BY <1>2, <1>3, <1>7, Zenon DEF Point, IsPoint
  <1>9. AloneKept(w, w2, r)
    BY <1>1, <1>2, <1>3, <1>7, Zenon DEF AloneKept, StaysAlone
  <1>10. MasterKept(w, w2, r, r)
    <2>1. w.srv[r].offset \in Nat
      BY <1>1, ServerNumbers, Zenon
    <2>2. w.srv[r].offset <= w2.srv[r].offset
      BY <1>2, <2>1
    <2> QED BY <1>2, <2>2, Zenon DEF MasterKept, StaysMaster
  <1>11. Inv(w2, n)
    BY <1>1, <1>2, <1>3, <1>4, <1>5, <1>6, <1>8, <1>9, <1>10, NoEnd, StepOfOne, Zenon
  <1> QED BY <1>11, Zenon DEF w2


(* The stream behind +CONTINUE. *)
Rest(D, j, i) == LastWrites(D, j - (i + 1) + 1)

Recent(D, j, d, i) == D \in Data /\ d \in Data /\ i \in Nat /\ j \in Nat /\ IsPast(D, j, d, i)

Completes(D, j, d, i, L) == L \in Data /\ d \o L = D /\ i + Len(L) = j

(* The end of the backlog completes an earlier data set. *)
LEMMA RestCompletes ==
    ASSUME NEW D, NEW j, NEW d, NEW i, Recent(D, j, d, i)
    PROVE  Completes(D, j, d, i, Rest(D, j, i))
  <1> DEFINE k == Len(D) - (j - i)
  <1>1. /\ D \in Data /\ d \in Data /\ i \in Nat /\ j \in Nat /\ Len(D) \in Nat
        /\ j - i \in 0 .. Len(D) /\ d = SubSeq(D, 1, k)
    BY DataFacts, Zenon DEF Recent, IsPast
  <1>2. k \in 0 .. Len(D) /\ Len(D) - (j - (i + 1) + 1) + 1 = k + 1 /\ i + (Len(D) - k) = j
    BY <1>1
  <1>3. Rest(D, j, i) = SubSeq(D, k + 1, Len(D))
    BY <1>2, Zenon DEF Rest, LastWrites
  <1> HIDE DEF k
  <1>4. /\ SubSeq(D, k + 1, Len(D)) \in Data /\ Len(SubSeq(D, k + 1, Len(D))) = Len(D) - k
        /\ SubSeq(D, 1, k) \o SubSeq(D, k + 1, Len(D)) = D
    BY <1>1, <1>2, Prefixes, Zenon
  <1> QED BY <1>1, <1>2, <1>3, <1>4, Zenon DEF Completes

(* +CONTINUE, with what the replica lacks. *)
LEMMA GrantKeeps ==
    ASSUME NEW w, NEW n \in Nat, Inv(w, n), NEW r \in Servers, Requests(w, r),
           NEW m \in Servers, w.link[r].to = m,
           Granted(w.srv[m], w.srv[r].cached.id, w.srv[r].cached.off)
    PROVE  Inv(Send(w, r, "online", ReplContinue(w.srv[m].replid),
                    Rest(w.srv[m].data, w.srv[m].offset, w.srv[r].cached.off)), n)
  <1> DEFINE v == w.srv[r]
             s == w.srv[m]
             p == Here(v)
             d == Rest(s.data, s.offset, v.cached.off)
             x == ReplContinue(s.replid)
             w2 == Send(w, r, "online", x, d)
  <1>1. /\ Shaped(w) /\ w.ids \in Nat /\ ServerOk(v, r, w.ids, n) /\ ServerOk(s, m, w.ids, n)
        /\ LinkOk(v, w.link[r]) /\ m # r /\ v.state = "psync" /\ Private(w)
    BY InvFacts, LinkIsNotOwn, Zenon DEF Requests, Histories
  <1>2. /\ s.offset \in Nat /\ s.data \in Data /\ s.replid \in Nat \ {0}
        /\ v.offset \in Nat /\ v.data \in Data
    BY <1>1, ServerNumbers, Zenon
  <1>3. v.cached # NoMaster
    <2> SUFFICES ASSUME v.cached = NoMaster PROVE FALSE
      BY Zenon
    <2>1. v.cached.id = 0 /\ v.cached.off + 1 = 0
      BY DEF NoMaster, NoId
    <2>2. s.replid2 = 0 /\ 0 <= s.second
      BY <1>2, <2>1, Zenon DEF Granted, IdAccepted
    <2>3. s.second = -1
      BY <1>1, <2>2, Zenon DEF ServerOk, ServerLog, NoId
    <2> QED BY <2>2, <2>3
  <1>4. v.cached.id = v.replid /\ v.cached.off = v.offset /\ Known(v)
    BY <1>1, <1>3 DEF ServerOk, ServerRole, Known
  <1>5. p.id = v.replid /\ p.off = v.offset /\ p.data = v.data /\ Point(w, r, p)
    BY <1>4, PlaceIsKnown, Zenon DEF Here, Pt
  <1> HIDE DEF p
  <1>6. /\ HasBacklog(w, m) /\ IsPast(s.data, s.offset, v.data, v.offset)
        /\ \E q : Point(w, m, q) /\ q.id = v.replid
    <2>1. Granted(s, p.id, p.off)
      BY <1>4, <1>5, Zenon
    <2>2. /\ HasBacklog(w, m) /\ s.offset - p.off \in 0 .. Len(s.data)
          /\ p.data = SubSeq(s.data, 1, Len(s.data) - (s.offset - p.off))
          /\ \E q : Point(w, m, q) /\ q.id = p.id
      BY <1>5, <2>1, GrantIsSafe
    <2> QED BY <1>5, <2>2, Zenon DEF IsPast
  <1>7. ~Alone(v)
    BY <1>1, <1>6, Zenon DEF Private
  <1>8. Completes(s.data, s.offset, v.data, v.offset, d)
    <2>1. Recent(s.data, s.offset, v.data, v.offset)
      BY <1>2, <1>6, Zenon DEF Recent
    <2>2. d = Rest(s.data, s.offset, v.offset)
      BY <1>4, Zenon
    <2> HIDE DEF d
    <2> QED BY <2>1, <2>2, RestCompletes, Zenon
  <1> HIDE DEF d
  <1>9. d \in Data /\ v.data \o d = s.data /\ v.offset + Len(d) = s.offset
    BY <1>8, Zenon DEF Completes
  <1>10. x \in Answers /\ x.type = "continue" /\ x.id = s.replid
    BY <1>2, AnswersAreAnswers, Zenon
  <1> HIDE DEF x
  <1>11. /\ w2.link[r].to = m /\ w2.link[r].phase = "online" /\ w2.link[r].answer = x
         /\ w2.link[r].stream = d
    <2>1. w2 = Send(w, r, "online", x, d) /\ Phase("online")
      BY Zenon DEF Phase
    <2> HIDE DEF w2
    <2>2. w2.link[r].to = w.link[r].to /\ w2.link[r].phase = "online" /\ w2.link[r].answer = x
          /\ w2.link[r].stream = d
      BY <1>1, <1>9, <1>10, <2>1, SendEffect
    <2> QED BY <2>2, Zenon
  <1>12. Leads(v, w2.link[r], s)
    <2> HIDE DEF w2, v, s
    <2>1. Coming(v, w2.link[r]) = Here(s)
      BY <1>9, <1>10, <1>11, Zenon DEF Coming, Here
    <2>2. LinkOk(v, w2.link[r])
      BY <1>1, <1>3, <1>10, <1>11, Zenon DEF LinkOk
    <2> QED BY <2>1, <2>2, Zenon DEF Leads
  <1>13. Fed("online") /\ "online" # "end" /\ x.type \in {"fullresync", "continue"}
    BY <1>10, Zenon DEF Fed
  <1>14. Inv(w2, n)
    BY <1>1, <1>6, <1>7, <1>9, <1>10, <1>12, <1>13, AttachKeeps, Zenon
  <1> QED BY <1>14, Zenon DEF w2, x, d

(* A slave that joins the snapshot made for another. *)
LEMMA JoinKeeps ==
    ASSUME NEW w, NEW n \in Nat, Inv(w, n), NEW r \in Servers, NEW m \in Servers,
           w.srv[r].state = "psync", w.link[r].to = m, NEW o \in Waiting(w, m, "end")
    PROVE  Inv(Send(w, r, "end", ReplFull(w.srv[m].replid, w.link[o].answer.off,
                                          w.link[o].answer.rdb),
                    copyReplicaOutputBuffer(w, o)), n)
  <1> DEFINE v == w.srv[r]
             s == w.srv[m]
             y == w.link[o].answer
             d == w.link[o].stream
             x == ReplFull(s.replid, y.off, y.rdb)
             w2 == Send(w, r, "end", x, d)
  <1>1. o \in Servers /\ o \in Slaves(w, m) /\ w.link[o].phase = "end"
    BY Zenon DEF Waiting, Slaves
  <1>2. /\ Shaped(w) /\ w.ids \in Nat /\ ServerOk(s, m, w.ids, n)
        /\ LinkOk(v, w.link[r]) /\ LinkOk(w.srv[o], w.link[o]) /\ w.link[o] \in Links
    BY <1>1, InvFacts, Zenon
  <1>3. /\ HasBacklog(w, m) /\ Coming(w.srv[o], w.link[o]) = Here(s)
        /\ y.type \in {"fullresync", "rdb"}
    BY <1>1, Zenon DEF Inv, SlavesOk, SlaveOk
  <1>4. d \in Data /\ y.rdb \in Rdbs /\ y.id \in Nat
    BY <1>2, Zenon DEF Links, Answers
  <1>5. y.off \in Nat /\ y.rdb.rsi = [id |-> y.id, off |-> y.off] /\ y.rdb.rsi # NoMaster
    BY <1>1, <1>2, <1>3, NoLinkIsALink, Zenon DEF LinkOk
  <1>6. y.id = s.replid /\ y.off + Len(d) = s.offset /\ y.rdb.data \o d = s.data
    BY <1>3, Zenon DEF Coming, Here, Pt
  <1>7. /\ x \in Answers /\ x.type = "fullresync" /\ x.id = s.replid /\ x.off = y.off
        /\ x.rdb = y.rdb
    <2>1. s.replid \in Nat /\ y.off \in Nat /\ y.rdb \in Rdbs
      BY <1>4, <1>5, <1>6, Zenon
    <2> HIDE DEF y, s
    <2> QED BY <2>1, AnswersAreAnswers
  <1> HIDE DEF x, y, d
  <1>8. /\ w2.link[r].to = m /\ w2.link[r].phase = "end" /\ w2.link[r].answer = x
        /\ w2.link[r].stream = d
    <2>1. w2 = Send(w, r, "end", x, d) /\ Phase("end")
      BY Zenon DEF Phase
    <2> HIDE DEF w2
    <2>2. w2.link[r].to = w.link[r].to /\ w2.link[r].phase = "end" /\ w2.link[r].answer = x
          /\ w2.link[r].stream = d
      BY <1>2, <1>4, <1>7, <2>1, SendEffect
    <2> QED BY <2>2, Zenon
  <1>9. Leads(v, w2.link[r], s)
    <2>0. w.link[r].to = v.host
      BY <1>2, Zenon DEF LinkOk
    <2> HIDE DEF w2, s
    <2>1. Coming(v, w2.link[r]) = Here(s)
      BY <1>6, <1>7, <1>8, Zenon DEF Coming, Here
    <2>2. LinkOk(v, w2.link[r])
      BY <1>5, <1>6, <1>7, <1>8, <2>0, Zenon DEF LinkOk
    <2> QED BY <2>1, <2>2, Zenon DEF Leads
  <1>10. Fed("end") /\ x.type \in {"fullresync", "continue"} /\ x.type # "continue"
    BY <1>7, Zenon DEF Fed
  <1>11. Inv(w2, n)
    BY <1>3, <1>4, <1>7, <1>9, <1>10, AttachKeeps, Zenon
  <1> QED BY <1>11, Zenon DEF w2, x, d, y, copyReplicaOutputBuffer


(* The replica reads the answer. *)
Read(w, r) == [w EXCEPT !.link[r].answer = NoAnswer]

(* Reading the answer takes it off the connection. *)
LEMMA ReadEffect ==
    ASSUME NEW w, Shaped(w), NEW r \in Servers, NEW w2, w2 = Read(w, r)
    PROVE  /\ Shaped(w2) /\ w2.srv = w.srv /\ w2.disk = w.disk /\ w2.ids = w.ids
           /\ \A t \in Servers \ {r} : w2.link[t] = w.link[t]
           /\ w2.link[r].to = w.link[r].to /\ w2.link[r].closed = w.link[r].closed
           /\ w2.link[r].phase = w.link[r].phase /\ w2.link[r].answer = NoAnswer
           /\ w2.link[r].stream = w.link[r].stream
  <1> DEFINE l == [w.link[r] EXCEPT !.answer = NoAnswer]
  <1>1. w.link[r] \in Links
    BY Zenon DEF Shaped
  <1>2. /\ l \in Links /\ l.to = w.link[r].to /\ l.closed = w.link[r].closed
        /\ l.phase = w.link[r].phase /\ l.answer = NoAnswer /\ l.stream = w.link[r].stream
    BY <1>1, NoLinkIsALink, Zenon DEF Links
  <1>3. w2 = LinkAt(w, r, l)
    BY Zenon DEF Read, LinkAt
  <1> HIDE DEF l
  <1> QED BY <1>2, <1>3, LinkAtEffect

(* Reading an error keeps the invariant. *)
LEMMA ReadErrorKeeps ==
    ASSUME NEW w, NEW n \in Nat, Inv(w, n), NEW r \in Servers, w.link[r].answer.type = "error"
    PROVE  Inv(Read(w, r), n)
  <1> DEFINE w2 == Read(w, r)
             v  == w.srv[r]
  <1>1. /\ Shaped(w) /\ w.ids \in Nat /\ ServerOk(v, r, w.ids, n) /\ LinkOk(v, w.link[r])
        /\ w.link[r].to # r
    BY InvFacts, LinkIsNotOwn, Zenon
  <1>2. /\ Shaped(w2) /\ w2.srv = w.srv /\ w2.disk = w.disk /\ w2.ids = w.ids
        /\ \A t \in Servers \ {r} : w2.link[t] = w.link[t]
        /\ w2.link[r].to = w.link[r].to /\ w2.link[r].phase = w.link[r].phase
        /\ w2.link[r].answer = NoAnswer /\ w2.link[r].stream = w.link[r].stream
    BY <1>1, ReadEffect
  <1> HIDE DEF w2
  <1>3. v.state = "psync" /\ w.link[r].stream = <<>> /\ w.link[r].phase = "none"
    BY <1>1, NoLinkIsALink, Zenon DEF LinkOk, ServerOk, ServerTypes
  <1>4. OthersStay(w, w2, r) /\ TargetsOk(w2)
    BY <1>2, ClosedStay, TargetsKept, Zenon
  <1>5. SameHistory(v, v) /\ ServerRole(v) /\ v.master \in Marks /\ v.cached \in Marks
        /\ v.initial \in Marks
    BY <1>1, Zenon DEF SameHistory, ServerOk, ServerTypes
  <1>6. w2.link[r].answer.type = "none"
    BY <1>2, AnswersAreAnswers, Zenon
  <1>7. LinkOk(v, w2.link[r])
    BY <1>1, <1>2, <1>3, <1>6, Zenon DEF LinkOk
  <1>8. StaysSlave(w, w2, r) /\ ~Arriving(v, w2.link[r])
    BY <1>2, <1>3, <1>6, Zenon DEF StaysSlave, Slaves, Arriving
  <1>9. Inv(w2, n)
    BY <1>1, <1>2, <1>3, <1>4, <1>5, <1>6, <1>7, <1>8, QuietStep, Zenon
  <1> QED BY <1>9, Zenon DEF w2

(* abortFailover() keeps the invariant. *)
LEMMA AbortKeeps ==
    ASSUME NEW w, NEW n \in Nat, Inv(w, n), NEW s \in Servers
    PROVE  Inv(abortFailover(w, s), n)
  <1>1. Inv(replicationUnsetMaster(w, s), n)
    BY UnsetKeeps, Zenon
  <1> DEFINE u == replicationUnsetMaster(w, s)
  <1>2. Inv(clearFailoverState(u, s), n)
    <2> HIDE DEF u
    <2>1. Inv(u, n)
      BY <1>1, Zenon DEF u
    <2> QED BY <2>1, ClearFailoverKeeps, Zenon
  <1>3. Inv(clearFailoverState(w, s), n)
    BY ClearFailoverKeeps
  <1> QED BY <1>2, <1>3, Zenon DEF abortFailover

(* The fields of the planned failover: kept or cleared. *)
LEMMA AnsweredEffect ==
    ASSUME NEW w, Shaped(w), NEW r \in Servers, NEW w2, w2 = FailoverAnswered(w, r)
    PROVE  /\ Only(w, w2, r, {"failover", "target", "force"}) /\ w2.link = w.link /\ w2.ids = w.ids
           /\ Aside(w.srv[r], w2.srv[r])
  <1>1. CASE w.srv[r].failover = "progress"
    <2>1. w2 = clearFailoverState(w, r)
      BY <1>1, Zenon DEF FailoverAnswered
    <2>2. /\ Only(w, w2, r, {"failover", "target", "force"}) /\ w2.link = w.link /\ w2.ids = w.ids
          /\ w2.srv[r].failover = "no" /\ w2.srv[r].force = FALSE
      BY <2>1, ClearFailoverEffect, Zenon
    <2> QED BY <2>2, Zenon DEF Aside
  <1>2. CASE w.srv[r].failover # "progress"
    <2>1. w2 = w
      BY <1>2, Zenon DEF FailoverAnswered
    <2> QED BY <2>1, Zenon DEF Only, Aside
  <1> QED BY <1>1, <1>2, Zenon

(* A planned failover that is kept or cleared keeps TargetOk. *)
LEMMA TargetsAside ==
    ASSUME NEW w, NEW n \in Nat, Inv(w, n), NEW w2, NEW a \in Servers,
           \A t \in Servers \ {a} : w2.srv[t] = w.srv[t], Aside(w.srv[a], w2.srv[a])
    PROVE  TargetsOk(w2)
  <1>1. \A t \in Servers : TargetOk(w.srv[t], t)
    BY Zenon DEF Inv
  <1>2. TargetOk(w2.srv[a], a)
    BY <1>1, Zenon DEF TargetOk, Aside
  <1> QED BY <1>1, <1>2, Zenon DEF TargetsOk

(* +FULLRESYNC is read: the file is to come. *)
Expect(w, r) == [w EXCEPT !.link[r].answer.type = "rdb"]

(* Reading the +FULLRESYNC line leaves the file on the connection. *)
LEMMA ExpectEffect ==
    ASSUME NEW w, Shaped(w), NEW r \in Servers, NEW w2, w2 = Expect(w, r)
    PROVE  /\ Shaped(w2) /\ w2.srv = w.srv /\ w2.disk = w.disk /\ w2.ids = w.ids
           /\ \A t \in Servers \ {r} : w2.link[t] = w.link[t]
           /\ w2.link[r].to = w.link[r].to /\ w2.link[r].closed = w.link[r].closed
           /\ w2.link[r].phase = w.link[r].phase /\ w2.link[r].stream = w.link[r].stream
           /\ w2.link[r].answer.type = "rdb" /\ w2.link[r].answer.id = w.link[r].answer.id
           /\ w2.link[r].answer.off = w.link[r].answer.off
           /\ w2.link[r].answer.rdb = w.link[r].answer.rdb
  <1> DEFINE x == [w.link[r].answer EXCEPT !.type = "rdb"]
             l == [w.link[r] EXCEPT !.answer = x]
  <1>1. w.link[r] \in Links /\ w.link[r].answer \in Answers
    BY Zenon DEF Shaped, Links
  <1>2. /\ x \in Answers /\ x.type = "rdb" /\ x.id = w.link[r].answer.id
        /\ x.off = w.link[r].answer.off /\ x.rdb = w.link[r].answer.rdb
    BY <1>1, Zenon DEF Answers
  <1>3. w2 = LinkAt(w, r, l)
    BY Zenon DEF Expect, LinkAt
  <1> HIDE DEF x
  <1>4. /\ l \in Links /\ l.to = w.link[r].to /\ l.closed = w.link[r].closed
        /\ l.phase = w.link[r].phase /\ l.answer = x /\ l.stream = w.link[r].stream
    BY <1>1, <1>2, Zenon DEF Links
  <1> HIDE DEF l
  <1> QED BY <1>2, <1>3, <1>4, LinkAtEffect

FullRead(w, r) ==
    Set(FailoverAnswered(Expect(w, r), r), r,
        [state |-> "transfer",
         initial |-> [id |-> w.link[r].answer.id, off |-> w.link[r].answer.off]])

(* +FULLRESYNC is read: the replica notes where the file will take it. *)
LEMMA FullReadKeeps ==
    ASSUME NEW w, NEW n \in Nat, Inv(w, n), NEW r \in Servers,
           w.link[r].answer.type = "fullresync"
    PROVE  Inv(FullRead(w, r), n) /\ Aside(w.srv[r], FullRead(w, r).srv[r])
           /\ \A t \in Servers \ {r} : FullRead(w, r).srv[t] = w.srv[t]
  <1> DEFINE c  == Expect(w, r)
             d  == FailoverAnswered(c, r)
             w2 == FullRead(w, r)
             v  == w.srv[r]
             v2 == w2.srv[r]
             k  == [id |-> w.link[r].answer.id, off |-> w.link[r].answer.off]
             f  == [state |-> "transfer", initial |-> k]
  <1>1. /\ Shaped(w) /\ w.ids \in Nat /\ ServerOk(v, r, w.ids, n) /\ LinkOk(v, w.link[r])
        /\ w.link[r].to # r /\ w.link[r] \in Links
    BY InvFacts, LinkIsNotOwn, Zenon
  <1>2. /\ DOMAIN f = {"state", "initial"} /\ {"state", "initial"} \subseteq Fields
        /\ f.state = "transfer" /\ f.initial = k
    BY Zenon DEF Fields, Core
  <1>3. w2 = Set(d, r, f)
    BY Zenon DEF FullRead
  <1>4. k \in Marks
    BY <1>1, Zenon DEF Links, Answers, Marks
  <1>5. /\ Shaped(c) /\ c.srv = w.srv /\ c.disk = w.disk /\ c.ids = w.ids
        /\ \A t \in Servers \ {r} : c.link[t] = w.link[t]
        /\ c.link[r].to = w.link[r].to /\ c.link[r].closed = w.link[r].closed
        /\ c.link[r].phase = w.link[r].phase /\ c.link[r].stream = w.link[r].stream
        /\ c.link[r].answer.type = "rdb" /\ c.link[r].answer.id = w.link[r].answer.id
        /\ c.link[r].answer.off = w.link[r].answer.off
        /\ c.link[r].answer.rdb = w.link[r].answer.rdb
    BY <1>1, ExpectEffect
  <1> HIDE DEF c, f
  <1>6. /\ Only(c, d, r, {"failover", "target", "force"}) /\ d.link = c.link /\ d.ids = c.ids
        /\ Aside(c.srv[r], d.srv[r])
    BY <1>5, AnsweredEffect, Zenon
  <1> HIDE DEF d
  <1>7. /\ Only(d, w2, r, {"state", "initial"}) /\ w2.link = d.link /\ w2.ids = d.ids
        /\ v2.state = "transfer" /\ v2.initial = k
    BY <1>2, <1>3, <1>6, SetOnly DEF Only
  <1> HIDE DEF w2
  <1>8. /\ v2.host = v.host /\ v2.data = v.data /\ v2.offset = v.offset /\ v2.backlog = v.backlog
        /\ v2.replid = v.replid /\ v2.replid2 = v.replid2 /\ v2.second = v.second
        /\ v2.master = v.master /\ v2.cached = v.cached /\ v2.bgsave = v.bgsave
        /\ v2.failover = d.srv[r].failover /\ v2.target = d.srv[r].target
        /\ v2.force = d.srv[r].force
    BY <1>5, <1>6, <1>7 DEF Only, Fields, Core
  <1>9. Aside(v, v2)
    BY <1>5, <1>6, <1>8, Zenon DEF Aside
  <1>10. Shaped(w2) /\ w2.disk = w.disk /\ w2.ids = w.ids
         /\ \A t \in Servers \ {r} : w2.srv[t] = w.srv[t] /\ w2.link[t] = w.link[t]
    BY <1>5, <1>6, <1>7 DEF Only
  <1>11. OthersStay(w, w2, r) /\ TargetsOk(w2)
    BY <1>9, <1>10, ClosedStay, TargetsAside, Zenon
  <1>12. v.state = "psync"
    BY <1>1, NoLinkIsALink, Zenon DEF LinkOk, ServerOk, ServerTypes
  <1>13. LinkOk(v2, w2.link[r])
    <2>1. LET l == w.link[r] IN
          /\ l.to = v.host /\ l.answer.rdb.rsi = [id |-> l.answer.id, off |-> l.answer.off]
          /\ l.answer.rdb.rsi # NoMaster /\ l.answer.off \in Nat /\ l.phase \in {"end", "online"}
      BY <1>1, <1>12, Zenon DEF LinkOk
    <2>2. LET l2 == w2.link[r] IN
          /\ l2.to = v2.host /\ l2.answer.rdb.rsi = [id |-> l2.answer.id, off |-> l2.answer.off]
          /\ l2.answer.rdb.rsi # NoMaster /\ l2.answer.off \in Nat
          /\ l2.phase \in {"end", "online"} /\ l2.answer.type = "rdb"
          /\ v2.initial = [id |-> l2.answer.id, off |-> l2.answer.off]
      BY <1>5, <1>6, <1>7, <1>8, <2>1
    <2> HIDE DEF v2
    <2> QED BY <1>7, <2>2, Zenon DEF LinkOk
  <1>14. Coming(v2, w2.link[r]) = Coming(v, w.link[r]) /\ Arriving(v, w.link[r])
    BY <1>5, <1>6, <1>7, Zenon DEF Coming, Arriving
  <1>15. StaysSlave(w, w2, r)
    <2>1. \A m \in Servers : r \in Slaves(w2, m) => r \in Slaves(w, m)
      BY <1>5, <1>6, <1>7, Zenon DEF Slaves
    <2> QED BY <1>5, <1>6, <1>7, <1>14, <2>1, StaysSlaveIf
  <1> HIDE DEF v, v2, k
  <1>16. /\ SameHistory(v, v2) /\ ServerRole(v2) /\ (Known(v2) <=> Known(v))
         /\ Alone(v2) => Alone(v)
    BY <1>1, <1>7, <1>8, <1>12, Zenon DEF SameHistory, ServerOk, ServerRole, Known, Alone
  <1>17. v2.master \in Marks /\ v2.cached \in Marks /\ v2.initial \in Marks
    BY <1>1, <1>4, <1>7, <1>8, Zenon DEF ServerOk, ServerTypes
  <1>18. Inv(w2, n)
    <2>1. w2.link[r].to # r /\ w2.link[r].answer.type # "continue"
      BY <1>1, <1>5, <1>6, <1>7, Zenon
    <2> QED BY <1>7, <1>10, <1>11, <1>13, <1>14, <1>15, <1>16, <1>17, <2>1, QuietStep, Zenon DEF v, v2
  <1> QED BY <1>9, <1>10, <1>18, Zenon DEF w2, v, v2


(* A master that starts or ends its history draws a new ID. *)
FreshId(w, m) == clearReplicationId2(changeReplicationId(w, m), m)

(* A new ID and no second one. *)
LEMMA FreshIdEffect ==
    ASSUME NEW w, Shaped(w), NEW m \in Servers, NEW w2, w2 = FreshId(w, m)
    PROVE  /\ Only(w, w2, m, {"replid", "replid2", "second"}) /\ w2.link = w.link
           /\ w2.ids = w.ids + 1 /\ w2.srv[m].replid = w.ids + 1
           /\ w2.srv[m].replid2 = NoId /\ w2.srv[m].second = -1
  <1> DEFINE c == changeReplicationId(w, m)
             f == [replid2 |-> NoId, second |-> -1]
  <1>1. /\ DOMAIN f = {"replid2", "second"} /\ {"replid2", "second"} \subseteq Fields
        /\ f.replid2 = NoId /\ f.second = -1 /\ "replid" \in Fields \ {"replid2", "second"}
    BY Zenon DEF Fields, Core
  <1>2. w2 = Set(c, m, f)
    BY Zenon DEF FreshId, clearReplicationId2
  <1>3. /\ Shaped(c) /\ c.link = w.link /\ c.disk = w.disk /\ c.ids = w.ids + 1
        /\ \A t \in Servers \ {m} : c.srv[t] = w.srv[t]
        /\ \A i \in Fields \ {"replid"} : c.srv[m][i] = w.srv[m][i]
        /\ c.srv[m].replid = w.ids + 1
    BY ChangeIdEffect
  <1> HIDE DEF c, f
  <1>4. /\ Only(c, w2, m, {"replid2", "second"}) /\ w2.link = c.link /\ w2.ids = c.ids
        /\ w2.srv[m].replid2 = NoId /\ w2.srv[m].second = -1
    BY <1>1, <1>2, <1>3, SetOnly
  <1>5. w2.srv[m].replid = c.srv[m].replid
    BY <1>1, <1>4, Zenon DEF Only
  <1> QED BY <1>3, <1>4, <1>5, Zenon DEF Only

(* A master without slaves that draws an ID keeps the invariant. *)
LEMMA FreshMaster ==
    ASSUME NEW w, NEW n \in Nat, Inv(w, n), NEW m \in Servers, w.srv[m].host = NoOne,
           Slaves(w, m) = {}, NEW w2, Only(w, w2, m, {"replid", "replid2", "second", "backlog"}),
           w2.link = w.link, w2.ids = w.ids + 1, w2.srv[m].replid = w.ids + 1,
           w2.srv[m].replid2 = NoId, w2.srv[m].second = -1,
           w2.srv[m].backlog = NoBacklog \/ w2.srv[m].backlog = NewLog(w.srv[m].offset)
    PROVE  Inv(w2, n)
  <1> DEFINE v  == w.srv[m]
             v2 == w2.srv[m]
  <1>1. /\ Shaped(w) /\ w.ids \in Nat /\ ServerOk(v, m, w.ids, n) /\ LinkOk(v, w.link[m])
    BY InvFacts, Zenon
  <1>2. /\ v2.host = v.host /\ v2.state = v.state /\ v2.data = v.data /\ v2.offset = v.offset
        /\ v2.master = v.master /\ v2.cached = v.cached /\ v2.initial = v.initial
        /\ v2.bgsave = v.bgsave
        /\ v2.failover = v.failover /\ v2.target = v.target /\ v2.force = v.force
    BY Zenon DEF Only, Fields, Core
  <1>3. Shaped(w2) /\ w2.disk = w.disk /\ \A t \in Servers \ {m} : w2.srv[t] = w.srv[t]
    BY Zenon DEF Only
  <1>4. /\ v.offset \in Nat /\ v.offset <= n /\ v.data \in Data
    BY <1>1, ServerNumbers, Zenon
  <1>5. /\ v.state = "none" /\ v.master = NoMaster /\ v.cached = NoMaster /\ v.host = NoOne
        /\ w.link[m] = NoLink
    BY <1>1, Zenon DEF ServerOk, ServerRole, LinkOk
  <1>6. OthersStay(w, w2, m) /\ TargetsOk(w2)
    BY <1>2, <1>3, ClosedStay, TargetsKept, Zenon
  <1>7. /\ SlavesStay(w, w2, m) /\ StaysSlave(w, w2, m)
    BY <1>5, NoLinkNoSlave, Zenon DEF SlavesStay, Slaves
  <1> HIDE DEF v, v2
  <1>8. ServerOk(v2, m, w2.ids, n)
    <2>1. ServerTypes(v2, m, w2.ids, n)
      <3>1. v2.replid \in 1 .. w2.ids /\ v2.replid2 \in 0 .. w2.ids /\ v2.second \in Int
        BY <1>1 DEF v2, NoId
      <3>2. v2.backlog \in [offset : Int, histlen : Int]
        BY <1>4, NewLogFacts DEF v, v2, NoBacklog
      <3> QED BY <1>1, <1>2, <3>1, <3>2, Zenon DEF ServerOk, ServerTypes
    <2>2. ServerRole(v2)
      BY <1>2, <1>5, Zenon DEF ServerRole
    <2>3. v2.backlog # NoBacklog => /\ v2.backlog.histlen \in 0 .. BacklogSize
                                    /\ v2.backlog.offset + v2.backlog.histlen = v2.offset + 1
      BY <1>2, <1>4, NewLogFacts, Zenon DEF v, v2
    <2>4. ServerLog(v2)
      BY <1>2, <1>5, <2>3, Zenon DEF ServerLog, Known, HasSecond, v2
    <2> QED BY <2>1, <2>2, <2>4, Zenon DEF ServerOk
  <1>9. LinkOk(v2, w2.link[m])
    BY <1>2, <1>5, Zenon DEF LinkOk
  <1> DEFINE N == IF v2.backlog # NoBacklog THEN {Here(v2)} ELSE {}
  <1>10. OwnEnd(w, w2, m, N)
    BY <1>1, FreshEnd, NoEnd DEF HasBacklog, v2
  <1>11. PointsFrom(w, w2, m, N)
    <2> SUFFICES ASSUME NEW p, Point(w2, m, p), p \notin N
                 PROVE  Point(w, m, p)
      <3>1. Sound(Here(v2))
        BY <1>2, <1>4, Zenon DEF Sound, Here, Pt
      <3> QED BY <3>1, OldPoint, Zenon DEF PointsFrom, N
    <2>1. ~Arriving(v2, w2.link[m])
      BY <1>2, <1>5, NoLinkIsALink, Zenon DEF Arriving
    <2>2. ~HasSecond(v2) /\ (Known(v2) => v2.backlog # NoBacklog)
      BY <1>2, <1>5, Zenon DEF HasSecond, Known, v2
    <2> QED BY <1>2, <1>3, <2>1, <2>2, Zenon DEF Point, IsPoint, v, v2
  <1>12. MasterKept(w, w2, m, m)
    BY <1>1 DEF MasterKept
  <1>13. AloneKept(w, w2, m)
    BY <1>2, <1>5, Zenon DEF AloneKept, Alone, v2
  <1>14. w.ids <= w2.ids
    BY <1>1
  <1> HIDE DEF N
  <1> QED BY <1>3, <1>6, <1>7, <1>8, <1>9, <1>10, <1>11, <1>12, <1>13, <1>14, StepOfOne, Zenon DEF v2

(* replicationCron() frees the backlog of a master without slaves and draws an ID. *)
LEMMA FreeKeeps ==
    ASSUME NEW w, NEW n \in Nat, Inv(w, n), NEW m \in Servers, w.srv[m].host = NoOne,
           Slaves(w, m) = {}
    PROVE  /\ Inv(freeReplicationBacklog(FreshId(w, m), m), n)
           /\ \A s \in Servers : Aside(w.srv[s], freeReplicationBacklog(FreshId(w, m), m).srv[s])
  <1> DEFINE c  == FreshId(w, m)
             w2 == freeReplicationBacklog(c, m)
             f  == [backlog |-> NoBacklog]
  <1>1. /\ DOMAIN f = {"backlog"} /\ {"backlog"} \subseteq Fields /\ f.backlog = NoBacklog
    BY Zenon DEF Fields, Core
  <1>2. w2 = Set(c, m, f)
    BY Zenon DEF freeReplicationBacklog
  <1>3. /\ Only(w, c, m, {"replid", "replid2", "second"}) /\ c.link = w.link
        /\ c.ids = w.ids + 1 /\ c.srv[m].replid = w.ids + 1
        /\ c.srv[m].replid2 = NoId /\ c.srv[m].second = -1
    BY InvFacts, FreshIdEffect, Zenon
  <1> HIDE DEF c, f
  <1>4. /\ Only(c, w2, m, {"backlog"}) /\ w2.link = c.link /\ w2.ids = c.ids
        /\ w2.srv[m].backlog = NoBacklog
    BY <1>1, <1>2, <1>3, SetOnly DEF Only
  <1> HIDE DEF w2
  <1>5. /\ Only(w, w2, m, {"replid", "replid2", "second", "backlog"})
        /\ w2.srv[m].replid = w.ids + 1 /\ w2.srv[m].replid2 = NoId /\ w2.srv[m].second = -1
    BY <1>3, <1>4, Zenon DEF Only, Fields, Core
  <1>6. Inv(w2, n)
    BY <1>3, <1>4, <1>5, FreshMaster, Zenon
  <1>7. \A s \in Servers : Aside(w.srv[s], w2.srv[s])
    BY <1>5, Zenon DEF Only, Fields, Aside
  <1> QED BY <1>6, <1>7, Zenon DEF w2, c


(* A slave that needs a full resynchronization. *)
StartWorld(w, m, r) == createReplicationBacklogIfNeeded(Send(w, r, "start", NoAnswer, <<>>), m)

(* A slave asks for a full resynchronization; the first one gets its master a backlog. *)
LEMMA StartWorldKeeps ==
    ASSUME NEW w, NEW n \in Nat, Inv(w, n), NEW r \in Servers, Requests(w, r),
           NEW m \in Servers, w.link[r].to = m, ~Away(w.srv[m])
    PROVE  LET w2 == StartWorld(w, m, r) IN
           /\ Inv(w2, n) /\ w2.srv[r].state = "psync" /\ w2.link[r].to = m
           /\ \A s \in Servers : Aside(w.srv[s], w2.srv[s])
  <1> DEFINE a == Send(w, r, "start", NoAnswer, <<>>)
             w2 == StartWorld(w, m, r)
  <1>1. Shaped(w) /\ m # r /\ w.srv[r].state = "psync" /\ w.ids \in Nat
    BY InvFacts, LinkIsNotOwn, Zenon DEF Requests
  <1>2. /\ Shaped(a) /\ a.srv = w.srv /\ a.disk = w.disk /\ a.ids = w.ids
        /\ \A t \in Servers \ {r} : a.link[t] = w.link[t]
        /\ a.link[r].to = m /\ a.link[r].phase = "start" /\ a.link[r].closed = w.link[r].closed
        /\ a.link[r].answer.type = "none" /\ a.link[r].stream = <<>>
    <2>1. NoAnswer \in Answers /\ NoAnswer.type = "none" /\ <<>> \in Data
      BY AnswersAreAnswers, NoLinkIsALink, Zenon
    <2> HIDE DEF a
    <2>2. a = Send(w, r, "start", NoAnswer, <<>>) /\ Phase("start")
      BY Zenon DEF a, Phase
    <2>3. /\ Shaped(a) /\ a.srv = w.srv /\ a.disk = w.disk /\ a.ids = w.ids
          /\ \A t \in Servers \ {r} : a.link[t] = w.link[t]
          /\ a.link[r].to = w.link[r].to /\ a.link[r].closed = w.link[r].closed
          /\ a.link[r].phase = "start" /\ a.link[r].answer = NoAnswer /\ a.link[r].stream = <<>>
      BY <1>1, <2>1, <2>2, SendEffect
    <2> QED BY <2>1, <2>3, Zenon
  <1>3. CASE HasBacklog(w, m)
    <2>1. w2 = a
      BY <1>2, <1>3, Zenon DEF StartWorld, createReplicationBacklogIfNeeded, HasBacklog
    <2>2. Inv(a, n)
      BY <1>3, SendStartKeeps, Zenon
    <2> QED BY <1>1, <1>2, <2>1, <2>2, Zenon DEF Aside
  <1>4. CASE ~HasBacklog(w, m)
    <2>1. w.srv[m].host = NoOne
      <3>1. ServerOk(w.srv[m], m, w.ids, n)
        BY InvFacts, Zenon
      <3> QED BY <1>4, <3>1, Zenon DEF Away, ServerOk, ServerRole, HasBacklog
    <2>2. Slaves(w, m) = {}
      BY <1>4, Zenon DEF Inv, SlavesOk, SlaveOk
    <2>3. Slaves(a, m) = {r}
      <3> HIDE DEF a
      <3>1. r \in Slaves(a, m)
        BY <1>2, Zenon DEF Slaves, Requests
      <3>2. \A t \in Servers \ {r} : t \notin Slaves(a, m)
        BY <1>2, <2>2, Zenon DEF Slaves
      <3>3. Slaves(a, m) \subseteq Servers
        BY Zenon DEF Slaves
      <3> QED BY <3>1, <3>2, <3>3, Zenon
    <2> DEFINE b == FreshId(a, m)
               c == FreshId(w, m)
               d == createReplicationBacklog(c, m)
    <2>4. w2 = createReplicationBacklog(b, m)
      BY <1>2, <1>4, <2>3, Zenon DEF StartWorld, createReplicationBacklogIfNeeded, HasBacklog, FreshId
    <2> HIDE DEF a
    <2>5. /\ Only(a, b, m, {"replid", "replid2", "second"}) /\ b.link = a.link
          /\ b.ids = a.ids + 1 /\ b.srv[m].replid = a.ids + 1
          /\ b.srv[m].replid2 = NoId /\ b.srv[m].second = -1
      BY <1>2, FreshIdEffect, Zenon
    <2>6. /\ Only(w, c, m, {"replid", "replid2", "second"}) /\ c.link = w.link
          /\ c.ids = w.ids + 1 /\ c.srv[m].replid = w.ids + 1
          /\ c.srv[m].replid2 = NoId /\ c.srv[m].second = -1
      BY <1>1, FreshIdEffect
    <2> HIDE DEF b, c
    <2>7. /\ b.srv[m].backlog = NoBacklog /\ c.srv[m].backlog = NoBacklog
          /\ b.srv[m].offset = w.srv[m].offset /\ c.srv[m].offset = w.srv[m].offset
      BY <1>2, <1>4, <2>5, <2>6, Zenon DEF Only, Fields, Core, HasBacklog
    <2>8. /\ Only(b, w2, m, {"backlog"}) /\ w2.link = b.link /\ w2.ids = b.ids
          /\ w2.srv[m].backlog = NewLog(w.srv[m].offset)
      <3>1. /\ Only(b, w2, m, {"backlog"}) /\ w2.link = b.link /\ w2.ids = b.ids
            /\ w2.srv[m].backlog = IF HasBacklog(b, m) THEN b.srv[m].backlog
                                   ELSE [offset |-> b.srv[m].offset + 1, histlen |-> 0]
        BY <2>4, <2>5, CreateEffect DEF Only
      <3> QED BY <2>7, <3>1, Zenon DEF HasBacklog, NewLog
    <2>9. /\ Only(c, d, m, {"backlog"}) /\ d.link = c.link /\ d.ids = c.ids
          /\ d.srv[m].backlog = NewLog(w.srv[m].offset)
      <3>1. /\ Only(c, d, m, {"backlog"}) /\ d.link = c.link /\ d.ids = c.ids
            /\ d.srv[m].backlog = IF HasBacklog(c, m) THEN c.srv[m].backlog
                                   ELSE [offset |-> c.srv[m].offset + 1, histlen |-> 0]
        BY <2>6, CreateEffect DEF Only
      <3> QED BY <2>7, <3>1, Zenon DEF HasBacklog, NewLog
    <2> HIDE DEF d, w2
    <2>10. /\ Only(w, d, m, {"replid", "replid2", "second", "backlog"}) /\ d.link = w.link
           /\ d.ids = w.ids + 1 /\ d.srv[m].replid = w.ids + 1
           /\ d.srv[m].replid2 = NoId /\ d.srv[m].second = -1
      BY <2>6, <2>9, Zenon DEF Only, Fields, Core
    <2>11. Inv(d, n)
      BY <2>1, <2>2, <2>9, <2>10, FreshMaster, Zenon
    <2>12. /\ Shaped(w2) /\ w2.disk = d.disk /\ w2.ids = d.ids
           /\ \A t \in Servers \ {m} : w2.srv[t] = w.srv[t] /\ d.srv[t] = w.srv[t]
           /\ \A i \in Fields : w2.srv[m][i] = d.srv[m][i]
           /\ w2.link = a.link /\ d.link = w.link
      <3>1. /\ w2.srv[m].replid = w.ids + 1 /\ w2.srv[m].replid2 = NoId /\ w2.srv[m].second = -1
        BY <1>2, <2>5, <2>8, Zenon DEF Only, Fields, Core
      <3>2. \A i \in Fields \ {"replid", "replid2", "second", "backlog"} :
                w2.srv[m][i] = w.srv[m][i] /\ d.srv[m][i] = w.srv[m][i]
        BY <1>2, <2>5, <2>8, <2>10, Zenon DEF Only
      <3>3. \A i \in Fields : w2.srv[m][i] = d.srv[m][i]
        BY <2>8, <2>9, <2>10, <3>1, <3>2, Zenon
      <3> QED BY <1>2, <2>5, <2>6, <2>8, <2>9, <2>10, <3>3, Zenon DEF Only
    <2>13. /\ OthersStay(d, w2, r)
      <3>1. \A t \in Servers \ {r} : \A i \in Core : w2.srv[t][i] = d.srv[t][i]
        BY <2>12, Zenon DEF Fields
      <3> QED BY <1>2, <2>12, <3>1, Zenon DEF OthersStay, Untouched, LinkKept
    <2>14. TargetsOk(w2) /\ \A s \in Servers : Aside(w.srv[s], w2.srv[s])
      <3>1. \A t \in Servers : w2.srv[t].target = w.srv[t].target /\ w2.srv[t].force = w.srv[t].force
                               /\ w2.srv[t].failover = w.srv[t].failover
        BY <2>10, <2>12 DEF Only, Fields, Core
      <3>2. \A t \in Servers : TargetOk(w.srv[t], t)
        BY Zenon DEF Inv
      <3>3. \A t \in Servers : TargetOk(w2.srv[t], t)
        BY <3>1, <3>2, Zenon DEF TargetOk
      <3> QED BY <3>1, <3>3, Zenon DEF TargetsOk, Aside
    <2>15. /\ Requests(d, r) /\ d.link[r].to = m /\ HasBacklog(d, d.link[r].to)
      <3>1. w.srv[m].offset \in Nat
        BY <1>1, InvFacts, ServerNumbers, Zenon
      <3> QED BY <1>1, <2>9, <2>12, <3>1, NewLogFacts DEF Requests, HasBacklog
    <2>16. Inv(w2, n)
      BY <1>1, <1>2, <2>11, <2>12, <2>13, <2>14, <2>15, StartKeeps
    <2>17. w2.srv[r].state = "psync" /\ w2.link[r].to = m
      BY <1>1, <1>2, <2>12, Zenon
    <2> QED BY <2>14, <2>16, <2>17, Zenon DEF w2
  <1> QED BY <1>3, <1>4, Zenon


-----------------------------------------------------------------------------
(* Steps that change several servers, or their connections. *)

(* A step that touches several servers keeps the invariant if every one's part is kept. *)
LEMMA StepOfAll ==
    ASSUME NEW w, NEW n \in Nat, Inv(w, n), NEW n2 \in Nat, n <= n2, NEW w2, Shaped(w2),
           w.ids <= w2.ids, TargetsOk(w2),
           \A s \in Servers : ServerOk(w2.srv[s], s, w2.ids, n2),
           \A s \in Servers : LinkOk(w2.srv[s], w2.link[s]),
           SlavesOk(w2), NEW a \in Servers, NEW N, NewEnd(w, w2, n2, N),
           \A s \in Servers : PointsFrom(w, w2, s, N),
           \A s \in Servers : MasterKept(w, w2, s, a),
           \A s \in Servers : AloneKept(w, w2, s)
    PROVE  Inv(w2, n2)
  <1>1. w.ids \in Nat /\ w2.ids \in Nat /\ Histories(w, n)
    BY InvFacts, Zenon DEF Shaped
  <1>2. Numbered(w, n) /\ Numbered(w2, n2)
    BY <1>1, InvFacts, ServerNumbers, Zenon DEF Numbered
  <1>3. Histories(w2, n2)
    BY <1>1, <1>2, Evolution, Zenon
  <1> QED BY <1>3, Zenon DEF Inv, TargetsOk

(* Everything but the snapshot that is being made. *)
SameMind(v, v2) == \A i \in Core \ {"bgsave"} : v2[i] = v[i]

(* Servers that differ in the snapshot they are writing know the same. *)
LEMMA SameMindFacts ==
    ASSUME NEW v, NEW v2, SameMind(v, v2)
    PROVE  /\ v2.host = v.host /\ v2.state = v.state /\ v2.data = v.data /\ v2.replid = v.replid
           /\ v2.replid2 = v.replid2 /\ v2.second = v.second /\ v2.offset = v.offset
           /\ v2.backlog = v.backlog /\ v2.master = v.master /\ v2.cached = v.cached
           /\ v2.initial = v.initial
           /\ (Known(v2) <=> Known(v)) /\ Here(v2) = Here(v) /\ Second(v2) = Second(v)
           /\ (HasSecond(v2) <=> HasSecond(v)) /\ (Alone(v2) <=> Alone(v))
           /\ \A l : (Arriving(v2, l) <=> Arriving(v, l)) /\ Coming(v2, l) = Coming(v, l)
  <1>1. /\ v2.host = v.host /\ v2.state = v.state /\ v2.data = v.data /\ v2.replid = v.replid
        /\ v2.replid2 = v.replid2 /\ v2.second = v.second /\ v2.offset = v.offset
        /\ v2.backlog = v.backlog /\ v2.master = v.master /\ v2.cached = v.cached
        /\ v2.initial = v.initial
    BY Zenon DEF SameMind, Core
  <1>2. /\ (Known(v2) <=> Known(v)) /\ Here(v2) = Here(v) /\ Second(v2) = Second(v)
        /\ (HasSecond(v2) <=> HasSecond(v)) /\ (Alone(v2) <=> Alone(v))
    BY <1>1, Zenon DEF Known, Here, Second, HasSecond, Alone
  <1>3. \A l : (Arriving(v2, l) <=> Arriving(v, l)) /\ Coming(v2, l) = Coming(v, l)
    BY <1>1, Zenon DEF Arriving, Coming
  <1> QED BY <1>1, <1>2, <1>3, Zenon

IsSnapshot(b) == b = <<>> \/ \E rdb \in Rdbs : b = <<rdb>>

Shared(w, w2, t) ==
    \A p : Point(w2, t, p) => \E u \in Servers : (u = t \/ HasBacklog(w, u)) /\ Point(w, u, p)

(* A step that changes connections and snapshots, and nobody's data, keeps the invariant. *)
LEMMA LinkStep ==
    ASSUME NEW w, NEW n \in Nat, Inv(w, n), NEW w2, Shaped(w2), w2.ids = w.ids, TargetsOk(w2),
           NEW a \in Servers,
           \A t \in Servers : SameMind(w.srv[t], w2.srv[t]),
           \A t \in Servers : IsSnapshot(w2.srv[t].bgsave),
           \A t \in Servers : LinkOk(w2.srv[t], w2.link[t]),
           SlavesOk(w2), \A t \in Servers : Shared(w, w2, t),
           \A t \in Servers : Alone(w.srv[t]) =>
               w2.link[t].answer.type # "continue" /\ StaysAlone(w, w2, t)
    PROVE  Inv(w2, n)
  <1>1. w.ids \in Nat /\ w.ids <= w2.ids /\ n <= n
    BY InvFacts
  <1>2. ASSUME NEW s \in Servers PROVE ServerOk(w2.srv[s], s, w2.ids, n)
    <2> DEFINE v  == w.srv[s]
               v2 == w2.srv[s]
    <2>1. ServerOk(v, s, w.ids, n) /\ SameMind(v, v2) /\ IsSnapshot(v2.bgsave)
      BY InvFacts, Zenon
    <2> HIDE DEF v, v2
    <2>2. /\ v2.host = v.host /\ v2.state = v.state /\ v2.data = v.data /\ v2.replid = v.replid
          /\ v2.replid2 = v.replid2 /\ v2.second = v.second /\ v2.offset = v.offset
          /\ v2.backlog = v.backlog /\ v2.master = v.master /\ v2.cached = v.cached
          /\ v2.initial = v.initial
          /\ (Known(v2) <=> Known(v)) /\ (HasSecond(v2) <=> HasSecond(v))
      BY <2>1, SameMindFacts, Zenon
    <2>3. ServerTypes(v2, s, w2.ids, n)
      BY <2>1, <2>2, Zenon DEF ServerOk, ServerTypes, IsSnapshot
    <2>4. ServerRole(v2)
      BY <2>1, <2>2, Zenon DEF ServerOk, ServerRole
    <2>5. ServerLog(v2)
      BY <2>1, <2>2, Zenon DEF ServerOk, ServerLog
    <2>6. ServerOk(v2, s, w2.ids, n)
      BY <2>3, <2>4, <2>5, Zenon DEF ServerOk
    <2> QED BY <2>6, Zenon DEF v2
  <1>3. ASSUME NEW s \in Servers
        PROVE  PointsFrom(w, w2, s, {}) /\ MasterKept(w, w2, s, a) /\ AloneKept(w, w2, s)
    <2>1. /\ w2.srv[s].host = w.srv[s].host /\ w2.srv[s].replid = w.srv[s].replid
          /\ w2.srv[s].offset = w.srv[s].offset /\ w2.srv[s].backlog = w.srv[s].backlog
          /\ (Alone(w2.srv[s]) <=> Alone(w.srv[s]))
      BY SameMindFacts
    <2>2. w.srv[s].offset \in Nat
      BY <1>1, InvFacts, ServerNumbers, Zenon
    <2>3. w.srv[s].offset <= w2.srv[s].offset
      BY <2>1, <2>2
    <2>4. PointsFrom(w, w2, s, {})
      BY OldPoint, Zenon DEF PointsFrom, Shared
    <2> QED BY <2>1, <2>3, <2>4, Zenon DEF MasterKept, StaysMaster, AloneKept
  <1>4. NewEnd(w, w2, n, {})
    BY Zenon DEF NewEnd
  <1> QED BY <1>1, <1>2, <1>3, <1>4, StepOfAll, Zenon


(* A snapshot records the place of a server that may tell it. *)
LEMMA SnapshotFacts ==
    ASSUME NEW v, NEW s, NEW last \in Nat, NEW n \in Nat, ServerOk(v, s, last, n)
    PROVE  /\ Snapshot(v) \in Rdbs /\ Snapshot(v).data = v.data
           /\ Snapshot(v).rsi = rdbPopulateSaveInfo(v)
           /\ Snapshot(v).rsi # NoMaster <=> Known(v)
           /\ Known(v) => /\ Snapshot(v).rsi = [id |-> v.replid, off |-> v.offset]
                          /\ FilePoint(Snapshot(v)) = Here(v)
  <1>1. v.replid \in Nat \ {0} /\ v.offset \in Nat /\ v.data \in Data
    BY ServerNumbers, Zenon
  <1>2. [id |-> v.replid, off |-> v.offset] # NoMaster
    BY <1>1, Zenon DEF NoMaster, NoId
  <1>3. rdbPopulateSaveInfo(v) = IF Known(v) THEN [id |-> v.replid, off |-> v.offset] ELSE NoMaster
    BY Zenon DEF rdbPopulateSaveInfo, Known
  <1>4. rdbPopulateSaveInfo(v) \in Marks
    BY <1>1, <1>3, NoLinkIsALink DEF Marks
  <1>5. /\ Snapshot(v) \in Rdbs /\ Snapshot(v).data = v.data
        /\ Snapshot(v).rsi = rdbPopulateSaveInfo(v)
    BY <1>1, <1>4, Zenon DEF Snapshot, Rdbs
  <1>6. Known(v) => FilePoint(Snapshot(v)) = Here(v)
    BY <1>3, <1>5 DEF FilePoint, Here
  <1> QED BY <1>2, <1>3, <1>5, <1>6, Zenon

(* Slaves whose connection is closed while their master stays as it is. *)
LEMMA ClosedKeeps ==
    ASSUME NEW w, NEW n \in Nat, Inv(w, n), NEW m \in Servers, NEW S, S \subseteq Slaves(w, m),
           NEW w2, Only(w, w2, m, {"bgsave"}), w2.ids = w.ids, Closed(w, w2, S),
           w2.srv[m].bgsave = w.srv[m].bgsave \/ w2.srv[m].bgsave = <<>>
    PROVE  Inv(w2, n)
  <1> DEFINE v  == w.srv[m]
             v2 == w2.srv[m]
  <1>1. /\ Shaped(w) /\ w.ids \in Nat /\ ServerOk(v, m, w.ids, n) /\ LinkOk(v, w.link[m])
        /\ w.link[m].to # m
    BY InvFacts, LinkIsNotOwn, Zenon
  <1>2. /\ v2.host = v.host /\ v2.state = v.state /\ v2.data = v.data /\ v2.offset = v.offset
        /\ v2.backlog = v.backlog /\ v2.replid = v.replid /\ v2.replid2 = v.replid2
        /\ v2.second = v.second /\ v2.master = v.master /\ v2.cached = v.cached
        /\ v2.initial = v.initial
        /\ v2.failover = v.failover /\ v2.target = v.target /\ v2.force = v.force
    BY Zenon DEF Only, Fields, Core
  <1>3. Shaped(w2) /\ w2.disk = w.disk /\ \A t \in Servers \ {m} : w2.srv[t] = w.srv[t]
    BY Zenon DEF Only
  <1>4. m \notin S /\ w2.link[m] = w.link[m]
    BY <1>1, Zenon DEF Closed, Slaves
  <1>5. OthersStay(w, w2, m) /\ TargetsOk(w2)
    BY <1>2, <1>3, ClosedStay, TargetsKept, Zenon DEF Closed
  <1>6. LinkOk(v2, w2.link[m]) /\ w2.link[m].to # m
    BY <1>1, <1>2, <1>4, Zenon DEF LinkOk
  <1>7. /\ Arriving(v2, w2.link[m]) <=> Arriving(v, w.link[m])
        /\ Coming(v2, w2.link[m]) = Coming(v, w.link[m])
    BY <1>2, <1>4, Zenon DEF Arriving, Coming
  <1>8. StaysSlave(w, w2, m)
    <2>1. \A o \in Servers \ {m} : m \in Slaves(w2, o) => m \in Slaves(w, o) /\ SlaveOk(w, o, m)
      BY <1>4, Zenon DEF Slaves, Inv, SlavesOk
    <2> QED BY <1>4, <1>7, <2>1, Zenon DEF StaysSlave, SlaveOk
  <1>9. Alone(v) => w.link[m].answer.type # "continue"
    BY InvFacts, Zenon DEF Histories, Private
  <1>10. SameHistory(v, v2)
    BY <1>2, Zenon DEF SameHistory
  <1>11. /\ ServerRole(v2) /\ (Known(v2) <=> Known(v)) /\ (Alone(v2) <=> Alone(v))
    BY <1>1, <1>2, Zenon DEF ServerOk, ServerRole, Known, Alone
  <1>12. /\ v2.master \in Marks /\ v2.cached \in Marks /\ v2.initial \in Marks
         /\ v2.state \in {"none", "connect", "psync", "transfer", "connected"}
    BY <1>1, <1>2, Zenon DEF ServerOk, ServerTypes
  <1> QED BY <1>3, <1>4, <1>5, <1>6, <1>7, <1>8, <1>9, <1>10, <1>11, <1>12, QuietStep, Zenon

SaveAt(w, m, B, L) == [w EXCEPT !.srv[m].bgsave = B, !.link = L]

(* Starting a BGSAVE changes the snapshot and the connections. *)
LEMMA BgsaveEffect ==
    ASSUME NEW w, Shaped(w), NEW m \in Servers, NEW B, NEW L \in [Servers -> Links],
           NEW w2, w2 = SaveAt(w, m, B, L)
    PROVE  /\ Only(w, w2, m, {"bgsave"}) /\ w2.ids = w.ids /\ w2.link = L
           /\ w2.srv[m].bgsave = B
  <1> DEFINE v == [w.srv[m] EXCEPT !.bgsave = B]
             S == [w.srv EXCEPT ![m] = v]
  <1>1. w2 = [srv |-> S, link |-> L, disk |-> w.disk, ids |-> w.ids]
    BY Zenon DEF Shaped, SaveAt
  <1>2. "bgsave" \in Fields
    BY Zenon DEF Fields, Core
  <1>3. DOMAIN v = Fields /\ v.bgsave = B /\ \A i \in Fields \ {"bgsave"} : v[i] = w.srv[m][i]
    BY <1>2, Zenon DEF Shaped
  <1> HIDE DEF v
  <1>4. DOMAIN S = Servers /\ S[m] = v /\ \A t \in Servers \ {m} : S[t] = w.srv[t]
    BY Zenon DEF Shaped
  <1> HIDE DEF S
  <1>5. Shaped(w2) /\ w2.srv = S /\ w2.link = L /\ w2.disk = w.disk /\ w2.ids = w.ids
    BY <1>1, <1>3, <1>4 DEF Shaped
  <1> QED BY <1>3, <1>4, <1>5, Zenon DEF Only

(* The slaves in S, which were waiting for a snapshot, are to get this one. *)
Serve(l, x) == [l EXCEPT !.phase = "end", !.answer = x]

Served(w, w2, S, x) ==
    \A r \in Servers : w2.link[r] = IF r \in S THEN Serve(w.link[r], x) ELSE w.link[r]

(* A slave that is served has the answer, and waits for the end of the BGSAVE. *)
LEMMA ServeFacts ==
    ASSUME NEW l \in Links, NEW x \in Answers
    PROVE  /\ Serve(l, x) \in Links /\ Serve(l, x).to = l.to /\ Serve(l, x).closed = l.closed
           /\ Serve(l, x).phase = "end" /\ Serve(l, x).answer = x /\ Serve(l, x).stream = l.stream
  BY Zenon DEF Serve, Links

(* What startBgsaveForReplication() does for the slaves that wait. *)
LEMMA ServeEffect ==
    ASSUME NEW w, NEW n \in Nat, Inv(w, n), NEW m \in Servers, Known(w.srv[m]), NEW w2,
           w2 = startBgsaveForReplication(w, m)
    PROVE  LET s == w.srv[m]
               x == ReplFull(s.replid, s.offset, Snapshot(s)) IN
           /\ Only(w, w2, m, {"bgsave"}) /\ w2.ids = w.ids /\ w2.srv[m].bgsave = <<Snapshot(s)>>
           /\ Served(w, w2, Waiting(w, m, "start"), x)
           /\ x \in Answers /\ x.type = "fullresync" /\ x.id = s.replid /\ x.off = s.offset
           /\ x.rdb = Snapshot(s)
  <1> DEFINE s == w.srv[m]
             x == ReplFull(s.replid, s.offset, Snapshot(s))
             L == [r \in Servers |-> IF r \in Waiting(w, m, "start") THEN Serve(w.link[r], x)
                                     ELSE w.link[r]]
  <1>1. /\ Shaped(w) /\ w.ids \in Nat /\ ServerOk(s, m, w.ids, n)
    BY InvFacts, Zenon
  <1>2. Snapshot(s) \in Rdbs /\ rdbPopulateSaveInfo(s) # NoMaster
    BY <1>1, SnapshotFacts, Zenon
  <1>3. s.replid \in Nat /\ s.offset \in Nat
    BY <1>1, ServerNumbers, Zenon
  <1>4. /\ x \in Answers /\ x.type = "fullresync" /\ x.id = s.replid /\ x.off = s.offset
        /\ x.rdb = Snapshot(s)
    BY <1>2, <1>3, AnswersAreAnswers
  <1>5. w2 = SaveAt(w, m, <<Snapshot(s)>>, L)
    BY <1>2, Zenon DEF startBgsaveForReplication, Serve, SaveAt
  <1> HIDE DEF x
  <1>6. L \in [Servers -> Links]
    BY <1>1, <1>4, ServeFacts, Zenon DEF Shaped
  <1>7. \A r \in Servers : L[r] = IF r \in Waiting(w, m, "start") THEN Serve(w.link[r], x)
                                  ELSE w.link[r]
    BY Zenon
  <1> HIDE DEF L
  <1>8. /\ Only(w, w2, m, {"bgsave"}) /\ w2.ids = w.ids /\ w2.link = L
        /\ w2.srv[m].bgsave = <<Snapshot(s)>>
    BY <1>1, <1>5, <1>6, BgsaveEffect
  <1>9. Served(w, w2, Waiting(w, m, "start"), x)
    BY <1>7, <1>8, Zenon DEF Served
  <1> QED BY <1>4, <1>8, <1>9, Zenon DEF x


(* startBgsaveForReplication() keeps the invariant if there is a place to record. *)
LEMMA ServeKeeps ==
    ASSUME NEW w, NEW n \in Nat, Inv(w, n), NEW m \in Servers, Known(w.srv[m])
    PROVE  Inv(startBgsaveForReplication(w, m), n)
  <1> DEFINE w2 == startBgsaveForReplication(w, m)
             s == w.srv[m]
             f == Snapshot(s)
             x == ReplFull(s.replid, s.offset, f)
             S == Waiting(w, m, "start")
  <1>1. /\ Shaped(w) /\ w.ids \in Nat /\ ServerOk(s, m, w.ids, n) /\ w.link[m].to # m
        /\ \A t \in Servers : w.link[t] \in Links
    BY InvFacts, LinkIsNotOwn, Zenon
  <1>2. /\ f \in Rdbs /\ f.rsi = [id |-> s.replid, off |-> s.offset] /\ f.rsi # NoMaster
        /\ FilePoint(f) = Here(s) /\ f.data = s.data
    BY <1>1, SnapshotFacts, Zenon
  <1>3. s.replid \in Nat /\ s.offset \in Nat /\ s.data \in Data
    BY <1>1, ServerNumbers, Zenon
  <1>4. /\ Only(w, w2, m, {"bgsave"}) /\ w2.ids = w.ids /\ w2.srv[m].bgsave = <<f>>
        /\ Served(w, w2, S, x)
        /\ x \in Answers /\ x.type = "fullresync" /\ x.id = s.replid /\ x.off = s.offset
        /\ x.rdb = f
    BY ServeEffect, Zenon
  <1> HIDE DEF w2, x, f
  <1>5. /\ Shaped(w2) /\ w2.disk = w.disk /\ \A t \in Servers \ {m} : w2.srv[t] = w.srv[t]
        /\ \A i \in Fields \ {"bgsave"} : w2.srv[m][i] = w.srv[m][i]
    BY <1>4, Zenon DEF Only
  <1>6. ASSUME NEW t \in Servers PROVE SameMind(w.srv[t], w2.srv[t])
    BY <1>5, Zenon DEF SameMind, Fields, Core
  <1>7. TargetsOk(w2)
    BY <1>5, TargetsKept DEF Fields, Core
  <1>8. \A t \in Servers : IsSnapshot(w2.srv[t].bgsave)
    <2>1. \A t \in Servers : ServerOk(w.srv[t], t, w.ids, n)
      BY InvFacts, Zenon
    <2> QED BY <1>2, <1>4, <1>5, <2>1 DEF IsSnapshot, ServerOk, ServerTypes
  (* The slaves that wait. *)
  <1>9. ASSUME NEW t \in S
        PROVE  /\ t \in Servers \ {m} /\ t \in Slaves(w, m) /\ HasBacklog(w, m)
               /\ w.srv[t].state = "psync" /\ w.link[t].stream = <<>>
               /\ w2.link[t].to = m /\ w2.link[t].to = w.srv[t].host
               /\ w2.link[t].phase = "end" /\ w2.link[t].answer = x /\ w2.link[t].stream = <<>>
               /\ w2.link[t].closed = w.link[t].closed
    <2>1. t \in Servers /\ t \in Slaves(w, m) /\ w.link[t].to = m /\ w.link[t].phase = "start"
      BY Zenon DEF Waiting, Slaves
    <2>2. LinkOk(w.srv[t], w.link[t]) /\ ServerOk(w.srv[t], t, w.ids, n) /\ w.link[t] \in Links
      BY <2>1, InvFacts, Zenon
    <2>3. /\ w.srv[t].state = "psync" /\ w.link[t].stream = <<>> /\ w.link[t].to = w.srv[t].host
      BY <2>1, <2>2, NoLinkIsALink, Zenon DEF LinkOk, ServerOk, ServerTypes
    <2>4. HasBacklog(w, m)
      BY <2>1, Zenon DEF Inv, SlavesOk, SlaveOk
    <2>5. w2.link[t] = Serve(w.link[t], x)
      BY <1>4, <2>1, Zenon DEF Served
    <2>6. LET l == Serve(w.link[t], x) IN
          /\ l.to = w.link[t].to /\ l.closed = w.link[t].closed
          /\ l.phase = "end" /\ l.answer = x /\ l.stream = w.link[t].stream
      BY <1>4, <2>2, ServeFacts, Zenon
    <2>7. t # m
      BY <1>1, <2>1, Zenon
    <2> QED BY <2>1, <2>3, <2>4, <2>5, <2>6, <2>7, Zenon
  <1>10. ASSUME NEW t \in Servers \ S PROVE w2.link[t] = w.link[t]
    BY <1>4, Zenon DEF Served
  <1>11. ASSUME NEW t \in S PROVE Coming(w2.srv[t], w2.link[t]) = Here(s)
    <2>1. s.offset + Len(<<>>) = s.offset /\ s.data \o <<>> = s.data
      <3>1. Len(<<>>) = 0 /\ s.data \o <<>> = s.data
        BY <1>3, DataFacts, Zenon
      <3> QED BY <1>3, <3>1
    <2> QED BY <1>2, <1>4, <1>9, <2>1 DEF Coming, Here
  <1>12. ASSUME NEW t \in Servers \ S
         PROVE  /\ Coming(w2.srv[t], w2.link[t]) = Coming(w.srv[t], w.link[t])
                /\ Arriving(w2.srv[t], w2.link[t]) <=> Arriving(w.srv[t], w.link[t])
    BY <1>6, <1>10, SameMindFacts
  <1>13. S \subseteq Servers
    BY Zenon DEF Waiting, Slaves
  <1>14. ASSUME NEW t \in Servers PROVE LinkOk(w2.srv[t], w2.link[t])
    <2>1. w2.srv[t].state = w.srv[t].state /\ w2.srv[t].host = w.srv[t].host
          /\ w2.srv[t].cached = w.srv[t].cached /\ w2.srv[t].initial = w.srv[t].initial
      BY <1>6, SameMindFacts
    <2>2. CASE t \in S
      <3>1. x.rdb.rsi = [id |-> x.id, off |-> x.off] /\ x.rdb.rsi # NoMaster /\ x.off \in Nat
        BY <1>2, <1>3, <1>4, Zenon
      <3> QED BY <1>4, <1>9, <2>1, <2>2, <3>1, Zenon DEF LinkOk
    <2>3. CASE t \notin S
      <3>1. LinkOk(w.srv[t], w.link[t]) /\ w2.link[t] = w.link[t]
        BY <1>10, <2>3, InvFacts, Zenon
      <3> QED BY <2>1, <3>1, Zenon DEF LinkOk
    <2> QED BY <2>2, <2>3, Zenon
  <1>15. SlavesOk(w2)
    <2> SUFFICES ASSUME NEW o \in Servers, NEW r \in Slaves(w2, o)
                 PROVE  SlaveOk(w2, o, r)
      BY Zenon DEF SlavesOk
    <2>1. Here(w2.srv[o]) = Here(w.srv[o]) /\ (HasBacklog(w2, o) <=> HasBacklog(w, o))
      BY <1>6, SameMindFacts DEF HasBacklog
    <2>2. CASE r \in S
      <3>1. o = m
        BY <1>9, <2>2, Zenon DEF Slaves
      <3> QED BY <1>4, <1>9, <1>11, <2>1, <2>2, <3>1, Zenon DEF SlaveOk
    <2>3. CASE r \notin S
      <3>1. r \in Servers \ S /\ w2.link[r] = w.link[r] /\ r \in Slaves(w, o)
        BY <1>10, <2>3, Zenon DEF Slaves
      <3>2. SlaveOk(w, o, r)
        BY <3>1, Zenon DEF Inv, SlavesOk
      <3> QED BY <1>12, <2>1, <3>1, <3>2, Zenon DEF SlaveOk
    <2> QED BY <2>2, <2>3, Zenon
  <1>16. Point(w, m, Here(s)) /\ Here(s).id = s.replid
    BY PlaceIsKnown, Zenon
  <1>17. ASSUME NEW t \in Servers PROVE Shared(w, w2, t)
    <2> SUFFICES ASSUME NEW p, Point(w2, t, p)
                 PROVE  \E u \in Servers : (u = t \/ HasBacklog(w, u)) /\ Point(w, u, p)
      BY Zenon DEF Shared
    <2>1. /\ (Known(w2.srv[t]) <=> Known(w.srv[t])) /\ Here(w2.srv[t]) = Here(w.srv[t])
          /\ (HasSecond(w2.srv[t]) <=> HasSecond(w.srv[t]))
          /\ Second(w2.srv[t]) = Second(w.srv[t])
      BY <1>6, SameMindFacts, Zenon
    <2>2. w2.srv[t].bgsave = w.srv[t].bgsave \/ (t = m /\ w2.srv[t].bgsave = <<f>>)
      BY <1>4, <1>5, Zenon
    <2>3. CASE t \in S
      <3>1. t # m /\ HasBacklog(w, m) /\ Coming(w2.srv[t], w2.link[t]) = Here(s)
        BY <1>9, <1>11, <2>3, Zenon
      <3>2. p = Here(s) \/ Point(w, t, p)
        BY <1>5, <2>1, <2>2, <3>1, Zenon DEF Point, IsPoint
      <3> QED BY <1>16, <3>1, <3>2, Zenon
    <2>4. CASE t \notin S
      <3>1. (p = FilePoint(f) /\ t = m) \/ Point(w, t, p)
        BY <1>5, <1>12, <2>1, <2>2, <2>4 DEF Point, IsPoint
      <3> QED BY <1>2, <1>16, <3>1, Zenon
    <2> QED BY <2>3, <2>4, Zenon
  <1>18. ASSUME NEW t \in Servers, Alone(w.srv[t])
         PROVE  w2.link[t].answer.type # "continue" /\ StaysAlone(w, w2, t)
    <2>1. w2.srv[t].replid = w.srv[t].replid
      BY <1>6, SameMindFacts, Zenon
    <2>2. CASE t \in S
      <3>1. m # t /\ Coming(w2.srv[t], w2.link[t]).id = Here(s).id /\ w2.link[t].answer = x
        BY <1>9, <1>11, <2>2, Zenon
      <3> QED BY <1>4, <1>16, <1>18, <2>1, <3>1, Zenon DEF StaysAlone
    <2>3. CASE t \notin S
      <3>1. w.link[t].answer.type # "continue"
        BY <1>18, InvFacts, Zenon DEF Histories, Private
      <3> QED BY <1>10, <1>12, <1>18, <2>1, <2>3, <3>1, Zenon DEF StaysAlone
    <2> QED BY <2>2, <2>3, Zenon
  <1>19. Inv(w2, n)
    BY <1>4, <1>5, <1>6, <1>7, <1>8, <1>14, <1>15, <1>17, <1>18, LinkStep, Zenon
  <1> QED BY <1>19, Zenon DEF w2

(* startBgsaveForReplication() keeps the invariant. *)
LEMMA StartBgsaveKeeps ==
    ASSUME NEW w, NEW n \in Nat, Inv(w, n), NEW m \in Servers
    PROVE  Inv(startBgsaveForReplication(w, m), n)
  <1> DEFINE w2 == startBgsaveForReplication(w, m)
             S  == Waiting(w, m, "start")
  <1>1. CASE Known(w.srv[m])
    BY <1>1, ServeKeeps, Zenon
  <1>2. CASE ~Known(w.srv[m])
    <2>1. /\ Shaped(w) /\ w.ids \in Nat /\ ServerOk(w.srv[m], m, w.ids, n)
      BY InvFacts, Zenon
    <2>2. rdbPopulateSaveInfo(w.srv[m]) = NoMaster
      BY <1>2, <2>1, SnapshotFacts, Zenon
    <2> DEFINE L == [r \in Servers |-> IF r \in S THEN [w.link[r] EXCEPT !.closed = TRUE]
                                       ELSE w.link[r]]
    <2>3. w2 = [w EXCEPT !.link = L]
      BY <2>2, Zenon DEF startBgsaveForReplication
    <2>4. L \in [Servers -> Links]
      BY <2>1, ClosedLinks, Zenon
    <2>5. \A r \in Servers : L[r] = IF r \in S THEN [w.link[r] EXCEPT !.closed = TRUE]
                                    ELSE w.link[r]
      BY Zenon
    <2> HIDE DEF L
    <2>6. Shaped(w2) /\ w2.srv = w.srv /\ w2.disk = w.disk /\ w2.ids = w.ids /\ w2.link = L
      BY <2>1, <2>3, <2>4, LinkEffect
    <2>7. Only(w, w2, m, {"bgsave"}) /\ Closed(w, w2, S) /\ S \subseteq Slaves(w, m)
      BY <2>5, <2>6, Zenon DEF Only, Closed, Waiting
    <2> HIDE DEF w2, S
    <2>8. Inv(w2, n)
      BY <2>6, <2>7, ClosedKeeps, Zenon
    <2> QED BY <2>8, Zenon DEF w2
  <1> QED BY <1>1, <1>2, Zenon


(* What a failed BGSAVE changes. *)
LEMMA FailedEffect ==
    ASSUME NEW w, Shaped(w), NEW s \in Servers, NEW w2, w2 = BgsaveFailed(w, s)
    PROVE  /\ Only(w, w2, s, {"bgsave"}) /\ w2.ids = w.ids /\ w2.srv[s].bgsave = <<>>
           /\ Closed(w, w2, Waiting(w, s, "end"))
  <1> DEFINE f == [bgsave |-> <<>>]
             c == Set(w, s, f)
             L == [r \in Servers |-> IF r \in Waiting(w, s, "end")
                                     THEN [w.link[r] EXCEPT !.closed = TRUE] ELSE w.link[r]]
  <1>1. DOMAIN f = {"bgsave"} /\ {"bgsave"} \subseteq Fields /\ f.bgsave = <<>>
    BY Zenon DEF Fields, Core
  <1>2. w2 = [c EXCEPT !.link = L]
    BY Zenon DEF BgsaveFailed
  <1>3. L \in [Servers -> Links]
    BY ClosedLinks, Zenon
  <1>4. \A r \in Servers : L[r] = IF r \in Waiting(w, s, "end")
                                  THEN [w.link[r] EXCEPT !.closed = TRUE] ELSE w.link[r]
    BY Zenon
  <1> HIDE DEF f, L
  <1>5. Only(w, c, s, {"bgsave"}) /\ c.ids = w.ids /\ c.srv[s].bgsave = <<>>
    BY <1>1, SetOnly
  <1> HIDE DEF c
  <1>6. Shaped(w2) /\ w2.srv = c.srv /\ w2.disk = c.disk /\ w2.ids = c.ids /\ w2.link = L
    BY <1>2, <1>3, <1>5, LinkEffect DEF Only
  <1> QED BY <1>4, <1>5, <1>6, Zenon DEF Only, Closed

(* A failed BGSAVE keeps the invariant: its slaves are dropped. *)
LEMMA FailedKeeps ==
    ASSUME NEW w, NEW n \in Nat, Inv(w, n), NEW s \in Servers
    PROVE  Inv(BgsaveFailed(w, s), n)
  <1> DEFINE w2 == BgsaveFailed(w, s)
             S  == Waiting(w, s, "end")
  <1>1. /\ Only(w, w2, s, {"bgsave"}) /\ w2.ids = w.ids /\ w2.srv[s].bgsave = <<>>
        /\ Closed(w, w2, S)
    BY InvFacts, FailedEffect, Zenon
  <1>2. S \subseteq Slaves(w, s)
    BY Zenon DEF Waiting
  <1> HIDE DEF w2, S
  <1>3. Inv(w2, n)
    BY <1>1, <1>2, ClosedKeeps, Zenon
  <1> QED BY <1>3 DEF w2

(* A new dump.rdb. *)
DiskAt(w, s, rdb) == [w EXCEPT !.disk[s] = rdb]

(* Replacing a file changes nothing else. *)
LEMMA DiskAtEffect ==
    ASSUME NEW w, Shaped(w), NEW s \in Servers, NEW rdb \in Rdbs, NEW w2, w2 = DiskAt(w, s, rdb)
    PROVE  /\ Shaped(w2) /\ w2.srv = w.srv /\ w2.link = w.link /\ w2.ids = w.ids
           /\ w2.disk[s] = rdb /\ \A t \in Servers \ {s} : w2.disk[t] = w.disk[t]
  <1> DEFINE D == [w.disk EXCEPT ![s] = rdb]
  <1>1. w2 = [srv |-> w.srv, link |-> w.link, disk |-> D, ids |-> w.ids]
    BY Zenon DEF Shaped, DiskAt
  <1>2. D \in [Servers -> Rdbs] /\ D[s] = rdb /\ \A t \in Servers \ {s} : D[t] = w.disk[t]
    BY Zenon DEF Shaped
  <1> HIDE DEF D
  <1> QED BY <1>1, <1>2 DEF Shaped

(* SAVE records a point. *)
LEMMA SaveKeeps ==
    ASSUME NEW w, NEW n \in Nat, Inv(w, n), NEW s \in Servers
    PROVE  /\ Inv(DiskAt(w, s, Snapshot(w.srv[s])), n)
           /\ DiskAt(w, s, Snapshot(w.srv[s])).srv = w.srv
  <1> DEFINE f  == Snapshot(w.srv[s])
             w2 == DiskAt(w, s, f)
  <1>1. Shaped(w) /\ w.ids \in Nat /\ ServerOk(w.srv[s], s, w.ids, n)
    BY InvFacts, Zenon
  <1>2. /\ f \in Rdbs
        /\ f.rsi # NoMaster => Known(w.srv[s]) /\ FilePoint(f) = Here(w.srv[s])
    BY <1>1, SnapshotFacts, Zenon
  <1> HIDE DEF f
  <1>3. /\ Shaped(w2) /\ w2.srv = w.srv /\ w2.link = w.link /\ w2.ids = w.ids
        /\ w2.disk[s] = f /\ \A t \in Servers \ {s} : w2.disk[t] = w.disk[t]
    BY <1>1, <1>2, DiskAtEffect
  <1> HIDE DEF w2
  <1>4. TargetsOk(w2) /\ SlavesOk(w2)
    <2>1. \A t \in Servers : TargetOk(w.srv[t], t)
      BY Zenon DEF Inv
    <2>2. \A o \in Servers : Slaves(w2, o) = Slaves(w, o)
      BY <1>3, Zenon DEF Slaves
    <2>3. \A o \in Servers : \A r \in Slaves(w, o) : SlaveOk(w, o, r)
      BY Zenon DEF Inv, SlavesOk
    <2> QED BY <1>3, <2>1, <2>2, <2>3, Zenon DEF TargetsOk, SlavesOk, SlaveOk, HasBacklog
  <1>5. ASSUME NEW t \in Servers
        PROVE  /\ SameMind(w.srv[t], w2.srv[t]) /\ IsSnapshot(w2.srv[t].bgsave)
               /\ LinkOk(w2.srv[t], w2.link[t])
    <2>1. ServerOk(w.srv[t], t, w.ids, n) /\ LinkOk(w.srv[t], w.link[t])
      BY InvFacts, Zenon
    <2> QED BY <1>3, <2>1, Zenon DEF SameMind, IsSnapshot, ServerOk, ServerTypes
  <1>6. ASSUME NEW t \in Servers PROVE Shared(w, w2, t)
    <2> SUFFICES ASSUME NEW p, Point(w2, t, p) PROVE Point(w, t, p)
      BY Zenon DEF Shared
    <2>1. CASE t # s
      BY <1>3, <2>1, Zenon DEF Point
    <2>2. CASE t = s
      BY <1>2, <1>3, <2>2, Zenon DEF Point, IsPoint
    <2> QED BY <2>1, <2>2, Zenon
  <1>7. ASSUME NEW t \in Servers, Alone(w.srv[t])
        PROVE  w2.link[t].answer.type # "continue" /\ StaysAlone(w, w2, t)
    <2>1. w.link[t].answer.type # "continue"
      BY <1>7, InvFacts, Zenon DEF Histories, Private
    <2> QED BY <1>3, <1>7, <2>1, Zenon DEF StaysAlone
  <1>8. Inv(w2, n)
    BY <1>3, <1>4, <1>5, <1>6, <1>7, LinkStep, Zenon
  <1> QED BY <1>3, <1>8, Zenon DEF w2, f

(* The BGSAVE child is done. *)
Done(w, s) ==
    [Set(w, s, [bgsave |-> <<>>]) EXCEPT
         !.disk[s] = w.srv[s].bgsave[1],
         !.link = [r \in Servers |->
             IF r \in Waiting(w, s, "end")
             THEN [w.link[r] EXCEPT !.phase = "online"] ELSE w.link[r]]]

Online(l) == [l EXCEPT !.phase = "online"]

(* A slave that is put online keeps its answer and stream. *)
LEMMA OnlineFacts ==
    ASSUME NEW l \in Links
    PROVE  /\ Online(l) \in Links /\ Online(l).to = l.to /\ Online(l).closed = l.closed
           /\ Online(l).phase = "online" /\ Online(l).answer = l.answer
           /\ Online(l).stream = l.stream
  BY Zenon DEF Online, Links

(* What the end of a BGSAVE changes. *)
LEMMA DoneEffect ==
    ASSUME NEW w, Shaped(w), NEW s \in Servers, w.srv[s].bgsave[1] \in Rdbs,
           NEW w2, w2 = Done(w, s)
    PROVE  /\ Shaped(w2) /\ \A t \in Servers \ {s} : w2.srv[t] = w.srv[t]
           /\ \A i \in Fields \ {"bgsave"} : w2.srv[s][i] = w.srv[s][i]
           /\ w2.srv[s].bgsave = <<>> /\ w2.ids = w.ids
           /\ w2.disk[s] = w.srv[s].bgsave[1] /\ \A t \in Servers \ {s} : w2.disk[t] = w.disk[t]
           /\ \A r \in Servers : w2.link[r] = IF r \in Waiting(w, s, "end") THEN Online(w.link[r])
                                              ELSE w.link[r]
  <1> DEFINE f == [bgsave |-> <<>>]
             c == Set(w, s, f)
             d == DiskAt(c, s, w.srv[s].bgsave[1])
             L == [r \in Servers |-> IF r \in Waiting(w, s, "end") THEN Online(w.link[r])
                                     ELSE w.link[r]]
  <1>1. DOMAIN f = {"bgsave"} /\ {"bgsave"} \subseteq Fields /\ f.bgsave = <<>>
    BY Zenon DEF Fields, Core
  <1>2. L \in [Servers -> Links]
    BY OnlineFacts, Zenon DEF Shaped
  <1>3. \A r \in Servers : L[r] = IF r \in Waiting(w, s, "end") THEN Online(w.link[r])
                                  ELSE w.link[r]
    BY Zenon
  <1>4. w2 = [c EXCEPT !.disk[s] = w.srv[s].bgsave[1], !.link = L]
    BY Zenon DEF Done, Online
  <1> HIDE DEF f, L
  <1>5. Only(w, c, s, {"bgsave"}) /\ c.ids = w.ids /\ c.srv[s].bgsave = <<>>
    BY <1>1, SetOnly
  <1> HIDE DEF c
  <1>6. w2 = [d EXCEPT !.link = L]
    BY <1>4, Zenon DEF DiskAt
  <1>7. /\ Shaped(d) /\ d.srv = c.srv /\ d.link = c.link /\ d.ids = c.ids
        /\ d.disk[s] = w.srv[s].bgsave[1] /\ \A t \in Servers \ {s} : d.disk[t] = c.disk[t]
    BY <1>5, DiskAtEffect DEF Only
  <1> HIDE DEF d
  <1>8. Shaped(w2) /\ w2.srv = d.srv /\ w2.disk = d.disk /\ w2.ids = d.ids /\ w2.link = L
    BY <1>2, <1>6, <1>7, LinkEffect
  <1> QED BY <1>3, <1>5, <1>7, <1>8 DEF Only


(* The end of a BGSAVE keeps the invariant: its slaves are put online. *)
LEMMA DoneKeeps ==
    ASSUME NEW w, NEW n \in Nat, Inv(w, n), NEW m \in Servers, w.srv[m].bgsave # <<>>
    PROVE  /\ Inv(Done(w, m), n)
           /\ \A s \in Servers : Aside(w.srv[s], Done(w, m).srv[s])
  <1> DEFINE w2 == Done(w, m)
             f == w.srv[m].bgsave[1]
             S == Waiting(w, m, "end")
  <1>1. /\ Shaped(w) /\ w.ids \in Nat /\ ServerOk(w.srv[m], m, w.ids, n)
        /\ \A t \in Servers : w.link[t] \in Links
    BY InvFacts, Zenon
  <1>2. f \in Rdbs
    BY <1>1 DEF ServerOk, ServerTypes
  <1>3. /\ Shaped(w2) /\ \A t \in Servers \ {m} : w2.srv[t] = w.srv[t]
        /\ \A i \in Fields \ {"bgsave"} : w2.srv[m][i] = w.srv[m][i]
        /\ w2.srv[m].bgsave = <<>> /\ w2.ids = w.ids
        /\ w2.disk[m] = f /\ \A t \in Servers \ {m} : w2.disk[t] = w.disk[t]
        /\ \A r \in Servers : w2.link[r] = IF r \in S THEN Online(w.link[r]) ELSE w.link[r]
    BY <1>1, <1>2, DoneEffect
  <1> HIDE DEF w2
  <1>4. ASSUME NEW t \in Servers PROVE SameMind(w.srv[t], w2.srv[t])
    BY <1>3, Zenon DEF SameMind, Fields, Core
  <1>5. TargetsOk(w2) /\ \A s \in Servers : Aside(w.srv[s], w2.srv[s])
    BY <1>3, TargetsKept DEF Fields, Core, Aside
  <1>6. \A t \in Servers : IsSnapshot(w2.srv[t].bgsave)
    <2>1. \A t \in Servers : ServerOk(w.srv[t], t, w.ids, n)
      BY InvFacts, Zenon
    <2> QED BY <1>3, <2>1 DEF IsSnapshot, ServerOk, ServerTypes
  <1>7. ASSUME NEW t \in Servers
        PROVE  /\ w2.link[t].to = w.link[t].to /\ w2.link[t].answer = w.link[t].answer
               /\ w2.link[t].stream = w.link[t].stream /\ w2.link[t].closed = w.link[t].closed
               /\ \/ w2.link[t] = w.link[t]
                  \/ t \in S /\ w.link[t].phase = "end" /\ w2.link[t].phase = "online"
    BY <1>1, <1>3, OnlineFacts DEF Waiting
  <1>8. ASSUME NEW t \in Servers
        PROVE  /\ Coming(w2.srv[t], w2.link[t]) = Coming(w.srv[t], w.link[t])
               /\ Arriving(w2.srv[t], w2.link[t]) <=> Arriving(w.srv[t], w.link[t])
    <2>1. /\ w2.srv[t].state = w.srv[t].state /\ w2.srv[t].replid = w.srv[t].replid
          /\ w2.srv[t].offset = w.srv[t].offset /\ w2.srv[t].data = w.srv[t].data
      BY <1>4, SameMindFacts
    <2> QED BY <1>7, <2>1, Zenon DEF Coming, Arriving
  <1>9. ASSUME NEW t \in Servers PROVE LinkOk(w2.srv[t], w2.link[t])
    <2>1. w2.srv[t].state = w.srv[t].state /\ w2.srv[t].host = w.srv[t].host
          /\ w2.srv[t].cached = w.srv[t].cached /\ w2.srv[t].initial = w.srv[t].initial
      BY <1>4, SameMindFacts
    <2>2. LinkOk(w.srv[t], w.link[t])
      BY InvFacts, Zenon
    <2>3. CASE w2.link[t] = w.link[t]
      BY <2>1, <2>2, <2>3, Zenon DEF LinkOk
    <2>4. CASE t \in S /\ w.link[t].phase = "end" /\ w2.link[t].phase = "online"
      BY <1>7, <2>1, <2>2, <2>4, NoLinkIsALink DEF LinkOk
    <2> QED BY <1>7, <2>3, <2>4, Zenon
  <1>10. SlavesOk(w2)
    <2> SUFFICES ASSUME NEW o \in Servers, NEW r \in Slaves(w2, o)
                 PROVE  SlaveOk(w2, o, r)
      BY Zenon DEF SlavesOk
    <2>1. Here(w2.srv[o]) = Here(w.srv[o]) /\ (HasBacklog(w2, o) <=> HasBacklog(w, o))
      BY <1>4, SameMindFacts DEF HasBacklog
    <2>2. r \in Servers /\ r \in Slaves(w, o)
      BY <1>7, Zenon DEF Slaves
    <2>3. SlaveOk(w, o, r)
      BY <2>2, Zenon DEF Inv, SlavesOk
    <2> QED BY <1>7, <1>8, <2>1, <2>2, <2>3, Zenon DEF SlaveOk
  <1>11. ASSUME NEW t \in Servers PROVE Shared(w, w2, t)
    <2> SUFFICES ASSUME NEW p, Point(w2, t, p) PROVE Point(w, t, p)
      BY Zenon DEF Shared
    <2>1. /\ (Known(w2.srv[t]) <=> Known(w.srv[t])) /\ Here(w2.srv[t]) = Here(w.srv[t])
          /\ (HasSecond(w2.srv[t]) <=> HasSecond(w.srv[t]))
          /\ Second(w2.srv[t]) = Second(w.srv[t])
      BY <1>4, SameMindFacts, Zenon
    <2>2. \/ w2.srv[t].bgsave = w.srv[t].bgsave /\ w2.disk[t] = w.disk[t]
          \/ t = m /\ w2.srv[t].bgsave = <<>> /\ w2.disk[t] = w.srv[t].bgsave[1]
      BY <1>3, Zenon
    <2> QED BY <1>8, <2>1, <2>2, Zenon DEF Point, IsPoint
  <1>12. ASSUME NEW t \in Servers, Alone(w.srv[t])
         PROVE  w2.link[t].answer.type # "continue" /\ StaysAlone(w, w2, t)
    <2>1. w2.srv[t].replid = w.srv[t].replid
      BY <1>4, SameMindFacts, Zenon
    <2>2. w.link[t].answer.type # "continue"
      BY <1>12, InvFacts, Zenon DEF Histories, Private
    <2> QED BY <1>7, <1>8, <1>12, <2>1, <2>2, Zenon DEF StaysAlone
  <1>13. Inv(w2, n)
    BY <1>3, <1>4, <1>5, <1>6, <1>9, <1>10, <1>11, <1>12, LinkStep, Zenon
  <1> QED BY <1>5, <1>13, Zenon DEF w2


-----------------------------------------------------------------------------
(* The replica's side. *)

(* replicationResurrectCachedMaster() makes the cached master the master. *)
LEMMA ResurrectEffect ==
    ASSUME NEW w, Shaped(w), NEW r \in Servers, NEW w2, w2 = replicationResurrectCachedMaster(w, r)
    PROVE  /\ Only(w, w2, r, {"master", "cached", "state"}) /\ w2.link = w.link /\ w2.ids = w.ids
           /\ w2.srv[r].master = w.srv[r].cached /\ w2.srv[r].cached = NoMaster
           /\ w2.srv[r].state = "connected"
  <1> DEFINE f == [master |-> w.srv[r].cached, cached |-> NoMaster, state |-> "connected"]
  <1>1. /\ DOMAIN f = {"master", "cached", "state"} /\ {"master", "cached", "state"} \subseteq Fields
        /\ f.master = w.srv[r].cached /\ f.cached = NoMaster /\ f.state = "connected"
    BY Zenon DEF Fields, Core
  <1>2. w2 = Set(w, r, f)
    BY Zenon DEF replicationResurrectCachedMaster
  <1> HIDE DEF f
  <1> QED BY <1>1, <1>2, SetOnly

WithId(k, id) == [k EXCEPT !.id = id]

NewIdFields == {"replid2", "second", "replid", "cached"}

NewId(w, r, id) ==
    disconnectSlaves(Set(w, r, [replid2 |-> w.srv[r].cached.id, second |-> w.srv[r].offset + 1,
                                replid |-> id, cached |-> [w.srv[r].cached EXCEPT !.id = id]]), r)

(* A new ID of the same history: the old one becomes the second. *)
LEMMA NewIdEffect ==
    ASSUME NEW w, Shaped(w), NEW r \in Servers, NEW id, NEW w2, w2 = NewId(w, r, id)
    PROVE  /\ Only(w, w2, r, NewIdFields) /\ w2.ids = w.ids /\ Closed(w, w2, Slaves(w, r))
           /\ w2.srv[r].replid2 = w.srv[r].cached.id /\ w2.srv[r].second = w.srv[r].offset + 1
           /\ w2.srv[r].replid = id /\ w2.srv[r].cached = WithId(w.srv[r].cached, id)
  <1> DEFINE f == [replid2 |-> w.srv[r].cached.id, second |-> w.srv[r].offset + 1,
                   replid |-> id, cached |-> [w.srv[r].cached EXCEPT !.id = id]]
             c == Set(w, r, f)
  <1>1. /\ DOMAIN f = NewIdFields /\ NewIdFields \subseteq Fields
        /\ f.replid2 = w.srv[r].cached.id /\ f.second = w.srv[r].offset + 1
        /\ f.replid = id /\ f.cached = WithId(w.srv[r].cached, id)
        /\ {"replid2", "second", "replid", "cached"} = NewIdFields
    BY Zenon DEF Fields, Core, NewIdFields, WithId
  <1>2. w2 = disconnectSlaves(c, r)
    BY Zenon DEF NewId
  <1> HIDE DEF f
  <1>3. /\ Only(w, c, r, NewIdFields) /\ c.link = w.link /\ c.ids = w.ids
        /\ \A i \in NewIdFields : c.srv[r][i] = f[i]
    BY <1>1, SetOnly
  <1> HIDE DEF c
  <1>4. /\ Shaped(w2) /\ w2.srv = c.srv /\ w2.disk = c.disk /\ w2.ids = c.ids
        /\ Closed(c, w2, Slaves(c, r))
    BY <1>2, <1>3, DisconnectEffect, Zenon DEF Only
  <1>5. Slaves(c, r) = Slaves(w, r)
    BY <1>3, Zenon DEF Slaves
  <1>6. Closed(w, w2, Slaves(w, r))
    BY <1>3, <1>4, <1>5, Zenon DEF Closed
  <1>7. /\ "replid2" \in NewIdFields /\ "second" \in NewIdFields /\ "replid" \in NewIdFields
        /\ "cached" \in NewIdFields
    BY Zenon DEF NewIdFields
  <1> QED BY <1>1, <1>3, <1>4, <1>6, <1>7, Zenon DEF Only

ContinueRead(w, r) ==
    PsyncContinue(FailoverAnswered(Read(w, r), r), r, w.link[r].answer.id)

ContinueSame(w, w2, r) ==
    LET v == w.srv[r]
        v2 == w2.srv[r] IN
    /\ v2.replid = v.replid /\ v2.replid2 = v.replid2 /\ v2.second = v.second
    /\ v2.master = v.cached /\ \A t \in Servers \ {r} : w2.link[t] = w.link[t]

ContinueOther(w, w2, r) ==
    LET v == w.srv[r]
        v2 == w2.srv[r]
        id == w.link[r].answer.id IN
    /\ v2.replid = id /\ v2.replid2 = v.cached.id /\ v2.second = v.offset + 1
    /\ v2.master = WithId(v.cached, id)
    /\ \A t \in Servers \ {r} :
          w2.link[t] = IF t \in Slaves(w, r) THEN [w.link[t] EXCEPT !.closed = TRUE]
                       ELSE w.link[t]

(* What reading +CONTINUE does. *)
LEMMA ContinueEffect ==
    ASSUME NEW w, Shaped(w), NEW r \in Servers, w.link[r].to # r, NEW w2, w2 = ContinueRead(w, r)
    PROVE  LET v == w.srv[r]
               v2 == w2.srv[r] IN
           /\ Shaped(w2) /\ w2.disk = w.disk /\ w2.ids = w.ids
           /\ \A t \in Servers \ {r} : w2.srv[t] = w.srv[t]
           /\ Aside(v, v2)
           /\ v2.host = v.host /\ v2.data = v.data /\ v2.offset = v.offset
           /\ v2.initial = v.initial /\ v2.bgsave = v.bgsave
           /\ v2.state = "connected" /\ v2.cached = NoMaster
           /\ v2.backlog = IF v.backlog # NoBacklog THEN v.backlog ELSE NewLog(v.offset)
           /\ w2.link[r].to = w.link[r].to /\ w2.link[r].closed = w.link[r].closed
           /\ w2.link[r].phase = w.link[r].phase /\ w2.link[r].stream = w.link[r].stream
           /\ w2.link[r].answer = NoAnswer
           /\ w.link[r].answer.id = v.cached.id => ContinueSame(w, w2, r)
           /\ w.link[r].answer.id # v.cached.id => ContinueOther(w, w2, r)
  <1> DEFINE b  == Read(w, r)
             c  == FailoverAnswered(b, r)
             id == w.link[r].answer.id
             e  == IF id = c.srv[r].cached.id THEN c ELSE NewId(c, r, id)
             g  == replicationResurrectCachedMaster(e, r)
             v  == w.srv[r]
             v2 == w2.srv[r]
  <1>1. w2 = createReplicationBacklog(g, r)
    BY Zenon DEF ContinueRead, PsyncContinue, NewId
  <1>2. /\ Shaped(b) /\ b.srv = w.srv /\ b.disk = w.disk /\ b.ids = w.ids
        /\ \A t \in Servers \ {r} : b.link[t] = w.link[t]
        /\ b.link[r].to = w.link[r].to /\ b.link[r].closed = w.link[r].closed
        /\ b.link[r].phase = w.link[r].phase /\ b.link[r].answer = NoAnswer
        /\ b.link[r].stream = w.link[r].stream
    BY ReadEffect
  <1> HIDE DEF b
  <1>3. /\ Only(b, c, r, {"failover", "target", "force"}) /\ c.link = b.link /\ c.ids = b.ids
        /\ Aside(b.srv[r], c.srv[r])
    BY <1>2, AnsweredEffect, Zenon
  <1> HIDE DEF c
  <1>4. Slaves(c, r) = Slaves(w, r) /\ r \notin Slaves(w, r)
    BY <1>2, <1>3, Zenon DEF Slaves
  <1>5. \A i \in Core : c.srv[r][i] = v[i]
    BY <1>2, <1>3, Zenon DEF Only, Fields, Core
  <1>6. c.srv[r].cached = v.cached /\ c.srv[r].offset = v.offset /\ c.srv[r].replid = v.replid
        /\ c.srv[r].replid2 = v.replid2 /\ c.srv[r].second = v.second
    BY <1>5, Zenon DEF Core
  <1>7. /\ Only(c, e, r, NewIdFields) /\ e.ids = c.ids
        /\ id = v.cached.id => e = c
        /\ id # v.cached.id =>
              /\ e.srv[r].replid = id /\ e.srv[r].replid2 = v.cached.id
              /\ e.srv[r].second = v.offset + 1
              /\ e.srv[r].cached = WithId(v.cached, id)
              /\ Closed(c, e, Slaves(w, r))
    <2>1. CASE id = v.cached.id
      <3>1. e = c
        BY <1>6, <2>1, Zenon
      <3> HIDE DEF e
      <3> QED BY <1>3, <2>1, <3>1, Zenon DEF Only
    <2>2. CASE id # v.cached.id
      <3>1. e = NewId(c, r, id)
        BY <1>6, <2>2, Zenon
      <3> HIDE DEF e
      <3>2. /\ Only(c, e, r, NewIdFields) /\ e.ids = c.ids /\ Closed(c, e, Slaves(c, r))
            /\ e.srv[r].replid2 = c.srv[r].cached.id /\ e.srv[r].second = c.srv[r].offset + 1
            /\ e.srv[r].replid = id /\ e.srv[r].cached = WithId(c.srv[r].cached, id)
        <4>1. Shaped(c)
          BY <1>3, Zenon DEF Only
        <4>2. \A y : e = NewId(c, r, y) =>
                  /\ Only(c, e, r, NewIdFields) /\ e.ids = c.ids /\ Closed(c, e, Slaves(c, r))
                  /\ e.srv[r].replid2 = c.srv[r].cached.id /\ e.srv[r].second = c.srv[r].offset + 1
                  /\ e.srv[r].replid = y /\ e.srv[r].cached = WithId(c.srv[r].cached, y)
          BY <4>1, NewIdEffect
        <4> QED BY <3>1, <4>2, Zenon
      <3> QED BY <1>4, <1>6, <2>2, <3>2, Zenon
    <2> QED BY <2>1, <2>2, Zenon
  <1> HIDE DEF e
  <1>8. /\ Only(e, g, r, {"master", "cached", "state"}) /\ g.link = e.link /\ g.ids = e.ids
        /\ g.srv[r].master = e.srv[r].cached /\ g.srv[r].cached = NoMaster
        /\ g.srv[r].state = "connected"
    BY <1>7, ResurrectEffect DEF Only
  <1> HIDE DEF g
  <1>9. /\ Only(g, w2, r, {"backlog"}) /\ w2.link = g.link /\ w2.ids = g.ids
        /\ w2.srv[r].backlog = IF HasBacklog(g, r) THEN g.srv[r].backlog
                               ELSE [offset |-> g.srv[r].offset + 1, histlen |-> 0]
    BY <1>1, <1>8, CreateEffect DEF Only
  <1>10. /\ Shaped(w2) /\ w2.disk = w.disk /\ w2.ids = w.ids
         /\ \A t \in Servers \ {r} : w2.srv[t] = w.srv[t]
    BY <1>2, <1>3, <1>7, <1>8, <1>9 DEF Only
  <1>11. \A i \in Fields \ {"replid2", "second", "replid", "cached", "master", "state", "backlog"} :
            v2[i] = c.srv[r][i]
    BY <1>7, <1>8, <1>9, Zenon DEF Only, NewIdFields
  <1>12. /\ v2.host = v.host /\ v2.data = v.data /\ v2.offset = v.offset
         /\ v2.initial = v.initial /\ v2.bgsave = v.bgsave
         /\ v2.failover = c.srv[r].failover /\ v2.target = c.srv[r].target
         /\ v2.force = c.srv[r].force
    BY <1>5, <1>11, Zenon DEF Fields, Core
  <1>13. Aside(v, v2)
    BY <1>2, <1>3, <1>12, Zenon DEF Aside
  <1>14. g.srv[r].backlog = v.backlog /\ g.srv[r].offset = v.offset
    BY <1>5, <1>7, <1>8 DEF Only, Fields, Core, NewIdFields
  <1>15. v2.backlog = IF v.backlog # NoBacklog THEN v.backlog ELSE NewLog(v.offset)
    BY <1>9, <1>14, Zenon DEF HasBacklog, NewLog
  <1>16. /\ v2.state = "connected" /\ v2.cached = NoMaster /\ v2.master = e.srv[r].cached
         /\ v2.replid = e.srv[r].replid /\ v2.replid2 = e.srv[r].replid2
         /\ v2.second = e.srv[r].second
    BY <1>8, <1>9, Zenon DEF Only, Fields, Core
  <1>17. e.link[r] = c.link[r]
    BY <1>4, <1>7, Zenon DEF Closed
  <1>18. id = v.cached.id => ContinueSame(w, w2, r)
    BY <1>2, <1>3, <1>6, <1>7, <1>8, <1>9, <1>16 DEF ContinueSame
  <1>19. id # v.cached.id => ContinueOther(w, w2, r)
    BY <1>2, <1>3, <1>7, <1>8, <1>9, <1>16 DEF ContinueOther, Closed
  <1> QED BY <1>2, <1>3, <1>8, <1>9, <1>10, <1>12, <1>13, <1>15, <1>16, <1>17, <1>18, <1>19, Zenon


(* +CONTINUE is read: the cached master goes on, perhaps under another ID. *)
LEMMA ContinueKeeps ==
    ASSUME NEW w, NEW n \in Nat, Inv(w, n), NEW r \in Servers, w.link[r].answer.type = "continue"
    PROVE  /\ Inv(ContinueRead(w, r), n)
           /\ \A s \in Servers : Aside(w.srv[s], ContinueRead(w, r).srv[s])
  <1> DEFINE w2 == ContinueRead(w, r)
             v  == w.srv[r]
             v2 == w2.srv[r]
             l  == w.link[r]
             l2 == w2.link[r]
             id == l.answer.id
  <1>1. /\ Shaped(w) /\ w.ids \in Nat /\ ServerOk(v, r, w.ids, n) /\ LinkOk(v, l)
        /\ l.to # r /\ l \in Links /\ Histories(w, n)
    BY InvFacts, LinkIsNotOwn, Zenon
  <1>2. /\ v.state = "psync" /\ l.phase = "online" /\ v.cached # NoMaster /\ l.to = v.host
    BY <1>1, NoLinkIsALink, Zenon DEF LinkOk, ServerOk, ServerTypes
  <1>3. ~Alone(v)
    BY <1>1, Zenon DEF Histories, Private
  <1>4. /\ Shaped(w2) /\ w2.disk = w.disk /\ w2.ids = w.ids
        /\ \A t \in Servers \ {r} : w2.srv[t] = w.srv[t]
        /\ Aside(v, v2)
    BY <1>1, ContinueEffect
  <1>5. /\ v2.host = v.host /\ v2.data = v.data /\ v2.offset = v.offset
        /\ v2.initial = v.initial /\ v2.bgsave = v.bgsave
        /\ v2.state = "connected" /\ v2.cached = NoMaster
        /\ v2.backlog = IF v.backlog # NoBacklog THEN v.backlog ELSE NewLog(v.offset)
    BY <1>1, ContinueEffect
  <1>6. /\ l2.to = l.to /\ l2.closed = l.closed /\ l2.phase = l.phase /\ l2.stream = l.stream
        /\ l2.answer = NoAnswer
    BY <1>1, ContinueEffect
  <1>7. /\ id = v.cached.id => ContinueSame(w, w2, r)
        /\ id # v.cached.id => ContinueOther(w, w2, r)
    BY <1>1, ContinueEffect, Zenon
  <1> HIDE DEF w2
  <1>8. /\ v.cached = [id |-> v.replid, off |-> v.offset] /\ v.cached.id = v.replid
        /\ Known(v) /\ v.host \in Servers \ {r} /\ v.host # NoOne
    BY <1>1, <1>2, BoundsAssumption DEF ServerOk, ServerRole, ServerTypes, Known
  <1>9. /\ v.offset \in Nat /\ v.offset <= n /\ v.data \in Data /\ v.replid \in Nat \ {0}
        /\ v.replid \in 1 .. w.ids /\ v.replid2 \in 0 .. w.ids /\ v.second \in Int
        /\ l.stream \in Data
    BY <1>1, ServerNumbers, Zenon DEF Links
  <1>10. l2.answer.type = "none"
    BY <1>6, AnswersAreAnswers, Zenon
  <1>11. OthersStay(w, w2, r) /\ TargetsOk(w2)
    <2>1. \A t \in Servers \ {r} :
              w2.link[t] = w.link[t] \/ (t \in Slaves(w, r) /\ w2.link[t] = [w.link[t] EXCEPT !.closed = TRUE])
      BY <1>7, Zenon DEF ContinueSame, ContinueOther
    <2>2. OthersStay(w, w2, r)
      BY <1>4, <2>1, ClosedStay, Zenon
    <2>3. Aside(w.srv[r], w2.srv[r])
      BY <1>4, Zenon
    <2>4. TargetsOk(w2)
      BY <1>4, <2>3, TargetsAside, Zenon
    <2> QED BY <2>2, <2>4, Zenon
  <1> HIDE DEF v, v2, l, l2
  <1>12. Arriving(v, l) /\ Coming(v, l) = Pt(id, v.offset + Len(l.stream), v.data \o l.stream)
    BY Zenon DEF Arriving, Coming, l
  <1>13. Point(w, r, Coming(v, l)) /\ Sound(Coming(v, l)) /\ id \in 1 .. w.ids
    <2>1. Point(w, r, Coming(v, l))
      BY <1>12, Zenon DEF Point, IsPoint, v, l
    <2>2. PointsOk(w, n)
      BY <1>1, Zenon DEF Histories
    <2>3. Sound(Coming(v, l)) /\ Coming(v, l).id \in 1 .. w.ids
      BY <2>1, <2>2 DEF PointsOk, Sound
    <2>4. Coming(v, l).id = id
      BY <1>12 DEF Pt
    <2> QED BY <2>1, <2>3, <2>4, Zenon
  (* What holds of both kinds of answer. *)
  <1>14. /\ v2.replid = id /\ v2.master = [id |-> id, off |-> v.offset]
         /\ v2.replid2 \in 0 .. w.ids /\ v2.second \in Int
    <2>1. CASE id = v.cached.id
      BY <1>7, <1>8, <1>9, <2>1, Zenon DEF ContinueSame, v, v2, l
    <2>2. CASE id # v.cached.id
      <3>1. WithId(v.cached, id) = [id |-> id, off |-> v.offset]
        BY <1>8 DEF WithId
      <3>2. v2.replid = id /\ v2.replid2 = v.cached.id /\ v2.second = v.offset + 1
            /\ v2.master = WithId(v.cached, id)
        BY <1>7, <2>2, Zenon DEF ContinueOther, v, v2, l
      <3>3. v.offset + 1 \in Int /\ v.replid \in 0 .. w.ids
        BY <1>1, <1>9
      <3> QED BY <1>8, <3>1, <3>2, <3>3, Zenon
    <2> QED BY <2>1, <2>2, Zenon
  <1>15. v2.backlog # NoBacklog /\ v2.backlog \in [offset : Int, histlen : Int]
         /\ v2.backlog.histlen \in 0 .. BacklogSize
         /\ v2.backlog.offset + v2.backlog.histlen = v2.offset + 1
    <2>1. CASE v.backlog # NoBacklog
      BY <1>1, <1>5, <2>1, Zenon DEF ServerOk, ServerTypes, ServerLog
    <2>2. CASE v.backlog = NoBacklog
      BY <1>5, <1>9, <2>2, NewLogFacts, Zenon
    <2> QED BY <2>1, <2>2, Zenon
  <1>16. [id |-> id, off |-> v.offset] # NoMaster /\ v2.master \in Marks
    BY <1>9, <1>13, <1>14 DEF NoMaster, NoId, Marks
  <1>17. /\ Coming(v2, l2) = Coming(v, l) /\ Here(v2) = Pt(id, v.offset, v.data)
    BY <1>5, <1>6, <1>10, <1>12, <1>14, Zenon DEF Coming, Here
  <1>18. Sound(Here(v2)) /\ From(w, r, Here(v2))
    <2>1. Below(Here(v2), Coming(v, l))
      BY <1>9, <1>12, <1>17, BelowLonger, Zenon
    <2> QED BY <1>9, <1>13, <1>17, <2>1 DEF From, Sound, Pt
  (* The second ID. *)
  <1>19. /\ HasSecond(v2) => /\ v2.offset - (v2.second - 1) \in 0 .. Len(v2.data)
                             /\ v2.second > 0 /\ Point(w, r, Second(v2))
         /\ v2.replid2 = NoId => v2.second = -1
    <2>1. CASE id = v.cached.id
      <3>1. v2.replid2 = v.replid2 /\ v2.second = v.second
        BY <1>7, <2>1, Zenon DEF ContinueSame, v, v2, l
      <3>2. HasSecond(v2) => HasSecond(v)
        BY <1>2, <1>3, <1>5, <3>1, Zenon DEF HasSecond, Alone
      <3>3. Second(v2) = Second(v)
        BY <1>5, <3>1, Zenon DEF Second
      <3>4. HasSecond(v) => Point(w, r, Second(v))
        BY Zenon DEF Point, IsPoint, v
      <3> QED BY <1>1, <1>5, <3>1, <3>2, <3>3, <3>4, Zenon DEF ServerOk, ServerLog
    <2>2. CASE id # v.cached.id
      <3>1. v2.replid2 = v.replid /\ v2.second = v.offset + 1
        BY <1>7, <1>8, <2>2, Zenon DEF ContinueOther, v, v2, l
      <3>2. /\ v.offset - ((v.offset + 1) - 1) \in 0 .. Len(v.data) /\ v.offset + 1 > 0
            /\ Second(v2) = Here(v)
        BY <1>5, <1>9, <3>1, WholePast, Zenon DEF Second, Here
      <3>3. Point(w, r, Here(v)) /\ v.replid # 0
        BY <1>8, <1>9, PlaceIsKnown, Zenon DEF v
      <3> QED BY <1>5, <3>1, <3>2, <3>3, Zenon DEF NoId
    <2> QED BY <2>1, <2>2, Zenon
  <1>20. ServerOk(v2, r, w2.ids, n)
    <2>1. ServerTypes(v2, r, w2.ids, n)
      BY <1>1, <1>4, <1>5, <1>13, <1>14, <1>15, <1>16, NoLinkIsALink, Zenon DEF ServerOk, ServerTypes
    <2>2. ServerRole(v2)
      BY <1>5, <1>8, <1>14, <1>15, <1>16, Zenon DEF ServerRole
    <2>3. ServerLog(v2)
      BY <1>14, <1>15, <1>16, <1>19, Zenon DEF ServerLog, Known
    <2> QED BY <2>1, <2>2, <2>3, Zenon DEF ServerOk
  <1>21. LinkOk(v2, l2)
    BY <1>2, <1>5, <1>6, <1>10, Zenon DEF LinkOk
  <1>22. SlavesStay(w, w2, r)
    <2>1. CASE id = v.cached.id
      <3>1. Here(v2) = Here(v)
        BY <1>8, <1>17, <2>1, Zenon DEF Here
      <3> QED BY <1>15, <3>1, Zenon DEF SlavesStay, HasBacklog, v, v2
    <2>2. CASE id # v.cached.id
      <3>1. Slaves(w2, r) = {}
        BY <1>1, <1>6, <1>7, <2>2, ClosedGo, Zenon DEF ContinueOther, v, l, l2
      <3> QED BY <3>1, Zenon DEF SlavesStay
    <2> QED BY <2>1, <2>2, Zenon
  <1>23. StaysSlave(w, w2, r)
    <2>1. \A m \in Servers : r \in Slaves(w2, m) => r \in Slaves(w, m)
      BY <1>6, Zenon DEF Slaves, l, l2
    <2>2. l2.phase # "end" /\ l.phase \in {"end", "online"}
      BY <1>2, <1>6, Zenon
    <2> QED BY <1>17, <2>1, <2>2, StaysSlaveIf, Zenon DEF v, v2, l, l2
  <1>24. PointsFrom(w, w2, r, {})
    <2> SUFFICES ASSUME NEW p, Point(w2, r, p)
                 PROVE  Point(w, r, p) \/ p = Here(v2)
      BY <1>18, OldPoint, Zenon DEF PointsFrom
    <2>1. \/ Known(v2) /\ p = Here(v2)
          \/ HasSecond(v2) /\ p = Second(v2)
          \/ w.disk[r].rsi # NoMaster /\ p = FilePoint(w.disk[r])
          \/ v.bgsave # <<>> /\ v.bgsave[1].rsi # NoMaster /\ p = FilePoint(v.bgsave[1])
          \/ Arriving(v2, l2) /\ p = Coming(v2, l2)
      BY <1>4, <1>5, Zenon DEF Point, IsPoint, v, v2, l2
    <2>2. (w.disk[r].rsi # NoMaster /\ p = FilePoint(w.disk[r])) => Point(w, r, p)
      BY Zenon DEF Point, IsPoint
    <2>3. (v.bgsave # <<>> /\ v.bgsave[1].rsi # NoMaster /\ p = FilePoint(v.bgsave[1]))
              => Point(w, r, p)
      BY Zenon DEF Point, IsPoint, v
    <2> QED BY <1>13, <1>17, <1>19, <2>1, <2>2, <2>3, Zenon
  <1>25. MasterKept(w, w2, r, r) /\ AloneKept(w, w2, r)
    BY <1>5, <1>8, Zenon DEF MasterKept, AloneKept, Alone, v2
  <1>26. Inv(w2, n)
    <2>1. w.ids <= w2.ids
      BY <1>1, <1>4
    <2> QED BY <1>4, <1>11, <1>20, <1>21, <1>22, <1>23, <1>24, <1>25, <2>1, NoEnd, StepOfOne, Zenon DEF v2, l2
  <1>27. \A s \in Servers : Aside(w.srv[s], w2.srv[s])
    BY <1>4, Zenon DEF Aside, v, v2
  <1> QED BY <1>26, <1>27, Zenon DEF w2


(* A replica that gives up its own history for its master's. *)
Abandon(w, r) == replicationAttachToNewMaster(BgsaveFailed(w, r), r)

(* What a replica gives up before it loads a snapshot. *)
LEMMA AbandonEffect ==
    ASSUME NEW w, Shaped(w), NEW r \in Servers, w.link[r].to # r, NEW w2, w2 = Abandon(w, r)
    PROVE  /\ Only(w, w2, r, {"bgsave", "cached", "backlog"}) /\ w2.ids = w.ids
           /\ w2.srv[r].bgsave = <<>> /\ w2.srv[r].cached = NoMaster
           /\ w2.srv[r].backlog = NoBacklog /\ w2.link[r] = w.link[r]
           /\ \A t \in Servers \ {r} :
                 w2.link[t] = IF t \in Slaves(w, r) THEN [w.link[t] EXCEPT !.closed = TRUE]
                              ELSE w.link[t]
  <1> DEFINE b  == BgsaveFailed(w, r)
             f  == [cached |-> NoMaster]
             c  == Set(b, r, f)
             e  == disconnectSlaves(c, r)
             f2 == [backlog |-> NoBacklog]
  <1>1. w2 = Set(e, r, f2)
    BY Zenon DEF Abandon, replicationAttachToNewMaster, replicationDiscardCachedMaster,
           freeReplicationBacklog
  <1>2. /\ Only(w, b, r, {"bgsave"}) /\ b.ids = w.ids /\ b.srv[r].bgsave = <<>>
        /\ Closed(w, b, Waiting(w, r, "end"))
    BY FailedEffect, Zenon
  <1> HIDE DEF b
  <1>3. /\ DOMAIN f = {"cached"} /\ {"cached"} \subseteq Fields /\ f.cached = NoMaster
        /\ DOMAIN f2 = {"backlog"} /\ {"backlog"} \subseteq Fields /\ f2.backlog = NoBacklog
    BY Zenon DEF Fields, Core
  <1> HIDE DEF f, f2
  <1>4. /\ Only(b, c, r, {"cached"}) /\ c.link = b.link /\ c.ids = b.ids
        /\ c.srv[r].cached = NoMaster
    BY <1>2, <1>3, SetOnly DEF Only
  <1> HIDE DEF c
  <1>5. /\ Shaped(e) /\ e.srv = c.srv /\ e.disk = c.disk /\ e.ids = c.ids
        /\ Closed(c, e, Slaves(c, r))
    BY <1>4, DisconnectEffect, Zenon DEF Only
  <1> HIDE DEF e
  <1>6. /\ Only(e, w2, r, {"backlog"}) /\ w2.link = e.link /\ w2.ids = e.ids
        /\ w2.srv[r].backlog = NoBacklog
    BY <1>1, <1>3, <1>5, SetOnly
  <1>7. /\ \A l \in Links : /\ [l EXCEPT !.closed = TRUE].closed
                            /\ [l EXCEPT !.closed = TRUE].to = l.to
                            /\ [l EXCEPT !.closed = TRUE].phase = l.phase
        /\ \A t \in Servers : w.link[t] \in Links
    BY Zenon DEF Links, Shaped
  <1>8. \A t \in Servers : t \in Waiting(w, r, "end") => t \in Slaves(w, r) /\ t \notin Slaves(c, r)
    <2> SUFFICES ASSUME NEW t \in Servers, t \in Waiting(w, r, "end")
                 PROVE  t \in Slaves(w, r) /\ t \notin Slaves(c, r)
      BY Zenon
    <2>1. t \in Slaves(w, r)
      BY Zenon DEF Waiting
    <2>2. c.link[t] = [w.link[t] EXCEPT !.closed = TRUE]
      BY <1>2, <1>4, Zenon DEF Closed
    <2>3. c.link[t].closed
      BY <1>7, <2>2, Zenon
    <2> QED BY <2>1, <2>3, Zenon DEF Slaves
  <1>9. \A t \in Servers : t \notin Waiting(w, r, "end") => (t \in Slaves(w, r) <=> t \in Slaves(c, r))
    BY <1>2, <1>4, Zenon DEF Closed, Slaves
  <1>10. \A t \in Servers :
             w2.link[t] = IF t \in Slaves(w, r) THEN [w.link[t] EXCEPT !.closed = TRUE]
                          ELSE w.link[t]
    BY <1>2, <1>4, <1>5, <1>6, <1>8, <1>9 DEF Closed
  <1>11. w2.link[r] = w.link[r]
    BY <1>10, Zenon DEF Slaves
  <1>12. Only(w, w2, r, {"bgsave", "cached", "backlog"}) /\ w2.ids = w.ids
    BY <1>2, <1>4, <1>5, <1>6 DEF Only
  <1>13. w2.srv[r].bgsave = <<>> /\ w2.srv[r].cached = NoMaster
    BY <1>2, <1>4, <1>5, <1>6 DEF Only, Fields, Core
  <1> QED BY <1>6, <1>10, <1>11, <1>12, <1>13, Zenon

(* ClosedStay, for a step that also replaces the server's file. *)
LEMMA ClosedStayOnDisk ==
    ASSUME NEW w, NEW w2, NEW a \in Servers,
           \A t \in Servers \ {a} : w2.disk[t] = w.disk[t],
           \A t \in Servers \ {a} : w2.srv[t] = w.srv[t],
           \A t \in Servers \ {a} :
               w2.link[t] = w.link[t] \/ (t \in Slaves(w, a) /\ w2.link[t] = [w.link[t] EXCEPT !.closed = TRUE])
    PROVE  OthersStay(w, w2, a)
  BY BoundsAssumption, Zenon DEF OthersStay, Untouched, LinkKept, Slaves

LoadRead(w, r, how) == Loaded(Read(w, r), r, w.link[r].answer.rdb, how)

(* What loading the snapshot does. *)
LEMMA LoadEffect ==
    ASSUME NEW w, Shaped(w), NEW r \in Servers, w.link[r].to # r, NEW how,
           NEW w2, w2 = LoadRead(w, r, how)
    PROVE  LET v == w.srv[r]
               v2 == w2.srv[r]
               rdb == w.link[r].answer.rdb IN
           /\ Shaped(w2) /\ w2.ids = w.ids
           /\ \A t \in Servers \ {r} : w2.srv[t] = w.srv[t] /\ w2.disk[t] = w.disk[t]
           /\ w2.disk[r] = w.disk[r] \/ w2.disk[r] = rdb
           /\ v2.host = v.host /\ v2.initial = v.initial /\ v2.failover = v.failover
           /\ v2.target = v.target /\ v2.force = v.force
           /\ v2.state = "connected" /\ v2.data = rdb.data /\ v2.master = v.initial
           /\ v2.replid = v.initial.id /\ v2.offset = v.initial.off
           /\ v2.replid2 = NoId /\ v2.second = -1 /\ v2.cached = NoMaster
           /\ v2.bgsave = <<>> /\ v2.backlog = NewLog(v.initial.off)
           /\ w2.link[r].to = w.link[r].to /\ w2.link[r].closed = w.link[r].closed
           /\ w2.link[r].phase = w.link[r].phase /\ w2.link[r].stream = w.link[r].stream
           /\ w2.link[r].answer = NoAnswer
           /\ \A t \in Servers \ {r} :
                 w2.link[t] = IF t \in Slaves(w, r) THEN [w.link[t] EXCEPT !.closed = TRUE]
                              ELSE w.link[t]
  <1> DEFINE rdb == w.link[r].answer.rdb
             b  == Read(w, r)
             c  == Abandon(b, r)
             f  == [data |-> rdb.data]
             d  == Set(c, r, f)
             f2 == [master |-> d.srv[r].initial]
             e  == Set(d, r, f2)
             f3 == [state |-> "connected", replid |-> e.srv[r].master.id,
                    offset |-> e.srv[r].master.off]
             g  == Set(e, r, f3)
             f4 == [replid2 |-> NoId, second |-> -1]
             h  == Set(g, r, f4)
             k  == createReplicationBacklog(h, r)
  <1>1. /\ w2 = k \/ w2 = DiskAt(k, r, rdb)
    BY Zenon DEF LoadRead, Loaded, replicationCreateMasterClient, clearReplicationId2, DiskAt, Abandon
  <1>2. /\ Shaped(b) /\ b.srv = w.srv /\ b.disk = w.disk /\ b.ids = w.ids
        /\ \A t \in Servers \ {r} : b.link[t] = w.link[t]
        /\ b.link[r].to = w.link[r].to /\ b.link[r].closed = w.link[r].closed
        /\ b.link[r].phase = w.link[r].phase /\ b.link[r].answer = NoAnswer
        /\ b.link[r].stream = w.link[r].stream
    BY ReadEffect
  <1>3. rdb \in Rdbs
    BY Zenon DEF Shaped, Links, Answers
  <1> HIDE DEF b, rdb
  <1>4. /\ Only(b, c, r, {"bgsave", "cached", "backlog"}) /\ c.ids = b.ids
        /\ c.srv[r].bgsave = <<>> /\ c.srv[r].cached = NoMaster
        /\ c.srv[r].backlog = NoBacklog /\ c.link[r] = b.link[r]
        /\ \A t \in Servers \ {r} :
              c.link[t] = IF t \in Slaves(b, r) THEN [b.link[t] EXCEPT !.closed = TRUE]
                          ELSE b.link[t]
    BY <1>2, AbandonEffect
  <1> HIDE DEF c
  <1>5. /\ DOMAIN f = {"data"} /\ f.data = rdb.data /\ {"data"} \subseteq Fields
        /\ DOMAIN f2 = {"master"} /\ f2.master = d.srv[r].initial /\ {"master"} \subseteq Fields
        /\ DOMAIN f3 = {"state", "replid", "offset"} /\ {"state", "replid", "offset"} \subseteq Fields
        /\ f3.state = "connected" /\ f3.replid = e.srv[r].master.id
        /\ f3.offset = e.srv[r].master.off
        /\ DOMAIN f4 = {"replid2", "second"} /\ {"replid2", "second"} \subseteq Fields
        /\ f4.replid2 = NoId /\ f4.second = -1
    <2> HIDE DEF d, e
    <2> QED BY Zenon DEF Fields, Core
  <1> HIDE DEF f, f2, f3, f4
  <1>6. /\ Only(c, d, r, {"data"}) /\ d.link = c.link /\ d.ids = c.ids /\ d.srv[r].data = rdb.data
    BY <1>4, <1>5, SetOnly DEF Only
  <1> HIDE DEF d
  <1>7. /\ Only(d, e, r, {"master"}) /\ e.link = d.link /\ e.ids = d.ids
        /\ e.srv[r].master = d.srv[r].initial
    BY <1>5, <1>6, SetOnly DEF Only
  <1> HIDE DEF e
  <1>8. /\ Only(e, g, r, {"state", "replid", "offset"}) /\ g.link = e.link /\ g.ids = e.ids
        /\ g.srv[r].state = "connected" /\ g.srv[r].replid = e.srv[r].master.id
        /\ g.srv[r].offset = e.srv[r].master.off
    BY <1>5, <1>7, SetOnly DEF Only
  <1> HIDE DEF g
  <1>9. /\ Only(g, h, r, {"replid2", "second"}) /\ h.link = g.link /\ h.ids = g.ids
        /\ h.srv[r].replid2 = NoId /\ h.srv[r].second = -1
    BY <1>5, <1>8, SetOnly DEF Only
  <1> HIDE DEF h
  <1>10. /\ Only(h, k, r, {"backlog"}) /\ k.link = h.link /\ k.ids = h.ids
         /\ k.srv[r].backlog = IF HasBacklog(h, r) THEN h.srv[r].backlog
                               ELSE [offset |-> h.srv[r].offset + 1, histlen |-> 0]
    BY <1>9, CreateEffect DEF Only
  <1> HIDE DEF k
  <1>11. /\ Shaped(k) /\ k.ids = w.ids /\ k.disk = w.disk
         /\ \A t \in Servers \ {r} : k.srv[t] = w.srv[t]
    BY <1>2, <1>4, <1>6, <1>7, <1>8, <1>9, <1>10 DEF Only
  <1>12. k.link = c.link
    BY <1>6, <1>7, <1>8, <1>9, <1>10, Zenon
  <1>13. \A i \in {"host", "initial", "failover", "target", "force"} : k.srv[r][i] = w.srv[r][i]
    BY <1>2, <1>4, <1>6, <1>7, <1>8, <1>9, <1>10 DEF Only, Fields, Core
  <1>14. d.srv[r].initial = w.srv[r].initial
    BY <1>2, <1>4, <1>6, Zenon DEF Only, Fields, Core
  <1>15. /\ k.srv[r].state = "connected" /\ k.srv[r].replid = w.srv[r].initial.id
         /\ k.srv[r].offset = w.srv[r].initial.off
    BY <1>7, <1>8, <1>9, <1>10, <1>14 DEF Only, Fields, Core
  <1>16. k.srv[r].data = rdb.data
    BY <1>6, <1>7, <1>8, <1>9, <1>10 DEF Only, Fields, Core
  <1>17. k.srv[r].master = w.srv[r].initial
    BY <1>7, <1>8, <1>9, <1>10, <1>14, Zenon DEF Only, Fields, Core
  <1>18. k.srv[r].replid2 = NoId /\ k.srv[r].second = -1
    BY <1>9, <1>10, Zenon DEF Only, Fields, Core
  <1>19. k.srv[r].cached = NoMaster /\ k.srv[r].bgsave = <<>>
    BY <1>4, <1>6, <1>7, <1>8, <1>9, <1>10 DEF Only, Fields, Core
  <1>20. h.srv[r].backlog = NoBacklog /\ h.srv[r].offset = w.srv[r].initial.off
    BY <1>4, <1>6, <1>7, <1>8, <1>9, <1>14 DEF Only, Fields, Core
  <1>21. k.srv[r].backlog = NewLog(w.srv[r].initial.off)
    BY <1>10, <1>20, Zenon DEF HasBacklog, NewLog
  <1>22. \A t \in Servers \ {r} : t \in Slaves(b, r) <=> t \in Slaves(w, r)
    BY <1>2, Zenon DEF Slaves
  <1>23. /\ w2.srv = k.srv /\ w2.link = k.link /\ w2.ids = k.ids /\ Shaped(w2)
         /\ w2.disk[r] = k.disk[r] \/ w2.disk[r] = rdb
         /\ \A t \in Servers \ {r} : w2.disk[t] = k.disk[t]
    BY <1>1, <1>3, <1>11, DiskAtEffect
  <1>24. \A t \in Servers \ {r} :
                 w2.link[t] = IF t \in Slaves(w, r) THEN [w.link[t] EXCEPT !.closed = TRUE]
                              ELSE w.link[t]
    BY <1>2, <1>4, <1>12, <1>22, <1>23
  <1> QED BY <1>2, <1>4, <1>11, <1>12, <1>13, <1>15, <1>16, <1>17, <1>18, <1>19, <1>21, <1>23, <1>24 DEF rdb


(* The snapshot is loaded: the replica is where the answer said. *)
LEMMA LoadKeeps ==
    ASSUME NEW w, NEW n \in Nat, Inv(w, n), NEW r \in Servers, w.link[r].answer.type = "rdb",
           w.link[r].phase = "online", NEW how
    PROVE  /\ Inv(LoadRead(w, r, how), n)
           /\ \A s \in Servers : Aside(w.srv[s], LoadRead(w, r, how).srv[s])
  <1> DEFINE w2 == LoadRead(w, r, how)
             v  == w.srv[r]
             v2 == w2.srv[r]
             l  == w.link[r]
             l2 == w2.link[r]
             x  == l.answer
             f  == x.rdb
  <1>1. /\ Shaped(w) /\ w.ids \in Nat /\ ServerOk(v, r, w.ids, n) /\ LinkOk(v, l)
        /\ l.to # r /\ l \in Links /\ Histories(w, n) /\ x \in Answers /\ f \in Rdbs
    BY InvFacts, LinkIsNotOwn DEF Links, Answers
  <1>2. /\ Shaped(w2) /\ w2.ids = w.ids
        /\ \A t \in Servers \ {r} : w2.srv[t] = w.srv[t] /\ w2.disk[t] = w.disk[t]
        /\ w2.disk[r] = w.disk[r] \/ w2.disk[r] = f
        /\ v2.host = v.host /\ v2.initial = v.initial /\ v2.failover = v.failover
        /\ v2.target = v.target /\ v2.force = v.force
        /\ v2.state = "connected" /\ v2.data = f.data /\ v2.master = v.initial
        /\ v2.replid = v.initial.id /\ v2.offset = v.initial.off
        /\ v2.replid2 = NoId /\ v2.second = -1 /\ v2.cached = NoMaster
        /\ v2.bgsave = <<>> /\ v2.backlog = NewLog(v.initial.off)
    BY <1>1, LoadEffect
  <1>3. /\ l2.to = l.to /\ l2.closed = l.closed /\ l2.phase = l.phase /\ l2.stream = l.stream
        /\ l2.answer = NoAnswer
    BY <1>1, LoadEffect
  <1>4. \A t \in Servers \ {r} :
            w2.link[t] = IF t \in Slaves(w, r) THEN [w.link[t] EXCEPT !.closed = TRUE]
                         ELSE w.link[t]
    BY <1>1, LoadEffect
  <1> HIDE DEF w2
  <1>5. v.state = "transfer"
    BY <1>1, NoLinkIsALink, Zenon DEF LinkOk, ServerOk, ServerTypes
  <1>6. /\ l.to = v.host /\ f.rsi = [id |-> x.id, off |-> x.off] /\ f.rsi # NoMaster
        /\ x.off \in Nat /\ v.initial = [id |-> x.id, off |-> x.off]
        /\ l.phase = "online"
    BY <1>1, <1>5, Zenon DEF LinkOk
  <1>7. OthersStay(w, w2, r) /\ TargetsOk(w2) /\ Slaves(w2, r) = {}
    <2>1. \A t \in Servers \ {r} :
              w2.link[t] = w.link[t] \/ (t \in Slaves(w, r) /\ w2.link[t] = [w.link[t] EXCEPT !.closed = TRUE])
      BY <1>4, Zenon
    <2>2. OthersStay(w, w2, r)
      BY <1>2, <2>1, ClosedStayOnDisk, Zenon
    <2>3. TargetsOk(w2)
      BY <1>2, TargetsKept
    <2>4. Slaves(w2, r) = {}
      BY <1>1, <1>3, <1>4, ClosedGo, Zenon
    <2> QED BY <2>2, <2>3, <2>4, Zenon
  <1> HIDE DEF v, v2, l, l2, x, f
  <1>8. /\ Arriving(v, l) /\ Coming(v, l) = Pt(x.id, x.off + Len(l.stream), f.data \o l.stream)
    BY Zenon DEF Arriving, Coming, l, x, f
  <1>9. /\ f.data \in Data /\ l.stream \in Data /\ x.id \in Nat
    BY <1>1, Zenon DEF Links, Answers, Rdbs
  <1>10. Point(w, r, Coming(v, l)) /\ Sound(Coming(v, l)) /\ x.id \in 1 .. w.ids
         /\ x.off + Len(l.stream) <= n
    <2>1. Point(w, r, Coming(v, l))
      BY <1>8, Zenon DEF Point, IsPoint, v, l
    <2>2. PointsOk(w, n)
      BY <1>1, Zenon DEF Histories
    <2>3. Sound(Coming(v, l)) /\ Coming(v, l).id \in 1 .. w.ids /\ Coming(v, l).off <= n
      BY <2>1, <2>2 DEF PointsOk, Sound
    <2>4. Coming(v, l).id = x.id /\ Coming(v, l).off = x.off + Len(l.stream)
      BY <1>8 DEF Pt
    <2> QED BY <2>1, <2>3, <2>4, Zenon
  <1>11. x.off \in 0 .. n /\ v.initial.id = x.id /\ v.initial.off = x.off
    <2>1. Len(l.stream) \in Nat
      BY <1>9, DataFacts, Zenon
    <2>2. x.off <= n
      BY <1>6, <1>10, <2>1
    <2> QED BY <1>6, <2>2
  <1>12. l2.answer.type = "none"
    BY <1>3, AnswersAreAnswers, Zenon
  <1>13. /\ Coming(v2, l2) = Coming(v, l) /\ Here(v2) = Pt(x.id, x.off, f.data)
    BY <1>2, <1>3, <1>8, <1>11, <1>12, Zenon DEF Coming, Here
  <1>14. Sound(Here(v2)) /\ From(w, r, Here(v2))
    <2>1. Below(Here(v2), Coming(v, l))
      BY <1>6, <1>8, <1>9, <1>13, BelowLonger, Zenon
    <2> QED BY <1>6, <1>9, <1>10, <1>13, <2>1 DEF From, Sound, Pt
  <1>15. FilePoint(f) = Here(v2)
    BY <1>6, <1>13 DEF FilePoint
  <1>16. /\ v2.backlog # NoBacklog /\ v2.backlog \in [offset : Int, histlen : Int]
         /\ v2.backlog.histlen \in 0 .. BacklogSize
         /\ v2.backlog.offset + v2.backlog.histlen = v2.offset + 1
    BY <1>2, <1>6, <1>11, NewLogFacts
  <1>17. v2.master # NoMaster /\ v2.master = [id |-> v2.replid, off |-> v2.offset]
         /\ v2.master \in Marks /\ v2.host # NoOne
    <2>1. v.host # NoOne
      BY <1>1, <1>5, Zenon DEF ServerOk, ServerRole
    <2> QED BY <1>2, <1>6, <1>9, <1>10, <1>11, <2>1 DEF NoMaster, NoId, Marks
  <1>18. ServerOk(v2, r, w2.ids, n)
    <2>1. ServerTypes(v2, r, w2.ids, n)
      <3>1. /\ v2.replid \in 1 .. w2.ids /\ v2.replid2 \in 0 .. w2.ids /\ v2.second \in Int
            /\ v2.offset \in 0 .. n
        BY <1>1, <1>2, <1>10, <1>11 DEF NoId
      <3> QED BY <1>1, <1>2, <1>9, <1>16, <1>17, <3>1, NoLinkIsALink, Zenon DEF ServerOk, ServerTypes
    <2>2. ServerRole(v2)
      BY <1>2, <1>16, <1>17, Zenon DEF ServerRole
    <2>3. ServerLog(v2)
      BY <1>2, <1>16, <1>17, Zenon DEF ServerLog, Known, HasSecond
    <2> QED BY <2>1, <2>2, <2>3, Zenon DEF ServerOk
  <1>19. SlavesStay(w, w2, r)
    BY <1>7, Zenon DEF SlavesStay
  <1>20. StaysSlave(w, w2, r)
    <2>1. \A m \in Servers : r \in Slaves(w2, m) => r \in Slaves(w, m) /\ SlaveOk(w, m, r)
      BY <1>1, <1>3, Zenon DEF Slaves, l, l2, Inv, SlavesOk
    <2>2. ASSUME NEW m \in Servers \ {r}, r \in Slaves(w2, m)
          PROVE  /\ HasBacklog(w, m)
                 /\ l2.phase \in {"end", "online"} => Coming(v2, l2) = Here(w.srv[m])
      BY <1>3, <1>13, <2>1, <2>2, Zenon DEF SlaveOk, v, l
    <2> QED BY <1>3, <1>6, <2>2, Zenon DEF StaysSlave, v2, l2
  <1>22. PointsFrom(w, w2, r, {})
    <2> SUFFICES ASSUME NEW p, Point(w2, r, p)
                 PROVE  Point(w, r, p) \/ p = Here(v2)
      BY <1>14, OldPoint, Zenon DEF PointsFrom
    <2>1. ~HasSecond(v2)
      BY <1>2, Zenon DEF HasSecond
    <2>2. \/ p = Here(v2)
          \/ w2.disk[r].rsi # NoMaster /\ p = FilePoint(w2.disk[r])
          \/ p = Coming(v2, l2)
      BY <1>2, <2>1, Zenon DEF Point, IsPoint, v2, l2
    <2>3. (w.disk[r].rsi # NoMaster /\ p = FilePoint(w.disk[r])) => Point(w, r, p)
      BY Zenon DEF Point, IsPoint
    <2> QED BY <1>2, <1>10, <1>13, <1>15, <2>2, <2>3, Zenon
  <1>23. MasterKept(w, w2, r, r) /\ AloneKept(w, w2, r)
    BY <1>2, <1>17, Zenon DEF MasterKept, AloneKept, Alone, v2
  <1>24. LinkOk(v2, l2) /\ w.ids <= w2.ids
    BY <1>1, <1>2, <1>3, <1>6, <1>12 DEF LinkOk
  <1>25. Inv(w2, n)
    BY <1>2, <1>7, <1>18, <1>19, <1>20, <1>22, <1>23, <1>24, NoEnd, StepOfOne, Zenon DEF v2, l2
  <1>26. \A s \in Servers : Aside(w.srv[s], w2.srv[s])
    BY <1>2, Zenon DEF Aside, v, v2
  <1> QED BY <1>25, <1>26, Zenon DEF w2


SwapFailed(w, r) == cancelReplicationHandshake(BgsaveFailed(Read(w, r), r), r)

(* A load beside the old data set failed: the replica is where it was. *)
LEMMA SwapFailedKeeps ==
    ASSUME NEW w, NEW n \in Nat, Inv(w, n), NEW r \in Servers, w.link[r].answer.type = "rdb"
    PROVE  /\ Inv(SwapFailed(w, r), n)
           /\ \A s \in Servers : Aside(w.srv[s], SwapFailed(w, r).srv[s])
  <1> DEFINE b  == Read(w, r)
             c  == BgsaveFailed(b, r)
             w2 == cancelReplicationHandshake(c, r)
             v  == w.srv[r]
             v2 == w2.srv[r]
             l  == w.link[r]
  <1>1. /\ Shaped(w) /\ w.ids \in Nat /\ ServerOk(v, r, w.ids, n) /\ LinkOk(v, l)
        /\ l.to # r /\ l \in Links
    BY InvFacts, LinkIsNotOwn, Zenon
  <1>2. v.state = "transfer"
    BY <1>1, NoLinkIsALink, Zenon DEF LinkOk, ServerOk, ServerTypes
  <1>3. /\ Shaped(b) /\ b.srv = w.srv /\ b.disk = w.disk /\ b.ids = w.ids
        /\ \A t \in Servers \ {r} : b.link[t] = w.link[t]
    BY <1>1, ReadEffect
  <1> HIDE DEF b
  <1>4. /\ Only(b, c, r, {"bgsave"}) /\ c.ids = b.ids /\ c.srv[r].bgsave = <<>>
        /\ Closed(b, c, Waiting(b, r, "end"))
    BY <1>3, FailedEffect, Zenon
  <1> HIDE DEF c
  <1>5. c.srv[r].state = "transfer"
    BY <1>2, <1>3, <1>4, Zenon DEF Only, Fields, Core
  <1>6. /\ Only(c, w2, r, {"state"}) /\ w2.ids = c.ids
        /\ \A t \in Servers \ {r} : w2.link[t] = c.link[t]
        /\ v2.state = "connect" /\ w2.link[r] = NoLink
    BY <1>4, <1>5, CancelEffect DEF Only
  <1> HIDE DEF w2
  <1>7. /\ Shaped(w2) /\ w2.disk = w.disk /\ w2.ids = w.ids
        /\ \A t \in Servers \ {r} : w2.srv[t] = w.srv[t]
        /\ \A i \in Fields \ {"bgsave", "state"} : v2[i] = v[i]
    BY <1>3, <1>4, <1>6, Zenon DEF Only
  <1>8. v2.bgsave = <<>>
    BY <1>4, <1>6, Zenon DEF Only, Fields, Core
  <1>9. /\ v2.host = v.host /\ v2.data = v.data /\ v2.offset = v.offset /\ v2.backlog = v.backlog
        /\ v2.replid = v.replid /\ v2.replid2 = v.replid2 /\ v2.second = v.second
        /\ v2.master = v.master /\ v2.cached = v.cached /\ v2.initial = v.initial
        /\ v2.failover = v.failover /\ v2.target = v.target /\ v2.force = v.force
    BY <1>7, Zenon DEF Fields, Core
  <1>10. \A t \in Servers \ {r} :
             w2.link[t] = w.link[t] \/ (t \in Slaves(w, r) /\ w2.link[t] = [w.link[t] EXCEPT !.closed = TRUE])
    <2>1. \A t \in Servers \ {r} : t \in Waiting(b, r, "end") => t \in Slaves(w, r)
      BY <1>3, Zenon DEF Waiting, Slaves
    <2> QED BY <1>3, <1>4, <1>6, <2>1, Zenon DEF Closed
  <1>11. OthersStay(w, w2, r) /\ TargetsOk(w2)
    BY <1>7, <1>9, <1>10, ClosedStay, TargetsKept, Zenon
  <1>12. StaysSlave(w, w2, r) /\ w2.link[r].to # r
    BY <1>6, NoLinkNoSlave, NoLinkIsALink, BoundsAssumption, Zenon
  <1> HIDE DEF v, v2, l
  <1>13. SameHistory(v, v2) /\ (Known(v2) <=> Known(v)) /\ (Alone(v2) => Alone(v))
    BY <1>8, <1>9, Zenon DEF SameHistory, Known, Alone
  <1>14. /\ ServerRole(v2) /\ LinkOk(v2, w2.link[r])
         /\ v2.state \in {"none", "connect", "psync", "transfer", "connected"}
         /\ v2.master \in Marks /\ v2.cached \in Marks /\ v2.initial \in Marks
    BY <1>1, <1>2, <1>6, <1>9, Zenon DEF ServerOk, ServerRole, ServerTypes, LinkOk
  <1>15. w2.link[r].answer.type = "none" /\ ~Arriving(v2, w2.link[r])
    BY <1>6, NoLinkIsALink, Zenon DEF Arriving
  <1>16. Inv(w2, n)
    BY <1>7, <1>11, <1>12, <1>13, <1>14, <1>15, QuietStep, Zenon DEF v, v2
  <1>17. \A s \in Servers : Aside(w.srv[s], w2.srv[s])
    BY <1>7, <1>9, Zenon DEF Aside, v, v2
  <1> QED BY <1>16, <1>17, Zenon DEF SwapFailed, w2, c, b

(* The data set is gone or the old one, and nobody is told of it. *)
LEMMA LostKeeps ==
    ASSUME NEW w, NEW n \in Nat, Inv(w, n), NEW r \in Servers, w.link[r].answer.type = "rdb",
           NEW c, Only(Abandon(Read(w, r), r), c, r, {"data"}), c.ids = Abandon(Read(w, r), r).ids,
           c.link = Abandon(Read(w, r), r).link, c.srv[r].data \in Data
    PROVE  /\ Inv(cancelReplicationHandshake(c, r), n)
           /\ \A s \in Servers : Aside(w.srv[s], cancelReplicationHandshake(c, r).srv[s])
  <1> DEFINE b  == Read(w, r)
             a  == Abandon(b, r)
             w2 == cancelReplicationHandshake(c, r)
             v  == w.srv[r]
             v2 == w2.srv[r]
             l  == w.link[r]
  <1>1. /\ Shaped(w) /\ w.ids \in Nat /\ ServerOk(v, r, w.ids, n) /\ LinkOk(v, l)
        /\ l.to # r /\ l \in Links
    BY InvFacts, LinkIsNotOwn, Zenon
  <1>2. v.state = "transfer"
    BY <1>1, NoLinkIsALink, Zenon DEF LinkOk, ServerOk, ServerTypes
  <1>3. /\ Shaped(b) /\ b.srv = w.srv /\ b.disk = w.disk /\ b.ids = w.ids
        /\ b.link[r].to = w.link[r].to
        /\ \A t \in Servers \ {r} : b.link[t] = w.link[t]
    BY <1>1, ReadEffect
  <1>4. Only(a, c, r, {"data"}) /\ c.ids = a.ids /\ c.link = a.link
    BY Zenon
  <1> HIDE DEF b
  <1>5. /\ Only(b, a, r, {"bgsave", "cached", "backlog"}) /\ a.ids = b.ids
        /\ a.srv[r].bgsave = <<>> /\ a.srv[r].cached = NoMaster
        /\ a.srv[r].backlog = NoBacklog
        /\ \A t \in Servers \ {r} :
              a.link[t] = IF t \in Slaves(b, r) THEN [b.link[t] EXCEPT !.closed = TRUE]
                          ELSE b.link[t]
    BY <1>1, <1>3, AbandonEffect
  <1> HIDE DEF a
  <1>6. c.srv[r].state = "transfer"
    BY <1>2, <1>3, <1>4, <1>5, Zenon DEF Only, Fields, Core
  <1>7. /\ Only(c, w2, r, {"state"}) /\ w2.ids = c.ids
        /\ \A t \in Servers \ {r} : w2.link[t] = c.link[t]
        /\ v2.state = "connect" /\ w2.link[r] = NoLink
    BY <1>4, <1>6, CancelEffect DEF Only
  <1> HIDE DEF w2
  <1>8. /\ Shaped(w2) /\ w2.disk = w.disk /\ w2.ids = w.ids
        /\ \A t \in Servers \ {r} : w2.srv[t] = w.srv[t]
        /\ \A i \in Fields \ {"bgsave", "cached", "backlog", "state", "data"} : v2[i] = v[i]
    BY <1>3, <1>4, <1>5, <1>7 DEF Only
  <1>9. v2.bgsave = <<>> /\ v2.cached = NoMaster /\ v2.backlog = NoBacklog
    BY <1>4, <1>5, <1>7 DEF Only, Fields, Core
  <1>10. v2.data \in Data
    BY <1>7, Zenon DEF Only, Fields, Core
  <1>11. /\ v2.host = v.host /\ v2.offset = v.offset
         /\ v2.replid = v.replid /\ v2.replid2 = v.replid2 /\ v2.second = v.second
         /\ v2.master = v.master /\ v2.initial = v.initial
         /\ v2.failover = v.failover /\ v2.target = v.target /\ v2.force = v.force
    BY <1>8, Zenon DEF Fields, Core
  <1>12. \A t \in Servers \ {r} :
             w2.link[t] = IF t \in Slaves(w, r) THEN [w.link[t] EXCEPT !.closed = TRUE]
                          ELSE w.link[t]
    <2>1. \A t \in Servers \ {r} : t \in Slaves(b, r) <=> t \in Slaves(w, r)
      BY <1>3, Zenon DEF Slaves
    <2> QED BY <1>3, <1>4, <1>5, <1>7, <2>1
  <1>13. StaysSlave(w, w2, r) /\ w2.link[r].to # r
    BY <1>7, NoLinkNoSlave, NoLinkIsALink, BoundsAssumption, Zenon
  <1>14. OthersStay(w, w2, r) /\ TargetsOk(w2) /\ SlavesStay(w, w2, r)
    <2>1. \A t \in Servers \ {r} :
             w2.link[t] = w.link[t] \/ (t \in Slaves(w, r) /\ w2.link[t] = [w.link[t] EXCEPT !.closed = TRUE])
      BY <1>12, Zenon
    <2>2. OthersStay(w, w2, r) /\ TargetsOk(w2)
      BY <1>8, <1>11, <2>1, ClosedStay, TargetsKept, Zenon
    <2>3. Slaves(w2, r) = {}
      BY <1>1, <1>12, <1>13, ClosedGo, Zenon
    <2> QED BY <2>2, <2>3, Zenon DEF SlavesStay
  <1> HIDE DEF v, v2, l
  <1>15. v.host # NoOne /\ v.master = NoMaster
    BY <1>1, <1>2, Zenon DEF ServerOk, ServerRole
  <1>16. ~Known(v2) /\ ~HasSecond(v2) /\ ~Alone(v2)
    BY <1>9, <1>11, <1>15, Zenon DEF Known, HasSecond, Alone
  <1>17. ServerOk(v2, r, w2.ids, n)
    <2>1. ServerTypes(v2, r, w2.ids, n)
      BY <1>1, <1>7, <1>8, <1>9, <1>10, <1>11, NoLinkIsALink DEF ServerOk, ServerTypes, NoBacklog
    <2>2. ServerRole(v2)
      BY <1>7, <1>9, <1>11, <1>15, Zenon DEF ServerRole
    <2>3. ServerLog(v2)
      BY <1>1, <1>9, <1>11, <1>16, Zenon DEF ServerOk, ServerLog
    <2> QED BY <2>1, <2>2, <2>3, Zenon DEF ServerOk
  <1>18. LinkOk(v2, w2.link[r]) /\ ~Arriving(v2, w2.link[r]) /\ w.ids <= w2.ids
    BY <1>1, <1>7, <1>8, NoLinkIsALink DEF Arriving, LinkOk
  <1>19. PointsFrom(w, w2, r, {})
    <2> SUFFICES ASSUME NEW p, Point(w2, r, p)
                 PROVE  Point(w, r, p)
      BY OldPoint, Zenon DEF PointsFrom
    <2>1. w.disk[r].rsi # NoMaster /\ p = FilePoint(w.disk[r])
      BY <1>8, <1>9, <1>16, <1>18, Zenon DEF Point, IsPoint, v2
    <2> QED BY <2>1, Zenon DEF Point, IsPoint
  <1>20. MasterKept(w, w2, r, r) /\ AloneKept(w, w2, r)
    BY <1>11, <1>15, <1>16, Zenon DEF MasterKept, AloneKept, v2
  <1>21. Inv(w2, n)
    BY <1>8, <1>13, <1>14, <1>17, <1>18, <1>19, <1>20, NoEnd, StepOfOne, Zenon DEF v2
  <1>22. \A s \in Servers : Aside(w.srv[s], w2.srv[s])
    BY <1>8, <1>11, Zenon DEF Aside, v, v2
  <1> QED BY <1>21, <1>22, Zenon DEF w2

FailedRead(w, r, how) == LoadFailed(Read(w, r), r, how)

(* A load failed: the replica is where it was, or nowhere. *)
LEMMA FailedReadKeeps ==
    ASSUME NEW w, NEW n \in Nat, Inv(w, n), NEW r \in Servers, w.link[r].answer.type = "rdb",
           NEW how \in {"disk", "socket", "swapdb"}
    PROVE  /\ Inv(FailedRead(w, r, how), n)
           /\ \A s \in Servers : Aside(w.srv[s], FailedRead(w, r, how).srv[s])
  <1> DEFINE a == Abandon(Read(w, r), r)
             f == [data |-> <<>>]
             c == Set(a, r, f)
  <1>1. Shaped(w) /\ w.link[r].to # r /\ ServerOk(w.srv[r], r, w.ids, n) /\ w.ids \in Nat
    BY InvFacts, LinkIsNotOwn, Zenon
  <1>2. Shaped(Read(w, r)) /\ Read(w, r).link[r].to # r /\ Read(w, r).srv = w.srv
    BY <1>1, ReadEffect
  <1>3. Only(Read(w, r), a, r, {"bgsave", "cached", "backlog"})
    BY <1>2, AbandonEffect, Zenon
  <1>4. Shaped(a) /\ a.srv[r].data = w.srv[r].data
    BY <1>2, <1>3, Zenon DEF Only, Fields, Core
  <1> HIDE DEF a
  <1>5. CASE how = "swapdb"
    <2>1. FailedRead(w, r, how) = SwapFailed(w, r)
      BY <1>5, Zenon DEF FailedRead, LoadFailed, SwapFailed
    <2> QED BY <2>1, SwapFailedKeeps, Zenon
  <1>6. CASE how = "disk"
    <2>1. FailedRead(w, r, how) = cancelReplicationHandshake(a, r)
      BY <1>6, Zenon DEF FailedRead, LoadFailed, Abandon, a
    <2>2. Only(a, a, r, {"data"}) /\ a.srv[r].data \in Data
      BY <1>1, <1>4, ServerNumbers, Zenon DEF Only
    <2> QED BY <2>1, <2>2, LostKeeps, Zenon DEF a
  <1>7. CASE how = "socket"
    <2>1. FailedRead(w, r, how) = cancelReplicationHandshake(c, r)
      BY <1>7, Zenon DEF FailedRead, LoadFailed, Abandon, a
    <2>2. DOMAIN f = {"data"} /\ {"data"} \subseteq Fields /\ f.data = <<>>
      BY Zenon DEF Fields, Core
    <2> HIDE DEF f
    <2>3. Only(a, c, r, {"data"}) /\ c.ids = a.ids /\ c.link = a.link /\ c.srv[r].data = <<>>
      BY <1>4, <2>2, SetOnly
    <2>4. c.srv[r].data \in Data
      BY <2>3, AnswersAreAnswers, Zenon
    <2> HIDE DEF c
    <2> QED BY <2>1, <2>3, <2>4, LostKeeps, Zenon DEF a
  <1> QED BY <1>5, <1>6, <1>7, Zenon
=============================================================================
