------------------------ MODULE PartialResyncProofs ------------------------
(***************************************************************************)
(* The remaining handlers of PartialResync (loading, restarts, writes and  *)
(* planned failovers), every action, and the theorems: for any number of   *)
(* servers and any topology of them, any size of the backlog, and any      *)
(* number of writes and events.                                            *)
(***************************************************************************)
EXTENDS PartialResyncSteps


-----------------------------------------------------------------------------
(* A restart. *)

Reboot(w, s, h) ==
    [w EXCEPT !.ids = @ + 1,
              !.srv[s] = initServer(w.ids + 1, h),
              !.link = [r \in Servers |->
                  CASE r = s -> NoLink
                    [] r # s /\ w.link[r].to = s -> [w.link[r] EXCEPT !.closed = TRUE]
                    [] OTHER -> w.link[r]]]

(* A server at startup. *)
LEMMA InitServerFacts ==
    ASSUME NEW id, NEW h
    PROVE  LET v == initServer(id, h) IN
           /\ DOMAIN v = Fields /\ v.host = h /\ v.state = (IF h = NoOne THEN "none" ELSE "connect")
           /\ v.data = <<>> /\ v.replid = id /\ v.replid2 = NoId /\ v.second = -1 /\ v.offset = 0
           /\ v.backlog = NoBacklog /\ v.master = NoMaster /\ v.cached = NoMaster
           /\ v.initial = NoMaster /\ v.bgsave = <<>>
           /\ v.failover = "no" /\ v.target = NoOne /\ v.force = FALSE
  BY Zenon DEF initServer, Fields, Core

(* What the start of a new process changes. *)
LEMMA RebootEffect ==
    ASSUME NEW w, Shaped(w), NEW s \in Servers, NEW h, NEW w2, w2 = Reboot(w, s, h)
    PROVE  /\ Shaped(w2) /\ w2.disk = w.disk /\ w2.ids = w.ids + 1
           /\ \A t \in Servers \ {s} : w2.srv[t] = w.srv[t]
           /\ w2.srv[s] = initServer(w.ids + 1, h)
           /\ w2.link[s] = NoLink
           /\ \A t \in Servers \ {s} :
                 w2.link[t] = IF w.link[t].to = s THEN [w.link[t] EXCEPT !.closed = TRUE]
                              ELSE w.link[t]
  <1> DEFINE v == initServer(w.ids + 1, h)
             S == [w.srv EXCEPT ![s] = v]
             L == [r \in Servers |->
                      CASE r = s -> NoLink
                        [] r # s /\ w.link[r].to = s -> [w.link[r] EXCEPT !.closed = TRUE]
                        [] OTHER -> w.link[r]]
  <1>1. DOMAIN v = Fields
    BY InitServerFacts, Zenon
  <1> HIDE DEF v
  <1>2. /\ w = [srv |-> w.srv, link |-> w.link, disk |-> w.disk, ids |-> w.ids]
        /\ DOMAIN w.srv = Servers /\ \A t \in Servers : DOMAIN w.srv[t] = Fields
        /\ w.link \in [Servers -> Links] /\ w.disk \in [Servers -> Rdbs] /\ w.ids \in Nat
    BY Zenon DEF Shaped
  <1>3. /\ DOMAIN S = Servers /\ S[s] = v /\ \A t \in Servers \ {s} : S[t] = w.srv[t]
    BY <1>2, Zenon
  <1>4. /\ L[s] = NoLink
        /\ \A t \in Servers \ {s} :
              L[t] = IF w.link[t].to = s THEN [w.link[t] EXCEPT !.closed = TRUE] ELSE w.link[t]
    BY Zenon
  <1>5. L \in [Servers -> Links]
    <2>1. \A l \in Links : [l EXCEPT !.closed = TRUE] \in Links
      BY Zenon DEF Links
    <2>2. \A t \in Servers : L[t] \in Links
      BY <1>2, <1>4, <2>1, NoLinkIsALink, Zenon
    <2>3. DOMAIN L = Servers
      BY Zenon
    <2> HIDE DEF L
    <2>4. L = [t \in Servers |-> L[t]]
      BY <2>3, Zenon DEF L
    <2> QED BY <2>2, <2>4, Zenon
  <1>6. w2 = [srv |-> S, link |-> L, disk |-> w.disk, ids |-> w.ids + 1]
    BY <1>2, Zenon DEF Reboot, v
  <1> HIDE DEF S, L
  <1>7. w2.srv = S /\ w2.link = L /\ w2.disk = w.disk /\ w2.ids = w.ids + 1
    BY <1>6
  <1>8. Shaped(w2)
    <2>1. \A t \in Servers : DOMAIN S[t] = Fields
      BY <1>1, <1>2, <1>3, Zenon
    <2> QED BY <1>2, <1>3, <1>5, <1>6, <1>7, <2>1 DEF Shaped
  <1> QED BY <1>3, <1>4, <1>7, <1>8, Zenon DEF v

Boot(w, s, h) == loadDataFromDisk(Reboot(w, s, h), s)

LoadFields == {"data", "replid", "replid2", "second", "offset", "backlog", "cached"}

(* Nothing but the data set, a place in a master's history, or a history of its own. *)
Blank(v2, id) ==
    /\ v2.replid = id /\ v2.replid2 = NoId /\ v2.second = -1 /\ v2.offset = 0
    /\ v2.backlog = NoBacklog /\ v2.cached = NoMaster

Placed(v2, k) ==
    /\ v2.replid = k.id /\ v2.replid2 = NoId /\ v2.second = -1 /\ v2.offset = k.off
    /\ v2.backlog = NoBacklog /\ v2.cached = [id |-> k.id, off |-> k.off]

Branched(v2, id, k) ==
    /\ v2.replid = id /\ v2.replid2 = k.id /\ v2.second = k.off + 1 /\ v2.offset = k.off
    /\ v2.backlog = NewLog(k.off) /\ v2.cached = NoMaster

(* What loadDataFromDisk() makes of the new process. *)
LEMMA LoadFromDiskEffect ==
    ASSUME NEW w, Shaped(w), NEW s \in Servers, NEW id, NEW h, w.srv[s] = initServer(id, h),
           NEW w2, w2 = loadDataFromDisk(w, s)
    PROVE  LET k == w.disk[s].rsi IN
           /\ Only(w, w2, s, LoadFields) /\ w2.link = w.link /\ w2.ids = w.ids
           /\ w2.srv[s].data = w.disk[s].data
           /\ k = NoMaster => Blank(w2.srv[s], id)
           /\ k # NoMaster /\ h # NoOne => Placed(w2.srv[s], k)
           /\ k # NoMaster /\ h = NoOne => Branched(w2.srv[s], id, k)
  <1> DEFINE k  == w.disk[s].rsi
             f  == [data |-> w.disk[s].data]
             b  == Set(w, s, f)
             f2 == [replid |-> k.id, offset |-> k.off]
             c  == Set(b, s, f2)
             f3 == [replid2 |-> k.id, second |-> k.off + 1, offset |-> k.off]
             d  == Set(b, s, f3)
             f4 == [cached |-> [id |-> c.srv[s].replid, off |-> c.srv[s].offset]]
  <1>1. /\ DOMAIN f = {"data"} /\ {"data"} \subseteq Fields /\ f.data = w.disk[s].data
        /\ DOMAIN f2 = {"replid", "offset"} /\ {"replid", "offset"} \subseteq Fields
        /\ f2.replid = k.id /\ f2.offset = k.off
        /\ DOMAIN f3 = {"replid2", "second", "offset"}
        /\ {"replid2", "second", "offset"} \subseteq Fields
        /\ f3.replid2 = k.id /\ f3.second = k.off + 1 /\ f3.offset = k.off
        /\ DOMAIN f4 = {"cached"} /\ {"cached"} \subseteq Fields
        /\ f4.cached = [id |-> c.srv[s].replid, off |-> c.srv[s].offset]
    <2> HIDE DEF k, c
    <2> QED BY Zenon DEF Fields, Core
  <1>2. /\ w.srv[s].replid = id /\ w.srv[s].replid2 = NoId /\ w.srv[s].second = -1
        /\ w.srv[s].offset = 0 /\ w.srv[s].backlog = NoBacklog /\ w.srv[s].cached = NoMaster
        /\ w.srv[s].host = h
    BY DEF initServer
  <1>3. /\ k = NoMaster => w2 = b
        /\ k # NoMaster /\ h # NoOne => w2 = Set(c, s, f4)
        /\ k # NoMaster /\ h = NoOne => w2 = createReplicationBacklog(d, s)
    <2>0. /\ w.srv[s].host = h
          /\ replicationCacheMasterUsingMyself(c, s) = Set(c, s, f4)
      BY <1>2, Zenon DEF replicationCacheMasterUsingMyself
    <2>1. w2 = CASE k = NoMaster -> b
                 [] k # NoMaster /\ w.srv[s].host # NoOne -> replicationCacheMasterUsingMyself(c, s)
                 [] OTHER -> createReplicationBacklog(d, s)
      BY Zenon DEF loadDataFromDisk
    <2> HIDE DEF k, b, c, d, f4
    <2>2. CASE k = NoMaster
      BY <2>0, <2>1, <2>2, Zenon
    <2>3. CASE k # NoMaster /\ h # NoOne
      BY <2>0, <2>1, <2>3, Zenon
    <2>4. CASE k # NoMaster /\ h = NoOne
      BY <2>0, <2>1, <2>4, Zenon
    <2> QED BY <2>2, <2>3, <2>4, Zenon
  <1> HIDE DEF f, f2, f3, f4, k
  <1>4. /\ Only(w, b, s, {"data"}) /\ b.link = w.link /\ b.ids = w.ids
        /\ b.srv[s].data = w.disk[s].data
    BY <1>1, SetOnly
  <1> HIDE DEF b
  <1>5. /\ b.srv[s].replid = id /\ b.srv[s].replid2 = NoId /\ b.srv[s].second = -1
        /\ b.srv[s].offset = 0 /\ b.srv[s].backlog = NoBacklog /\ b.srv[s].cached = NoMaster
    BY <1>2, <1>4, Zenon DEF Only, Fields, Core
  <1>6. CASE k = NoMaster
    BY <1>3, <1>4, <1>5, <1>6, Zenon DEF Only, Blank, LoadFields, k
  <1>7. CASE k # NoMaster /\ h # NoOne
    <2>1. /\ Only(b, c, s, {"replid", "offset"}) /\ c.link = b.link /\ c.ids = b.ids
          /\ c.srv[s].replid = k.id /\ c.srv[s].offset = k.off
      BY <1>1, <1>4, SetOnly DEF Only
    <2> HIDE DEF c
    <2>2. /\ Only(c, w2, s, {"cached"}) /\ w2.link = c.link /\ w2.ids = c.ids
          /\ w2.srv[s].cached = [id |-> c.srv[s].replid, off |-> c.srv[s].offset]
      BY <1>1, <1>3, <1>7, <2>1, SetOnly DEF Only
    <2>3. /\ w2.srv[s].replid = k.id /\ w2.srv[s].offset = k.off
          /\ w2.srv[s].replid2 = NoId /\ w2.srv[s].second = -1
          /\ w2.srv[s].backlog = NoBacklog /\ w2.srv[s].data = w.disk[s].data
      BY <1>4, <1>5, <2>1, <2>2 DEF Only, Fields, Core
    <2>4. Placed(w2.srv[s], k)
      BY <2>1, <2>2, <2>3, Zenon DEF Placed
    <2>5. Only(w, w2, s, LoadFields) /\ w2.link = w.link /\ w2.ids = w.ids
      BY <1>4, <2>1, <2>2, Zenon DEF Only, LoadFields
    <2> QED BY <1>7, <2>3, <2>4, <2>5, Zenon DEF k
  <1>8. CASE k # NoMaster /\ h = NoOne
    <2>1. /\ Only(b, d, s, {"replid2", "second", "offset"}) /\ d.link = b.link /\ d.ids = b.ids
          /\ d.srv[s].replid2 = k.id /\ d.srv[s].second = k.off + 1 /\ d.srv[s].offset = k.off
      BY <1>1, <1>4, SetOnly DEF Only
    <2> HIDE DEF d
    <2>2. /\ Only(d, w2, s, {"backlog"}) /\ w2.link = d.link /\ w2.ids = d.ids
          /\ w2.srv[s].backlog = IF HasBacklog(d, s) THEN d.srv[s].backlog
                                 ELSE [offset |-> d.srv[s].offset + 1, histlen |-> 0]
      BY <1>3, <1>8, <2>1, CreateEffect DEF Only
    <2>3. d.srv[s].backlog = NoBacklog
      BY <1>5, <2>1, Zenon DEF Only, Fields, Core
    <2>4. /\ w2.srv[s].replid = id /\ w2.srv[s].offset = k.off
          /\ w2.srv[s].replid2 = k.id /\ w2.srv[s].second = k.off + 1
          /\ w2.srv[s].cached = NoMaster /\ w2.srv[s].data = w.disk[s].data
      BY <1>4, <1>5, <2>1, <2>2 DEF Only, Fields, Core
    <2>5. Branched(w2.srv[s], id, k)
      BY <2>1, <2>2, <2>3, <2>4, Zenon DEF Branched, HasBacklog, NewLog
    <2>6. Only(w, w2, s, LoadFields) /\ w2.link = w.link /\ w2.ids = w.ids
      BY <1>4, <2>1, <2>2, Zenon DEF Only, LoadFields
    <2> QED BY <1>8, <2>4, <2>5, <2>6, Zenon DEF k
  <1> QED BY <1>6, <1>7, <1>8, Zenon


(* A restart keeps the invariant, as a replica and as a master. *)
LEMMA BootKeeps ==
    ASSUME NEW w, NEW n \in Nat, Inv(w, n), NEW s \in Servers,
           NEW h \in (Servers \ {s}) \cup {NoOne}
    PROVE  /\ Inv(Boot(w, s, h), n)
           /\ \A t \in Servers : Aside(w.srv[t], Boot(w, s, h).srv[t])
  <1> DEFINE b  == Reboot(w, s, h)
             w2 == Boot(w, s, h)
             v2 == w2.srv[s]
             f  == w.disk[s]
             k  == f.rsi
             id == w.ids + 1
  <1>1. /\ Shaped(w) /\ w.ids \in Nat /\ f \in Rdbs /\ Histories(w, n)
    BY InvFacts, Zenon
  <1>2. /\ Shaped(b) /\ b.disk = w.disk /\ b.ids = id
        /\ \A t \in Servers \ {s} : b.srv[t] = w.srv[t]
        /\ b.srv[s] = initServer(id, h)
        /\ b.link[s] = NoLink
        /\ \A t \in Servers \ {s} :
              b.link[t] = IF w.link[t].to = s THEN [w.link[t] EXCEPT !.closed = TRUE]
                          ELSE w.link[t]
    BY <1>1, RebootEffect
  <1>3. w2 = loadDataFromDisk(b, s)
    BY Zenon DEF Boot
  <1> HIDE DEF b, w2
  <1>4. /\ Only(b, w2, s, LoadFields) /\ w2.link = b.link /\ w2.ids = b.ids
        /\ w2.srv[s].data = b.disk[s].data
        /\ b.disk[s].rsi = NoMaster => Blank(w2.srv[s], id)
        /\ b.disk[s].rsi # NoMaster /\ h # NoOne => Placed(w2.srv[s], b.disk[s].rsi)
        /\ b.disk[s].rsi # NoMaster /\ h = NoOne => Branched(w2.srv[s], id, b.disk[s].rsi)
    BY <1>2, <1>3, LoadFromDiskEffect
  <1>5. /\ Shaped(w2) /\ w2.disk = w.disk /\ w2.ids = id /\ v2.data = f.data
        /\ \A t \in Servers \ {s} : w2.srv[t] = w.srv[t]
        /\ k = NoMaster => Blank(v2, id)
        /\ k # NoMaster /\ h # NoOne => Placed(v2, k)
        /\ k # NoMaster /\ h = NoOne => Branched(v2, id, k)
    BY <1>2, <1>4, Zenon DEF Only
  <1>6. \A i \in Fields \ LoadFields : v2[i] = initServer(id, h)[i]
    BY <1>2, <1>4, Zenon DEF Only
  <1>7. /\ v2.host = h /\ v2.state = (IF h = NoOne THEN "none" ELSE "connect")
        /\ v2.master = NoMaster /\ v2.initial = NoMaster /\ v2.bgsave = <<>>
        /\ v2.failover = "no" /\ v2.force = FALSE
    <2>1. /\ "host" \in Fields \ LoadFields /\ "state" \in Fields \ LoadFields
          /\ "master" \in Fields \ LoadFields /\ "initial" \in Fields \ LoadFields
          /\ "bgsave" \in Fields \ LoadFields /\ "failover" \in Fields \ LoadFields
          /\ "force" \in Fields \ LoadFields
      BY Zenon DEF Fields, Core, LoadFields
    <2> HIDE DEF id
    <2>2. LET v == initServer(id, h) IN
          /\ v.host = h /\ v.state = (IF h = NoOne THEN "none" ELSE "connect")
          /\ v.master = NoMaster /\ v.initial = NoMaster /\ v.bgsave = <<>>
          /\ v.failover = "no" /\ v.force = FALSE
      BY Zenon DEF initServer
    <2> QED BY <1>6, <2>1, <2>2, Zenon
  <1>8. /\ w2.link[s] = NoLink /\ w2.link[s].to # s /\ w2.link[s].answer.type = "none"
        /\ StaysSlave(w, w2, s)
    BY <1>2, <1>4, NoLinkNoSlave, NoLinkIsALink, BoundsAssumption, Zenon
  <1>9. \A t \in Servers \ {s} : LinkKept(w.link[t], w2.link[t])
    BY <1>2, <1>4, BoundsAssumption DEF LinkKept
  <1>10. OthersStay(w, w2, s) /\ TargetsOk(w2) /\ SlavesStay(w, w2, s)
    <2>1. OthersStay(w, w2, s)
      BY <1>5, <1>9, Zenon DEF OthersStay, Untouched
    <2>2. Aside(w.srv[s], w2.srv[s])
      BY <1>7, Zenon DEF Aside
    <2>3. TargetsOk(w2)
      BY <1>5, <2>2, TargetsAside, Zenon
    <2>4. ASSUME NEW t \in Servers PROVE t \notin Slaves(w2, s)
      <3>1. CASE t = s
        BY <1>8, <3>1, Zenon DEF Slaves
      <3>2. CASE t # s /\ w.link[t].to = s
        <4>1. w2.link[t] = [w.link[t] EXCEPT !.closed = TRUE] /\ w.link[t] \in Links
          BY <1>1, <1>2, <1>4, <3>2, Zenon DEF Shaped
        <4>2. w2.link[t].closed
          BY <4>1, Zenon DEF Links
        <4> QED BY <4>2, Zenon DEF Slaves
      <3>3. CASE t # s /\ w.link[t].to # s
        BY <1>2, <1>4, <3>3, Zenon DEF Slaves
      <3> QED BY <3>1, <3>2, <3>3, Zenon
    <2>5. Slaves(w2, s) = {}
      BY <2>4, Zenon DEF Slaves
    <2> QED BY <2>1, <2>3, <2>5, Zenon DEF SlavesStay
  <1> HIDE DEF v2, f, k, id
  <1>11. /\ f.data \in Data /\ k \in Marks /\ k.id \in Nat /\ k.off \in Int
    BY <1>1, Zenon DEF Rdbs, Marks, k
  <1>12. k # NoMaster => /\ Point(w, s, FilePoint(f)) /\ FilePoint(f) = Pt(k.id, k.off, f.data)
                         /\ k.id \in 1 .. w.ids /\ k.off \in 0 .. n
    <2> SUFFICES ASSUME k # NoMaster
                 PROVE  /\ Point(w, s, FilePoint(f)) /\ FilePoint(f) = Pt(k.id, k.off, f.data)
                        /\ k.id \in 1 .. w.ids /\ k.off \in 0 .. n
      BY Zenon
    <2>1. Point(w, s, FilePoint(f))
      BY Zenon DEF Point, IsPoint, f, k
    <2>2. FilePoint(f) = Pt(k.id, k.off, f.data)
      BY Zenon DEF FilePoint, k
    <2>3. FilePoint(f).id \in 1 .. w.ids /\ FilePoint(f).off \in 0 .. n
      BY <1>1, <2>1, Zenon DEF Histories, PointsOk
    <2> QED BY <2>1, <2>2, <2>3 DEF Pt
  <1>13. id \in Nat /\ id > w.ids /\ id \in 1 .. id /\ w.ids <= w2.ids /\ w2.ids = id
    BY <1>1, <1>5 DEF id
  <1>14. LinkOk(v2, w2.link[s]) /\ ~Arriving(v2, w2.link[s])
    BY <1>7, <1>8, Zenon DEF LinkOk, Arriving
  <1>15. ASSUME ServerTypes(v2, s, w2.ids, n), ServerRole(v2), ServerLog(v2), ~Alone(v2),
                NEW N, OwnEnd(w, w2, s, N), h = NoOne => v2.replid = id,
                Known(v2) => From(w, s, Here(v2)) \/ Here(v2) \in N,
                HasSecond(v2) => Point(w, s, Second(v2))
         PROVE  Inv(w2, n)
    <2>1. PointsFrom(w, w2, s, N)
      <3> SUFFICES ASSUME NEW p, Point(w2, s, p)
                   PROVE  Sound(p) /\ (From(w, s, p) \/ p \in N)
        BY Zenon DEF PointsFrom
      <3>1. Sound(Here(v2))
        BY <1>15 DEF ServerTypes, Here, Pt, Sound
      <3>2. (w.disk[s].rsi # NoMaster /\ p = FilePoint(w.disk[s])) => Point(w, s, p)
        BY Zenon DEF Point, IsPoint
      <3>3. Point(w, s, p) => Sound(p) /\ From(w, s, p)
        BY OldPoint, Zenon
      <3> QED BY <1>5, <1>7, <1>14, <1>15, <3>1, <3>2, <3>3, Zenon DEF Point, IsPoint, v2
    <2>2. MasterKept(w, w2, s, s) /\ AloneKept(w, w2, s)
      BY <1>7, <1>13, <1>15, Zenon DEF MasterKept, AloneKept, v2
    <2>3. ServerOk(v2, s, w2.ids, n)
      BY <1>15, Zenon DEF ServerOk
    <2> QED BY <1>5, <1>8, <1>10, <1>13, <1>14, <1>15, <2>1, <2>2, <2>3, StepOfOne, Zenon DEF v2
  <1>16. Inv(w2, n)
    <2>1. CASE k = NoMaster
      <3>1. Blank(v2, id)
        BY <1>5, <2>1, Zenon
      <3>2. /\ v2.replid = id /\ v2.replid2 = NoId /\ v2.second = -1 /\ v2.offset = 0
            /\ v2.backlog = NoBacklog /\ v2.cached = NoMaster
        BY <3>1, Zenon DEF Blank
      <3>3. ~Known(v2) /\ ~HasSecond(v2) /\ ~Alone(v2)
        BY <1>7, <3>2, Zenon DEF Known, HasSecond, Alone
      <3>4. ServerTypes(v2, s, w2.ids, n)
        <4>1. /\ v2.replid \in 1 .. w2.ids /\ v2.replid2 \in 0 .. w2.ids /\ v2.offset \in 0 .. n
              /\ v2.second \in Int
          BY <1>13, <3>2 DEF NoId
        <4> QED BY <1>5, <1>7, <1>11, <3>2, <4>1, NoLinkIsALink DEF ServerTypes, NoBacklog
      <3>5. ServerRole(v2) /\ ServerLog(v2)
        BY <1>7, <3>2, <3>3, Zenon DEF ServerRole, ServerLog
      <3> QED BY <1>15, <3>2, <3>3, <3>4, <3>5, NoEnd, Zenon
    <2>2. CASE k # NoMaster /\ h # NoOne
      <3>1. Placed(v2, k)
        BY <1>5, <2>2, Zenon
      <3>2. /\ v2.replid = k.id /\ v2.replid2 = NoId /\ v2.second = -1 /\ v2.offset = k.off
            /\ v2.backlog = NoBacklog /\ v2.cached = [id |-> k.id, off |-> k.off]
        BY <3>1, Zenon DEF Placed
      <3>3. ~HasSecond(v2) /\ ~Alone(v2)
        BY <3>2, Zenon DEF HasSecond, Alone
      <3>4. ServerTypes(v2, s, w2.ids, n)
        <4>1. /\ v2.replid \in 1 .. w2.ids /\ v2.replid2 \in 0 .. w2.ids /\ v2.offset \in 0 .. n
              /\ v2.second \in Int
          BY <1>1, <1>12, <1>13, <2>2, <3>2 DEF NoId
        <4>2. v2.cached \in Marks
          BY <1>11, <3>2, Zenon DEF Marks
        <4> QED BY <1>5, <1>7, <1>11, <3>2, <4>1, <4>2, NoLinkIsALink DEF ServerTypes, NoBacklog
      <3>5. ServerRole(v2) /\ ServerLog(v2)
        BY <1>7, <2>2, <3>2, <3>3, Zenon DEF ServerRole, ServerLog
      <3>6. Here(v2) = FilePoint(f)
        BY <1>5, <1>12, <2>2, <3>2, Zenon DEF Here, v2, f
      <3>7. From(w, s, Here(v2))
        BY <1>12, <2>2, <3>6, OldPoint, Zenon
      <3> QED BY <1>15, <2>2, <3>3, <3>4, <3>5, <3>7, NoEnd, Zenon
    <2>3. CASE k # NoMaster /\ h = NoOne
      <3>1. Branched(v2, id, k)
        BY <1>5, <2>3, Zenon
      <3>2. /\ v2.replid = id /\ v2.replid2 = k.id /\ v2.second = k.off + 1 /\ v2.offset = k.off
            /\ v2.backlog = NewLog(k.off) /\ v2.cached = NoMaster
        BY <3>1, Zenon DEF Branched
      <3>3. k.off \in Nat /\ k.off \in 0 .. n /\ k.id \in 1 .. w.ids
        BY <1>12, <2>3
      <3>4. /\ v2.backlog # NoBacklog /\ v2.backlog \in [offset : Int, histlen : Int]
            /\ v2.backlog.histlen \in 0 .. BacklogSize
            /\ v2.backlog.offset + v2.backlog.histlen = v2.offset + 1
        BY <3>2, <3>3, NewLogFacts, Zenon
      <3>5. ServerTypes(v2, s, w2.ids, n)
        <4>1. /\ v2.replid \in 1 .. w2.ids /\ v2.replid2 \in 0 .. w2.ids /\ v2.offset \in 0 .. n
              /\ v2.second \in Int
          BY <1>1, <1>13, <3>2, <3>3
        <4> QED BY <1>5, <1>7, <1>11, <3>2, <3>4, <4>1, NoLinkIsALink, Zenon DEF ServerTypes
      <3>6. /\ k.off - ((k.off + 1) - 1) \in 0 .. Len(f.data) /\ k.off + 1 > 0
            /\ Pt(k.id, (k.off + 1) - 1, SubSeq(f.data, 1, Len(f.data) - (k.off - ((k.off + 1) - 1))))
                   = Pt(k.id, k.off, f.data)
        BY <1>11, <3>3, WholePast, Zenon
      <3>7. v2.data = f.data
        BY <1>5, Zenon DEF v2
      <3>8. Second(v2) = FilePoint(f)
        BY <1>12, <2>3, <3>2, <3>6, <3>7, Zenon DEF Second
      <3>9. v2.replid2 # NoId
        BY <1>1, <3>2, <3>3 DEF NoId
      <3>10. ServerRole(v2) /\ ServerLog(v2)
        BY <1>7, <2>3, <3>2, <3>4, <3>6, <3>7, <3>9, Zenon DEF ServerRole, ServerLog, Known, HasSecond
      <3>11. OwnEnd(w, w2, s, {Here(v2)})
        BY <1>13, <3>2, <3>4, FreshEnd, Zenon DEF HasBacklog, v2
      <3>12. ~Alone(v2)
        BY <3>2, Zenon DEF Alone
      <3> HIDE DEF Inv
      <3>13. Here(v2) \in {Here(v2)}
        BY Zenon
      <3> QED BY <1>12, <1>15, <2>3, <3>2, <3>5, <3>8, <3>10, <3>11, <3>12, <3>13, Zenon
    <2> QED BY <2>1, <2>2, <2>3, Zenon
  <1>17. \A t \in Servers : Aside(w.srv[t], w2.srv[t])
    BY <1>5, <1>7, Zenon DEF Aside, v2
  <1> QED BY <1>16, <1>17, Zenon DEF w2


-----------------------------------------------------------------------------
(* The replication stream. *)

Extend(l, x) == [l EXCEPT !.stream = Append(l.stream, x)]

FedLinks(w, w2, m, x) ==
    \A r \in Servers :
        w2.link[r] = IF r \in Slaves(w, m) /\ w.link[r].phase # "start"
                     THEN Extend(w.link[r], x) ELSE w.link[r]

FullLog(b, off) ==
    /\ b # NoBacklog /\ b \in [offset : Int, histlen : Int]
    /\ b.histlen \in 0 .. BacklogSize /\ b.offset + b.histlen = off + 1

(* A write to a connection adds to its stream. *)
LEMMA ExtendFacts ==
    ASSUME NEW l \in Links, NEW x \in Nat
    PROVE  /\ Extend(l, x) \in Links /\ Extend(l, x).to = l.to /\ Extend(l, x).phase = l.phase
           /\ Extend(l, x).answer = l.answer /\ Extend(l, x).closed = l.closed
           /\ Extend(l, x).stream = Append(l.stream, x)
  <1>1. l.stream \in Data
    BY Zenon DEF Links
  <1>2. Append(l.stream, x) \in Data
    BY <1>1, DataFacts, Zenon
  <1> QED BY <1>2, Zenon DEF Extend, Links

FeedAt(w, m, off, b, L) == [w EXCEPT !.srv[m].offset = off, !.srv[m].backlog = b, !.link = L]

(* What feeding the backlog and the slaves changes. *)
LEMMA FeedAtEffect ==
    ASSUME NEW w, Shaped(w), NEW m \in Servers, NEW off, NEW b, NEW L \in [Servers -> Links],
           NEW w2, w2 = FeedAt(w, m, off, b, L)
    PROVE  /\ Only(w, w2, m, {"offset", "backlog"}) /\ w2.ids = w.ids /\ w2.link = L
           /\ w2.srv[m].offset = off /\ w2.srv[m].backlog = b
  <1> DEFINE v == [w.srv[m] EXCEPT !.offset = off, !.backlog = b]
             S == [w.srv EXCEPT ![m] = v]
  <1>1. /\ w = [srv |-> w.srv, link |-> w.link, disk |-> w.disk, ids |-> w.ids]
        /\ DOMAIN w.srv = Servers /\ \A t \in Servers : DOMAIN w.srv[t] = Fields
        /\ w.link \in [Servers -> Links] /\ w.disk \in [Servers -> Rdbs] /\ w.ids \in Nat
    BY Zenon DEF Shaped
  <1>2. /\ DOMAIN v = Fields /\ v.offset = off /\ v.backlog = b
        /\ \A i \in Fields \ {"offset", "backlog"} : v[i] = w.srv[m][i]
    <2>1. "offset" \in DOMAIN w.srv[m] /\ "backlog" \in DOMAIN w.srv[m]
      BY <1>1, Zenon DEF Fields, Core
    <2> QED BY <1>1, <2>1, Zenon
  <1>3. w2 = [srv |-> S, link |-> L, disk |-> w.disk, ids |-> w.ids]
    BY <1>1, Zenon DEF FeedAt
  <1> HIDE DEF v
  <1>4. /\ DOMAIN S = Servers /\ S[m] = v /\ \A t \in Servers \ {m} : S[t] = w.srv[t]
    BY <1>1, Zenon
  <1> HIDE DEF S
  <1>5. w2.srv = S /\ w2.link = L /\ w2.disk = w.disk /\ w2.ids = w.ids
    BY <1>3
  <1>6. Shaped(w2)
    <2>1. \A t \in Servers : DOMAIN S[t] = Fields
      BY <1>1, <1>2, <1>4, Zenon
    <2> QED BY <1>1, <1>3, <1>4, <1>5, <2>1, Zenon DEF Shaped
  <1> QED BY <1>2, <1>4, <1>5, <1>6, Zenon DEF Only

(* What feedReplicationBuffer() does to a server with a full log. *)
LEMMA FeedEffect ==
    ASSUME NEW w, Shaped(w), NEW m \in Servers, NEW x \in Nat, HasBacklog(w, m),
           w.srv[m].offset \in Nat, FullLog(w.srv[m].backlog, w.srv[m].offset),
           NEW w2, w2 = feedReplicationBuffer(w, m, x)
    PROVE  /\ Only(w, w2, m, {"offset", "backlog"}) /\ w2.ids = w.ids
           /\ w2.srv[m].offset = w.srv[m].offset + 1
           /\ FullLog(w2.srv[m].backlog, w.srv[m].offset + 1) /\ FedLinks(w, w2, m, x)
  <1> DEFINE s    == w.srv[m]
             h    == s.backlog.histlen
             kept == IF h + 1 > BacklogSize THEN BacklogSize ELSE h + 1
             b    == [offset |-> s.offset + 1 - kept + 1, histlen |-> kept]
             L    == [r \in Servers |->
                         IF r \in Slaves(w, m) /\ w.link[r].phase # "start"
                         THEN Extend(w.link[r], x) ELSE w.link[r]]
  <1>1. w2 = FeedAt(w, m, s.offset + 1, b, L)
    BY Zenon DEF feedReplicationBuffer, FeedAt, Extend
  <1>2. h \in 0 .. BacklogSize /\ s.offset \in Nat /\ BacklogSize \in Nat \ {0}
    BY BoundsAssumption, Zenon DEF FullLog
  <1> HIDE DEF h
  <1>3. kept \in 0 .. BacklogSize /\ kept \in Int
    BY <1>2
  <1> HIDE DEF kept
  <1>4. FullLog(b, s.offset + 1)
    <2>1. b.histlen = kept /\ b.offset = s.offset + 1 - kept + 1
      BY Zenon
    <2>2. b # NoBacklog
      BY <1>2, <1>3, <2>1 DEF NoBacklog
    <2>3. s.offset + 1 - kept + 1 \in Int /\ (s.offset + 1 - kept + 1) + kept = s.offset + 1 + 1
      BY <1>2, <1>3
    <2>4. b \in [offset : Int, histlen : Int]
      BY <1>3, <2>3, Zenon
    <2> QED BY <1>3, <2>1, <2>2, <2>3, <2>4, Zenon DEF FullLog
  <1>5. L \in [Servers -> Links]
    <2>1. \A r \in Servers : w.link[r] \in Links
      BY Zenon DEF Shaped
    <2> QED BY <2>1, ExtendFacts, Zenon
  <1>6. \A r \in Servers : L[r] = IF r \in Slaves(w, m) /\ w.link[r].phase # "start"
                                  THEN Extend(w.link[r], x) ELSE w.link[r]
    BY Zenon
  <1> HIDE DEF b, L
  <1>7. /\ Only(w, w2, m, {"offset", "backlog"}) /\ w2.ids = w.ids /\ w2.link = L
        /\ w2.srv[m].offset = s.offset + 1 /\ w2.srv[m].backlog = b
    BY <1>1, <1>5, FeedAtEffect
  <1> QED BY <1>4, <1>6, <1>7, Zenon DEF FedLinks

(* A longer stream leads one write further. *)
LEMMA ExtendComing ==
    ASSUME NEW v, NEW l \in Links, NEW x \in Nat, v.data \in Data, v.offset \in Nat,
           NEW id, NEW off, NEW d, Coming(v, l) = Pt(id, off, d)
    PROVE  Coming(v, Extend(l, x)) = Pt(id, off + 1, Append(d, x))
  <1> DEFINE y == l.answer
             full == y.type \in {"fullresync", "rdb"}
             i0 == IF full THEN y.id ELSE IF y.type = "continue" THEN y.id ELSE v.replid
             o0 == IF full THEN y.off ELSE v.offset
             d0 == IF full THEN y.rdb.data ELSE v.data
             e  == l.stream
  <1>1. /\ Extend(l, x).answer = y /\ Extend(l, x).stream = Append(e, x)
    BY ExtendFacts, Zenon
  <1>2. /\ Coming(v, l) = Pt(i0, o0 + Len(e), d0 \o e)
        /\ Coming(v, Extend(l, x)) = Pt(i0, o0 + Len(Append(e, x)), d0 \o Append(e, x))
    BY <1>1, Zenon DEF Coming
  <1>3. e \in Data /\ d0 \in Data /\ o0 \in Int
    BY DEF Links, Answers, Rdbs
  <1> HIDE DEF i0, o0, d0, e
  <1>4. /\ Len(Append(e, x)) = Len(e) + 1 /\ Len(e) \in Nat
        /\ d0 \o Append(e, x) = Append(d0 \o e, x)
    <2>1. Len(Append(e, x)) = Len(e) + 1 /\ Len(e) \in Nat
      BY <1>3, DataFacts, Zenon
    <2>2. d0 \o Append(e, x) = Append(d0 \o e, x)
      BY <1>3, AppendConcat, Zenon
    <2> QED BY <2>1, <2>2, Zenon
  <1>5. id = i0 /\ off = o0 + Len(e) /\ d = d0 \o e
    BY <1>2 DEF Pt
  <1>6. o0 + Len(Append(e, x)) = off + 1
    BY <1>3, <1>4, <1>5
  <1> QED BY <1>2, <1>4, <1>5, <1>6, Zenon

(* One more write raises the bounds and breaks nothing. *)
LEMMA MoreWrites ==
    ASSUME NEW w, NEW n \in Nat, Inv(w, n), NEW n2 \in Nat, n <= n2
    PROVE  Inv(w, n2)
  <1>1. \A v, s, last : ServerOk(v, s, last, n) => ServerOk(v, s, last, n2)
    BY DEF ServerOk, ServerTypes
  <1>2. PointsOk(w, n) => PointsOk(w, n2)
    BY DEF PointsOk
  <1> QED BY <1>1, <1>2, Zenon DEF Inv, Histories


(* A server that executes the write x of the history it is in, and passes it on. *)
Advances(v, v2, x) ==
    /\ v2.host = v.host /\ v2.state = v.state /\ v2.replid = v.replid /\ v2.replid2 = v.replid2
    /\ v2.second = v.second /\ v2.cached = v.cached /\ v2.initial = v.initial
    /\ v2.bgsave = v.bgsave /\ v2.target = v.target /\ v2.force = v.force
    /\ v2.data = Append(v.data, x) /\ v2.offset = v.offset + 1
    /\ FullLog(v2.backlog, v.offset + 1)
    /\ v2.master = IF v.master = NoMaster THEN NoMaster
                   ELSE [id |-> v.replid, off |-> v.offset + 1]

SecondAt(id, j, d, i) == Pt(id, j - 1, SubSeq(d, 1, Len(d) - (i - (j - 1))))

Reaches(d, i, j) == d \in Data /\ i \in Nat /\ j \in Int /\ i - (j - 1) \in 0 .. Len(d) /\ j > 0

(* The end of the second ID stays where it was when the data set grows. *)
LEMMA SecondAtLonger ==
    ASSUME NEW d, NEW i, NEW j, NEW id, NEW x \in Nat, Reaches(d, i, j)
    PROVE  SecondAt(id, j, Append(d, x), i + 1) = SecondAt(id, j, d, i) /\ Reaches(Append(d, x), i + 1, j)
  <1> DEFINE k == Len(d) - (i - (j - 1))
  <1>1. /\ d \in Data /\ i \in Nat /\ j \in Int /\ i - (j - 1) \in 0 .. Len(d) /\ j > 0
    BY Zenon DEF Reaches
  <1>2. Len(d) \in Nat /\ Len(Append(d, x)) = Len(d) + 1 /\ Append(d, x) \in Data
    BY <1>1, DataFacts, Zenon
  <1>3. /\ Len(Append(d, x)) - (i + 1 - (j - 1)) = k /\ k \in 0 .. Len(d)
        /\ i + 1 - (j - 1) \in 0 .. (Len(d) + 1) /\ i + 1 \in Nat
    BY <1>1, <1>2
  <1>4. SubSeq(Append(d, x), 1, k) = SubSeq(d, 1, k)
    <2> HIDE DEF k
    <2> QED BY <1>1, <1>3, Prefixes, Zenon
  <1>6. SecondAt(id, j, d, i) = Pt(id, j - 1, SubSeq(d, 1, k))
    BY Zenon DEF SecondAt
  <1> HIDE DEF k
  <1>5. SecondAt(id, j, Append(d, x), i + 1) = Pt(id, j - 1, SubSeq(Append(d, x), 1, k))
    <2> DEFINE e == Append(d, x)
               o == i + 1
    <2>1. Len(e) - (o - (j - 1)) = k
      BY <1>1, <1>2 DEF k
    <2> HIDE DEF e, o
    <2>2. SecondAt(id, j, e, o) = Pt(id, j - 1, SubSeq(e, 1, k))
      BY <2>1, Zenon DEF SecondAt
    <2> QED BY <2>2, Zenon DEF e, o
  <1>7. Reaches(Append(d, x), i + 1, j)
    BY <1>1, <1>2, <1>3 DEF Reaches
  <1> QED BY <1>4, <1>5, <1>6, <1>7, Zenon

(* A server that advances keeps the end of its second ID. *)
LEMMA SecondStays ==
    ASSUME NEW v, NEW v2, NEW s, NEW last \in Nat, NEW n \in Nat, ServerOk(v, s, last, n),
           NEW x \in Nat, Advances(v, v2, x), HasSecond(v)
    PROVE  /\ Second(v2) = Second(v) /\ v2.second > 0
           /\ v2.offset - (v2.second - 1) \in 0 .. Len(v2.data)
  <1>1. Reaches(v.data, v.offset, v.second)
    BY ServerNumbers, Zenon DEF ServerOk, ServerLog, Reaches
  <1>2. \A u : Second(u) = SecondAt(u.replid2, u.second, u.data, u.offset)
    BY Zenon DEF Second, SecondAt
  <1>3. /\ v2.data = Append(v.data, x) /\ v2.offset = v.offset + 1 /\ v2.second = v.second
        /\ v2.replid2 = v.replid2
    BY Zenon DEF Advances
  <1>4. /\ SecondAt(v.replid2, v.second, Append(v.data, x), v.offset + 1)
               = SecondAt(v.replid2, v.second, v.data, v.offset)
        /\ Reaches(Append(v.data, x), v.offset + 1, v.second)
    BY <1>1, SecondAtLonger
  <1>5. Second(v2) = Second(v)
    BY <1>2, <1>3, <1>4, Zenon
  <1>6. Reaches(v2.data, v2.offset, v2.second)
    BY <1>3, <1>4, Zenon
  <1> QED BY <1>5, <1>6, Zenon DEF Reaches

Room(i, n) == i + 1 <= n

FedLink(w, l, t, a, x) ==
    IF t \in Slaves(w, a) /\ w.link[t].phase # "start" THEN Extend(l, x) ELSE l

FedOthers(w, w2, a, x) ==
    /\ Shaped(w2) /\ w2.ids = w.ids /\ w2.disk = w.disk
    /\ \A t \in Servers \ {a} : w2.srv[t] = w.srv[t] /\ w2.link[t] = FedLink(w, w.link[t], t, a, x)

FedSelf(w, w2, a) ==
    /\ w2.link[a].to = w.link[a].to /\ w2.link[a].closed = w.link[a].closed
    /\ w2.link[a].phase = w.link[a].phase /\ w2.link[a].answer = w.link[a].answer
    /\ LinkOk(w2.srv[a], w2.link[a])
    /\ w.srv[a].host # NoOne => Coming(w2.srv[a], w2.link[a]) = Coming(w.srv[a], w.link[a])

(* A server that advances by one write, and feeds it to its slaves, keeps the invariant. *)
LEMMA FedKeeps ==
    ASSUME NEW w, NEW n \in Nat, Inv(w, n), NEW n2 \in Nat, n <= n2, NEW a \in Servers, NEW x \in Nat,
           HasBacklog(w, a), w.srv[a].cached = NoMaster, Room(w.srv[a].offset, n2),
           NEW w2, FedOthers(w, w2, a, x), Advances(w.srv[a], w2.srv[a], x), FedSelf(w, w2, a),
           NEW N, NewEnd(w, w2, n2, N), From(w, a, Here(w2.srv[a])) \/ Here(w2.srv[a]) \in N
    PROVE  Inv(w2, n2)
  <1> DEFINE v  == w.srv[a]
             v2 == w2.srv[a]
             l  == w.link[a]
             l2 == w2.link[a]
  <1>0. /\ Shaped(w2) /\ w2.ids = w.ids /\ w2.disk = w.disk
        /\ \A t \in Servers \ {a} : w2.srv[t] = w.srv[t]
        /\ \A t \in Servers \ {a} : w2.link[t] = FedLink(w, w.link[t], t, a, x)
    BY Zenon DEF FedOthers
  <1>21. /\ l2.to = l.to /\ l2.closed = l.closed /\ l2.phase = l.phase /\ l2.answer = l.answer
        /\ LinkOk(v2, l2) /\ (v.host # NoOne => Coming(v2, l2) = Coming(v, l))
    BY Zenon DEF FedSelf
  <1>1. /\ Shaped(w) /\ w.ids \in Nat /\ ServerOk(v, a, w.ids, n) /\ LinkOk(v, l)
        /\ l.to # a /\ l \in Links /\ Histories(w, n) /\ SlavesOk(w)
    BY InvFacts, LinkIsNotOwn, Zenon
  <1>2. /\ v2.host = v.host /\ v2.state = v.state /\ v2.replid = v.replid /\ v2.replid2 = v.replid2
        /\ v2.second = v.second /\ v2.cached = v.cached /\ v2.initial = v.initial
        /\ v2.bgsave = v.bgsave /\ v2.target = v.target /\ v2.force = v.force
        /\ v2.data = Append(v.data, x) /\ v2.offset = v.offset + 1
        /\ v2.backlog # NoBacklog /\ v2.backlog \in [offset : Int, histlen : Int]
        /\ v2.backlog.histlen \in 0 .. BacklogSize
        /\ v2.backlog.offset + v2.backlog.histlen = v.offset + 1 + 1
        /\ v2.master = IF v.master = NoMaster THEN NoMaster
                       ELSE [id |-> v.replid, off |-> v.offset + 1]
    BY Zenon DEF Advances, FullLog
  <1>3. TargetsOk(w2)
    BY <1>0, <1>2, TargetsKept
  <1>4. \A t \in Servers \ {a} : t \in Slaves(w, a) /\ w.link[t].phase # "start" =>
            w.link[t].phase \in {"end", "online"}
    BY <1>1, Zenon DEF Slaves, Shaped, Links
  <1>5. \A t \in Servers : ServerOk(w.srv[t], t, w.ids, n) /\ LinkOk(w.srv[t], w.link[t])
                           /\ w.link[t] \in Links
    BY InvFacts, Zenon
  <1>6. \A t \in Servers : w2.link[t].to = w.link[t].to /\ w2.link[t].closed = w.link[t].closed
                           /\ w2.link[t].phase = w.link[t].phase
                           /\ w2.link[t].answer = w.link[t].answer
    <2> SUFFICES ASSUME NEW t \in Servers
                 PROVE  /\ w2.link[t].to = w.link[t].to /\ w2.link[t].closed = w.link[t].closed
                        /\ w2.link[t].phase = w.link[t].phase
                        /\ w2.link[t].answer = w.link[t].answer
      BY Zenon
    <2>1. CASE t = a
      BY <1>21, <2>1, Zenon
    <2>2. CASE t # a
      <3>1. w2.link[t] = w.link[t] \/ w2.link[t] = Extend(w.link[t], x)
        BY <1>0, <2>2, Zenon DEF FedLink
      <3>2. w.link[t] \in Links
        BY <1>5, Zenon
      <3>3. LET e == Extend(w.link[t], x) IN
            /\ e.to = w.link[t].to /\ e.closed = w.link[t].closed /\ e.phase = w.link[t].phase
            /\ e.answer = w.link[t].answer
        BY <3>2, ExtendFacts, Zenon
      <3> QED BY <3>1, <3>3, Zenon
    <2> QED BY <2>1, <2>2, Zenon
  <1>7. \A m \in Servers : Slaves(w2, m) = Slaves(w, m)
    BY <1>6, Zenon DEF Slaves
  <1>8. /\ v.offset \in Nat /\ v.offset <= n /\ v.data \in Data /\ v.replid \in 1 .. w.ids
        /\ v.replid2 \in 0 .. w.ids /\ v.second \in Int
    BY <1>1, ServerNumbers, Zenon
  <1>9. Append(v.data, x) \in Data /\ v.offset + 1 \in 0 .. n2 /\ v.offset + 1 \in Nat
    <2>1. Append(v.data, x) \in Data
      BY <1>8, DataFacts, Zenon
    <2>2. v.offset + 1 <= n2
      BY Zenon DEF Room
    <2> QED BY <1>8, <2>1, <2>2
  <1> HIDE DEF v, v2, l, l2
  <1>10. /\ Here(v) = Pt(v.replid, v.offset, v.data)
         /\ Here(v2) = Pt(v.replid, v.offset + 1, Append(v.data, x))
    BY <1>2, Zenon DEF Here
  <1>11. Sound(Here(v2)) /\ Here(v2).id = v.replid
    BY <1>9, <1>10 DEF Sound, Pt
  <1>12. Known(v) /\ Known(v2) /\ v.backlog # NoBacklog
    <2>1. v.backlog # NoBacklog
      BY Zenon DEF HasBacklog, v
    <2>2. Known(v)
      BY <1>1, <2>1, Zenon DEF ServerOk, ServerLog
    <2>3. v.master # NoMaster => v2.master # NoMaster
      BY <1>2, <1>8 DEF NoMaster, NoId
    <2> QED BY <1>2, <2>1, <2>2, <2>3, Zenon DEF Known
  (* The slaves that are fed follow. *)
  <1>13. ASSUME NEW t \in Servers \ {a}, t \in Slaves(w, a), w.link[t].phase # "start"
         PROVE  /\ Coming(w2.srv[t], w2.link[t]) = Here(v2) /\ Coming(w.srv[t], w.link[t]) = Here(v)
                /\ w2.link[t] = Extend(w.link[t], x)
    <2>1. Coming(w.srv[t], w.link[t]) = Here(v)
      BY <1>1, <1>4, <1>13, Zenon DEF SlavesOk, SlaveOk, v
    <2>2. w.srv[t].data \in Data /\ w.srv[t].offset \in Nat
      BY <1>1, <1>5, ServerNumbers, Zenon
    <2>3. Coming(w.srv[t], w.link[t]) = Pt(v.replid, v.offset, v.data)
      BY <1>10, <2>1, Zenon
    <2>4. Coming(w.srv[t], Extend(w.link[t], x)) = Pt(v.replid, v.offset + 1, Append(v.data, x))
      BY <1>5, <2>2, <2>3, ExtendComing
    <2> QED BY <1>0, <1>10, <1>13, <2>1, <2>4, Zenon DEF FedLink
  <1>14. \A s \in Servers : ServerOk(w2.srv[s], s, w2.ids, n2)
    <2>1. \A s \in Servers \ {a} : ServerOk(w.srv[s], s, w.ids, n2)
      BY <1>5 DEF ServerOk, ServerTypes
    <2>2. ServerTypes(v2, a, w2.ids, n2)
      <3>1. v2.master \in Marks
        BY <1>2, <1>8, <1>9, NoLinkIsALink DEF Marks
      <3> QED BY <1>0, <1>1, <1>2, <1>8, <1>9, <3>1, Zenon DEF ServerOk, ServerTypes
    <2>3. ServerRole(v2)
      <3>1. v2.master # NoMaster <=> v.master # NoMaster
        BY <1>2, <1>8 DEF NoMaster, NoId
      <3>2. v2.cached = NoMaster
        BY <1>2, Zenon DEF v
      <3> QED BY <1>1, <1>2, <3>1, <3>2, Zenon DEF ServerOk, ServerRole
    <2>4. ServerLog(v2)
      <3>1. HasSecond(v2) => HasSecond(v)
        BY <1>2, <1>12, Zenon DEF HasSecond
      <3>2. HasSecond(v) => v2.second > 0 /\ v2.offset - (v2.second - 1) \in 0 .. Len(v2.data)
        BY <1>1, SecondStays, Zenon DEF v, v2
      <3>3. v2.replid2 = NoId => v2.second = -1
        BY <1>1, <1>2, Zenon DEF ServerOk, ServerLog
      <3> QED BY <1>2, <1>12, <3>1, <3>2, <3>3, Zenon DEF ServerLog
    <2>5. ServerOk(v2, a, w2.ids, n2)
      BY <2>2, <2>3, <2>4, Zenon DEF ServerOk
    <2> QED BY <1>0, <2>1, <2>5, Zenon DEF v2
  <1>15. \A s \in Servers : LinkOk(w2.srv[s], w2.link[s])
    <2> SUFFICES ASSUME NEW s \in Servers, s # a
                 PROVE  LinkOk(w2.srv[s], w2.link[s])
      BY <1>21, Zenon DEF v2, l2
    <2>1. CASE s \in Slaves(w, a) /\ w.link[s].phase # "start"
      <3>1. w.link[s].phase \in {"end", "online"}
        BY <1>4, <2>1, Zenon
      <3>2. w.link[s] # NoLink
        BY <3>1, NoLinkIsALink, Zenon
      <3>3. w2.srv[s] = w.srv[s] /\ LinkOk(w.srv[s], w.link[s])
        BY <1>0, <1>5, Zenon
      <3>4. /\ w2.link[s].to = w.link[s].to /\ w2.link[s].phase = w.link[s].phase
            /\ w2.link[s].answer = w.link[s].answer
        BY <1>6, Zenon
      <3> QED BY <3>1, <3>2, <3>3, <3>4, Zenon DEF LinkOk
    <2>2. CASE ~(s \in Slaves(w, a) /\ w.link[s].phase # "start")
      BY <1>0, <1>5, <2>2, Zenon DEF FedLink
    <2> QED BY <2>1, <2>2, Zenon
  <1>16. SlavesOk(w2)
    <2> SUFFICES ASSUME NEW m \in Servers, NEW r \in Slaves(w2, m)
                 PROVE  SlaveOk(w2, m, r)
      BY Zenon DEF SlavesOk
    <2>1. r \in Servers /\ r \in Slaves(w, m) /\ SlaveOk(w, m, r) /\ w.link[r].to = m
      BY <1>1, <1>7, Zenon DEF SlavesOk, Slaves
    <2>2. CASE m = a
      <3>1. r # a
        BY <1>1, <2>1, <2>2, Zenon DEF l
      <3>2. HasBacklog(w2, a)
        BY <1>2, Zenon DEF HasBacklog, v2
      <3>3. w2.link[r].phase \in {"end", "online"} => Coming(w2.srv[r], w2.link[r]) = Here(v2)
        BY <1>6, <1>13, <2>1, <2>2, <3>1, Zenon
      <3> QED BY <1>6, <2>1, <2>2, <3>2, <3>3, Zenon DEF SlaveOk, v2
    <2>3. CASE m # a
      <3>1. HasBacklog(w2, m) /\ Here(w2.srv[m]) = Here(w.srv[m])
        BY <1>0, <2>1, <2>3, Zenon DEF SlaveOk, HasBacklog
      <3>2. w.link[r].phase \in {"end", "online"} =>
                Coming(w2.srv[r], w2.link[r]) = Coming(w.srv[r], w.link[r])
        <4>1. CASE r = a
          <5>1. v.host # NoOne
            <6>1. l.to # NoOne
              BY <2>1, <4>1, BoundsAssumption, Zenon DEF l
            <6> QED BY <1>1, <6>1, NoLinkIsALink, Zenon DEF LinkOk, v, l
          <5> QED BY <1>21, <4>1, <5>1, Zenon DEF v, v2, l, l2
        <4>2. CASE r # a
          <5>1. r \notin Slaves(w, a)
            BY <2>1, <2>3, Zenon DEF Slaves
          <5> QED BY <1>0, <2>1, <4>2, <5>1, Zenon DEF FedLink
        <4> QED BY <4>1, <4>2, Zenon
      <3> QED BY <1>6, <2>1, <3>1, <3>2, Zenon DEF SlaveOk
    <2> QED BY <2>2, <2>3, Zenon
  <1>17. ASSUME NEW s \in Servers PROVE PointsFrom(w, w2, s, N)
    <2>1. CASE s = a
      <3> SUFFICES ASSUME NEW p, Point(w2, a, p)
                   PROVE  Point(w, a, p) \/ p = Here(v2)
        BY <1>11, <2>1, OldPoint, Zenon DEF PointsFrom, v2
      <3>1. \/ p = Here(v2)
            \/ HasSecond(v2) /\ p = Second(v2)
            \/ w.disk[a].rsi # NoMaster /\ p = FilePoint(w.disk[a])
            \/ v.bgsave # <<>> /\ v.bgsave[1].rsi # NoMaster /\ p = FilePoint(v.bgsave[1])
            \/ Arriving(v2, l2) /\ p = Coming(v2, l2)
        BY <1>0, <1>2, Zenon DEF Point, IsPoint, v, v2, l2
      <3>2. HasSecond(v2) => HasSecond(v) /\ Second(v2) = Second(v)
        BY <1>1, <1>2, <1>12, SecondStays, Zenon DEF HasSecond, v, v2
      <3>3. Arriving(v2, l2) => Arriving(v, l) /\ Coming(v2, l2) = Coming(v, l)
        <4>1. Arriving(v2, l2) <=> Arriving(v, l)
          BY <1>2, <1>21, Zenon DEF Arriving
        <4>2. Arriving(v, l) => v.host # NoOne
          BY <1>1, NoLinkIsALink, Zenon DEF Arriving, LinkOk, ServerOk, ServerRole
        <4> QED BY <1>21, <4>1, <4>2, Zenon
      <3>4. (HasSecond(v) /\ p = Second(v)) => Point(w, a, p)
        BY Zenon DEF Point, IsPoint, v
      <3>5. (Arriving(v, l) /\ p = Coming(v, l)) => Point(w, a, p)
        BY Zenon DEF Point, IsPoint, v, l
      <3>6. (w.disk[a].rsi # NoMaster /\ p = FilePoint(w.disk[a])) => Point(w, a, p)
        BY Zenon DEF Point, IsPoint
      <3>7. (v.bgsave # <<>> /\ v.bgsave[1].rsi # NoMaster /\ p = FilePoint(v.bgsave[1]))
                => Point(w, a, p)
        BY Zenon DEF Point, IsPoint, v
      <3> QED BY <3>1, <3>2, <3>3, <3>4, <3>5, <3>6, <3>7, Zenon
    <2>2. CASE s # a /\ s \in Slaves(w, a) /\ w.link[s].phase # "start"
      <3>1. From(w, s, Here(v2)) \/ Here(v2) \in N
        <4>1. ASSUME From(w, a, Here(v2)) PROVE From(w, s, Here(v2))
          BY <4>1, Zenon DEF From
        <4> QED BY <4>1, Zenon DEF v2
      <3> SUFFICES ASSUME NEW p, Point(w2, s, p)
                   PROVE  Point(w, s, p) \/ p = Here(v2)
        BY <1>11, <3>1, OldPoint, Zenon DEF PointsFrom
      <3>2. w2.srv[s] = w.srv[s] /\ Coming(w2.srv[s], w2.link[s]) = Here(v2)
        BY <1>0, <1>13, <2>2, Zenon
      <3> QED BY <1>0, <3>2, Zenon DEF Point, IsPoint
    <2>3. CASE s # a /\ ~(s \in Slaves(w, a) /\ w.link[s].phase # "start")
      <3>1. \A p : Point(w2, s, p) => Point(w, s, p)
        BY <1>0, <2>3, Zenon DEF Point, FedLink
      <3> QED BY <3>1, OldPoint, Zenon DEF PointsFrom
    <2> QED BY <2>1, <2>2, <2>3, Zenon
  <1>18. ASSUME NEW s \in Servers PROVE MasterKept(w, w2, s, a)
    <2>1. CASE s = a
      <3>1. v.offset <= v2.offset
        BY <1>2, <1>8
      <3> QED BY <1>2, <2>1, <3>1, Zenon DEF MasterKept, StaysMaster, v, v2
    <2>2. CASE s # a
      <3>1. w.srv[s].offset \in Nat
        BY <1>1, <1>5, ServerNumbers, Zenon
      <3>2. w.srv[s].offset <= w2.srv[s].offset
        BY <1>0, <2>2, <3>1
      <3> QED BY <1>0, <2>2, <3>2, Zenon DEF MasterKept, StaysMaster
    <2> QED BY <2>1, <2>2, Zenon
  <1>19. ASSUME NEW s \in Servers PROVE AloneKept(w, w2, s)
    <2>1. CASE s = a
      BY <1>2, <2>1, Zenon DEF AloneKept, Alone, v, v2
    <2>2. CASE s # a
      <3> SUFFICES ASSUME Alone(w.srv[s])
                   PROVE  w2.link[s].answer.type # "continue" /\ StaysAlone(w, w2, s)
        BY <1>0, <2>2, Zenon DEF AloneKept
      <3>1. w2.srv[s] = w.srv[s] /\ w2.link[s].answer = w.link[s].answer
        BY <1>0, <1>6, <2>2, Zenon
      <3>2. w.link[s].answer.type # "continue"
        BY <1>1, Zenon DEF Histories, Private
      <3>3. Arriving(w2.srv[s], w2.link[s]) => Arriving(w.srv[s], w.link[s])
        BY <3>1, Zenon DEF Arriving
      <3>4. Coming(w2.srv[s], w2.link[s]).id = Coming(w.srv[s], w.link[s]).id
        BY <3>1, Zenon DEF Coming, Pt
      <3> QED BY <3>1, <3>2, <3>3, <3>4, Zenon DEF StaysAlone
    <2> QED BY <2>1, <2>2, Zenon
  <1>20. w.ids <= w2.ids
    <2>1. w2.ids = w.ids
      BY <1>0, Zenon
    <2>2. w.ids \in Nat
      BY <1>1, Zenon
    <2> QED BY <2>1, <2>2
  <1> QED BY <1>0, <1>3, <1>14, <1>15, <1>16, <1>17, <1>18, <1>19, <1>20, StepOfAll, Zenon


(* A client's write. *)
Written(w, m, x) == feedReplicationBuffer(Set(w, m, [data |-> Append(w.srv[m].data, x)]), m, x)

(* What a client's write does. *)
LEMMA WrittenEffect ==
    ASSUME NEW w, NEW n \in Nat, Inv(w, n), NEW m \in Servers, NEW x \in Nat, w.srv[m].host = NoOne,
           NEW w2, w2 = Written(w, m, x)
    PROVE  /\ Shaped(w2) /\ w2.ids = w.ids /\ w2.disk = w.disk
           /\ \A t \in Servers \ {m} : w2.srv[t] = w.srv[t]
           /\ \A i \in Fields \ {"data", "offset", "backlog"} : w2.srv[m][i] = w.srv[m][i]
           /\ w2.srv[m].data = Append(w.srv[m].data, x)
           /\ HasBacklog(w, m) => /\ w2.srv[m].offset = w.srv[m].offset + 1
                                  /\ FullLog(w2.srv[m].backlog, w.srv[m].offset + 1)
                                  /\ FedLinks(w, w2, m, x)
           /\ ~HasBacklog(w, m) => /\ w2.srv[m].offset = w.srv[m].offset
                                   /\ w2.srv[m].backlog = w.srv[m].backlog /\ w2.link = w.link
  <1> DEFINE f == [data |-> Append(w.srv[m].data, x)]
             b == Set(w, m, f)
  <1>1. w2 = feedReplicationBuffer(b, m, x)
    BY Zenon DEF Written
  <1>2. DOMAIN f = {"data"} /\ {"data"} \subseteq Fields /\ f.data = Append(w.srv[m].data, x)
    BY Zenon DEF Fields, Core
  <1>3. Shaped(w) /\ w.ids \in Nat /\ ServerOk(w.srv[m], m, w.ids, n)
    BY InvFacts, Zenon
  <1> HIDE DEF f
  <1>4. /\ Only(w, b, m, {"data"}) /\ b.link = w.link /\ b.ids = w.ids
        /\ b.srv[m].data = Append(w.srv[m].data, x)
    BY <1>2, <1>3, SetOnly
  <1> HIDE DEF b
  <1>5. b.srv[m].offset = w.srv[m].offset /\ b.srv[m].backlog = w.srv[m].backlog
    BY <1>4, Zenon DEF Only, Fields, Core
  <1>6. Slaves(b, m) = Slaves(w, m)
    BY <1>4, Zenon DEF Slaves
  <1>7. CASE HasBacklog(w, m)
    <2>1. b.srv[m].offset \in Nat /\ FullLog(b.srv[m].backlog, b.srv[m].offset) /\ HasBacklog(b, m)
      BY <1>3, <1>5, <1>7 DEF HasBacklog, FullLog, ServerOk, ServerTypes, ServerLog
    <2>2. /\ Only(b, w2, m, {"offset", "backlog"}) /\ w2.ids = b.ids
          /\ w2.srv[m].offset = b.srv[m].offset + 1
          /\ FullLog(w2.srv[m].backlog, b.srv[m].offset + 1) /\ FedLinks(b, w2, m, x)
      BY <1>1, <1>4, <2>1, FeedEffect, Zenon DEF Only
    <2>3. FedLinks(w, w2, m, x)
      BY <1>4, <1>6, <2>2, Zenon DEF FedLinks
    <2>4. /\ w2.srv[m].data = Append(w.srv[m].data, x)
      BY <1>4, <2>2, Zenon DEF Only, Fields, Core
    <2> QED BY <1>4, <1>5, <1>7, <2>2, <2>3, <2>4, Zenon DEF Only
  <1>8. CASE ~HasBacklog(w, m)
    <2>1. w2 = b
      BY <1>1, <1>5, <1>8, Zenon DEF feedReplicationBuffer, HasBacklog
    <2> QED BY <1>4, <1>5, <1>8, <2>1, Zenon DEF Only
  <1> QED BY <1>7, <1>8, Zenon

(* A point is below the one after it. *)
LEMMA AppendBelow ==
    ASSUME NEW id, NEW off \in Nat, NEW d \in Data, NEW x \in Nat
    PROVE  Below(Pt(id, off, d), Pt(id, off + 1, Append(d, x)))
  <1>1. <<x>> \in Data /\ Len(<<x>>) = 1 /\ d \o <<x>> = Append(d, x)
    BY DEF Data
  <1>2. Below(Pt(id, off, d), Pt(id, off + Len(<<x>>), d \o <<x>>))
    BY <1>1, BelowLonger, Zenon
  <1> QED BY <1>1, <1>2, Zenon

(* A master's write gives its history a new end. *)
LEMMA WriteEnd ==
    ASSUME NEW w, NEW n \in Nat, Inv(w, n), NEW n2 \in Nat, NEW m \in Servers, w.srv[m].host = NoOne,
           HasBacklog(w, m), Room(w.srv[m].offset, n2), NEW x \in Nat, NEW w2, w2.ids = w.ids,
           \A t \in Servers \ {m} : w2.srv[t] = w.srv[t], Advances(w.srv[m], w2.srv[m], x)
    PROVE  NewEnd(w, w2, n2, {Here(w2.srv[m])})
  <1> DEFINE v  == w.srv[m]
             v2 == w2.srv[m]
             p  == Here(v2)
  <1>1. /\ Shaped(w) /\ w.ids \in Nat /\ ServerOk(v, m, w.ids, n) /\ Histories(w, n)
    BY InvFacts, Zenon
  <1>2. /\ v.offset \in Nat /\ v.data \in Data /\ v.replid \in 1 .. w.ids /\ v.replid \in Nat
    BY <1>1, ServerNumbers, Zenon
  <1>3. v.cached = NoMaster /\ v.backlog # NoBacklog /\ Known(v)
    BY <1>1, Zenon DEF ServerOk, ServerRole, HasBacklog, Known
  <1>4. /\ v2.replid = v.replid /\ v2.data = Append(v.data, x) /\ v2.offset = v.offset + 1
        /\ v2.backlog # NoBacklog /\ v2.cached = NoMaster
    BY <1>3, Zenon DEF Advances, FullLog
  <1>5. Point(w, m, Here(v)) /\ Here(v).id = v.replid
    BY <1>3, PlaceIsKnown, Zenon
  <1>6. v.offset + 1 <= n2
    BY Zenon DEF Room
  <1> HIDE DEF v, v2
  <1>7. Here(v) = Pt(v.replid, v.offset, v.data) /\ p = Pt(v.replid, v.offset + 1, Append(v.data, x))
    BY <1>4, Zenon DEF Here
  <1>8. p.id = v.replid /\ p.off = v.offset + 1 /\ Sound(p) /\ Sound(Here(v)) /\ Here(v).off = v.offset
    <2>1. Append(v.data, x) \in Data
      BY <1>2, DataFacts, Zenon
    <2>2. v.offset + 1 \in Nat
      BY <1>2
    <2> QED BY <1>2, <1>7, <2>1, <2>2 DEF Pt, Sound
  <1>9. Below(Here(v), p)
    BY <1>2, <1>7, AppendBelow, Zenon
  <1>10. PointsOk(w, n) /\ Consistent(w) /\ Frontier(w) /\ OneMaster(w) /\ Private(w)
    BY <1>1, Zenon DEF Histories
  <1> HIDE DEF p
  <1>11. ASSUME NEW t \in Servers, NEW q, Point(w, t, q), q.id = p.id
         PROVE  Below(q, p)
    <2>1. Agree(q, Here(v))
      BY <1>5, <1>8, <1>10, <1>11, Zenon DEF Consistent
    <2>2. q.off <= v.offset
      BY <1>8, <1>10, <1>11, Zenon DEF Frontier, v
    <2>3. Sound(q)
      BY <1>10, <1>11, PointsAreSound, Zenon
    <2>4. Below(q, Here(v))
      BY <1>5, <1>8, <1>11, <2>1, <2>2, Zenon DEF Below
    <2> QED BY <1>8, <1>9, <2>3, <2>4, BelowTransitive, Zenon
  <1>12. ASSUME NEW o \in Servers, w2.srv[o].host = NoOne, w2.srv[o].replid = p.id
         PROVE  HasBacklog(w2, o) /\ p.off <= w2.srv[o].offset
    <2>1. o = m
      BY <1>8, <1>10, <1>12, Zenon DEF OneMaster, v
    <2>2. v.offset + 1 <= v2.offset
      BY <1>2, <1>4
    <2> QED BY <1>4, <1>8, <2>1, <2>2, Zenon DEF HasBacklog, v2
  <1>13. ASSUME NEW r \in Servers, NEW s \in Servers, Alone(w2.srv[r])
         PROVE  p.id # w2.srv[r].replid
    <2>1. r # m
      BY <1>4, <1>13, Zenon DEF Alone, v2
    <2>2. Alone(w.srv[r]) /\ w2.srv[r] = w.srv[r]
      BY <1>13, <2>1, Zenon
    <2>3. Here(v).id # w.srv[r].replid
      BY <1>5, <1>10, <2>1, <2>2, Zenon DEF Private
    <2> QED BY <1>5, <1>8, <2>2, <2>3, Zenon
  <1>14. p.id \in 1 .. w2.ids /\ p.off <= n2
    BY <1>1, <1>2, <1>6, <1>8, Zenon
  <1>15. \A q, y \in {p} : q = y
    BY Zenon
  <1>16. NewEnd(w, w2, n2, {p})
    <2> SUFFICES ASSUME NEW q \in {p}
                 PROVE  /\ q.id \in 1 .. w2.ids /\ q.off <= n2
                        /\ \A t \in Servers : \A y : Point(w, t, y) /\ y.id = q.id => Below(y, q)
                        /\ \A o \in Servers : w2.srv[o].host = NoOne /\ w2.srv[o].replid = q.id =>
                              HasBacklog(w2, o) /\ q.off <= w2.srv[o].offset
                        /\ \A r, s \in Servers :
                              Alone(w2.srv[r]) /\ s # r /\ Point(w2, s, q) => q.id # w2.srv[r].replid
      BY <1>15, Zenon DEF NewEnd
    <2>1. q = p
      BY Zenon
    <2> QED BY <1>11, <1>12, <1>13, <1>14, <2>1, Zenon
  <1> QED BY <1>16, Zenon DEF p, v2


(* A client's write keeps the invariant. *)
LEMMA WriteKeeps ==
    ASSUME NEW w, NEW n \in Nat, Inv(w, n), NEW m \in Servers, NEW x \in Nat, w.srv[m].host = NoOne
    PROVE  /\ Inv(Written(w, m, x), n + 1)
           /\ \A s \in Servers : Aside(w.srv[s], Written(w, m, x).srv[s])
  <1> DEFINE w2 == Written(w, m, x)
             v  == w.srv[m]
             v2 == w2.srv[m]
  <1>1. /\ Shaped(w) /\ w.ids \in Nat /\ ServerOk(v, m, w.ids, n) /\ LinkOk(v, w.link[m])
        /\ SlavesOk(w)
    BY InvFacts, Zenon
  <1>2. /\ Shaped(w2) /\ w2.ids = w.ids /\ w2.disk = w.disk
        /\ \A t \in Servers \ {m} : w2.srv[t] = w.srv[t]
        /\ \A i \in Fields \ {"data", "offset", "backlog"} : w2.srv[m][i] = w.srv[m][i]
        /\ w2.srv[m].data = Append(w.srv[m].data, x)
        /\ HasBacklog(w, m) => /\ w2.srv[m].offset = w.srv[m].offset + 1
                               /\ FullLog(w2.srv[m].backlog, w.srv[m].offset + 1)
                               /\ FedLinks(w, w2, m, x)
        /\ ~HasBacklog(w, m) => /\ w2.srv[m].offset = w.srv[m].offset
                                /\ w2.srv[m].backlog = w.srv[m].backlog /\ w2.link = w.link
    BY WrittenEffect
  <1> HIDE DEF w2
  <1>3. /\ v2.host = v.host /\ v2.state = v.state /\ v2.replid = v.replid /\ v2.replid2 = v.replid2
        /\ v2.second = v.second /\ v2.cached = v.cached /\ v2.initial = v.initial
        /\ v2.master = v.master
        /\ v2.bgsave = v.bgsave /\ v2.target = v.target /\ v2.force = v.force
        /\ v2.failover = v.failover
    BY <1>2, Zenon DEF Fields, Core
  <1>4. /\ v.cached = NoMaster /\ v.master = NoMaster /\ v.state = "none" /\ w.link[m] = NoLink
        /\ v.host = NoOne
    BY <1>1, Zenon DEF ServerOk, ServerRole, LinkOk
  <1>5. v.offset \in Nat /\ v.offset <= n /\ v.data \in Data
    BY <1>1, ServerNumbers, Zenon
  <1>6. n + 1 \in Nat /\ n <= n + 1
    OBVIOUS
  <1>7. \A s \in Servers : Aside(w.srv[s], w2.srv[s])
    BY <1>2, <1>3, Zenon DEF Aside
  <1>8. CASE HasBacklog(w, m)
    <2>1. Advances(v, v2, x)
      BY <1>2, <1>3, <1>4, <1>8, Zenon DEF Advances
    <2>2. m \notin Slaves(w, m)
      BY <1>4, NoLinkIsALink, Zenon DEF Slaves
    <2>3. /\ w2.link[m] = NoLink
          /\ \A t \in Servers \ {m} : w2.link[t] = FedLink(w, w.link[t], t, m, x)
      BY <1>2, <1>4, <1>8, <2>2, Zenon DEF FedLinks, FedLink
    <2>4. FedOthers(w, w2, m, x)
      BY <1>2, <2>3, Zenon DEF FedOthers
    <2>5. FedSelf(w, w2, m)
      BY <1>3, <1>4, <2>3, Zenon DEF FedSelf, LinkOk
    <2>6. Room(v.offset, n + 1)
      BY <1>5 DEF Room
    <2>7. NewEnd(w, w2, n + 1, {Here(v2)})
      BY <1>2, <1>6, <1>8, <2>1, <2>6, WriteEnd, Zenon
    <2>8. Here(v2) \in {Here(v2)}
      BY Zenon
    <2>9. Inv(w2, n + 1)
      BY <1>4, <1>6, <1>8, <2>1, <2>4, <2>5, <2>6, <2>7, <2>8, FedKeeps, Zenon
    <2> QED BY <1>7, <2>9, Zenon DEF w2
  <1>9. CASE ~HasBacklog(w, m)
    <2>1. /\ v2.offset = v.offset /\ v2.backlog = NoBacklog /\ w2.link = w.link
          /\ v.backlog = NoBacklog /\ v2.data = Append(v.data, x)
      BY <1>2, <1>9, Zenon DEF HasBacklog
    <2>2. v2.data \in Data
      BY <1>5, <2>1, DataFacts, Zenon
    <2>3. OthersStay(w, w2, m) /\ TargetsOk(w2)
      BY <1>2, <1>3, <2>1, ClosedStay, TargetsKept, Zenon
    <2>4. Slaves(w2, m) = {} /\ StaysSlave(w, w2, m) /\ SlavesStay(w, w2, m)
      <3>1. Slaves(w, m) = {}
        BY <1>1, <1>9, Zenon DEF SlavesOk, SlaveOk
      <3>2. Slaves(w2, m) = {}
        BY <2>1, <3>1, Zenon DEF Slaves
      <3> QED BY <1>4, <2>1, <3>2, NoLinkNoSlave, Zenon DEF SlavesStay
    <2> HIDE DEF v, v2
    <2>5. ~Known(v2) /\ ~HasSecond(v2) /\ ~Alone(v2)
      BY <1>3, <1>4, <2>1, Zenon DEF Known, HasSecond, Alone
    <2>6. ServerTypes(v2, m, w2.ids, n)
      BY <1>1, <1>2, <1>3, <2>1, <2>2, Zenon DEF ServerOk, ServerTypes
    <2>7. ServerRole(v2)
      BY <1>3, <1>4, Zenon DEF ServerRole
    <2>8. ServerLog(v2)
      BY <1>1, <1>3, <2>1, <2>5, Zenon DEF ServerOk, ServerLog
    <2>9. ServerOk(v2, m, w2.ids, n)
      BY <2>6, <2>7, <2>8, Zenon DEF ServerOk
    <2>10. LinkOk(v2, w2.link[m]) /\ ~Arriving(v2, w2.link[m])
      BY <1>3, <1>4, <2>1, NoLinkIsALink, Zenon DEF LinkOk, Arriving
    <2>11. PointsFrom(w, w2, m, {})
      <3>1. \A p : Point(w2, m, p) => Point(w, m, p)
        BY <1>2, <1>3, <2>5, <2>10, Zenon DEF Point, IsPoint, v, v2
      <3> QED BY <3>1, OldPoint, Zenon DEF PointsFrom
    <2>12. MasterKept(w, w2, m, m) /\ AloneKept(w, w2, m)
      <3>1. v.offset <= v2.offset
        BY <1>5, <2>1
      <3> QED BY <1>3, <1>4, <2>1, <2>5, <3>1, Zenon DEF MasterKept, StaysMaster, AloneKept, v, v2
    <2>13. w.ids <= w2.ids
      <3>1. w2.ids = w.ids
        BY <1>2, Zenon
      <3> QED BY <1>1, <3>1
    <2>14. Inv(w2, n)
      BY <1>2, <2>3, <2>4, <2>9, <2>10, <2>11, <2>12, <2>13, NoEnd, StepOfOne, Zenon DEF v2
    <2> QED BY <1>6, <1>7, <2>14, MoreWrites, Zenon DEF w2
  <1> QED BY <1>8, <1>9, Zenon

(* A write from the master. *)
Shift(w, r) == [w EXCEPT !.link[r].stream = Tail(@)]

Applied(w, r) == ApplyWrite(Shift(w, r), r, Head(w.link[r].stream))

(* Taking the first write off the stream. *)
LEMMA ShiftEffect ==
    ASSUME NEW w, Shaped(w), NEW r \in Servers, w.link[r].stream # <<>>, NEW w2, w2 = Shift(w, r)
    PROVE  /\ Shaped(w2) /\ w2.srv = w.srv /\ w2.disk = w.disk /\ w2.ids = w.ids
           /\ \A t \in Servers \ {r} : w2.link[t] = w.link[t]
           /\ w2.link[r].to = w.link[r].to /\ w2.link[r].closed = w.link[r].closed
           /\ w2.link[r].phase = w.link[r].phase /\ w2.link[r].answer = w.link[r].answer
           /\ w2.link[r].stream = Tail(w.link[r].stream)
  <1> DEFINE l == [w.link[r] EXCEPT !.stream = Tail(w.link[r].stream)]
  <1>1. w.link[r] \in Links /\ w.link[r].stream \in Data
    BY Zenon DEF Shaped, Links
  <1>2. Tail(w.link[r].stream) \in Data
    BY <1>1, HeadTail, Zenon
  <1>3. /\ l \in Links /\ l.to = w.link[r].to /\ l.closed = w.link[r].closed
        /\ l.phase = w.link[r].phase /\ l.answer = w.link[r].answer
        /\ l.stream = Tail(w.link[r].stream)
    BY <1>1, <1>2, Zenon DEF Links
  <1>4. w2 = LinkAt(w, r, l)
    BY Zenon DEF Shift, LinkAt
  <1> HIDE DEF l
  <1> QED BY <1>3, <1>4, LinkAtEffect


(* What applying a write of the stream does. *)
LEMMA AppliedEffect ==
    ASSUME NEW w, NEW n \in Nat, Inv(w, n), NEW r \in Servers, w.srv[r].state = "connected",
           w.link[r].stream # <<>>, NEW w2, w2 = Applied(w, r)
    PROVE  LET x == Head(w.link[r].stream) IN
           /\ FedOthers(w, w2, r, x) /\ Advances(w.srv[r], w2.srv[r], x)
           /\ w2.srv[r].failover = w.srv[r].failover
           /\ w2.link[r].to = w.link[r].to /\ w2.link[r].closed = w.link[r].closed
           /\ w2.link[r].phase = w.link[r].phase /\ w2.link[r].answer = w.link[r].answer
           /\ w2.link[r].stream = Tail(w.link[r].stream)
  <1> DEFINE x == Head(w.link[r].stream)
             v == w.srv[r]
             v2 == w2.srv[r]
             b == Shift(w, r)
             f == [data |-> Append(b.srv[r].data, x), master |-> [b.srv[r].master EXCEPT !.off = @ + 1]]
             c == Set(b, r, f)
  <1>1. w2 = feedReplicationBuffer(c, r, x)
    BY Zenon DEF Applied, ApplyWrite
  <1>2. Shaped(w) /\ w.ids \in Nat /\ ServerOk(v, r, w.ids, n) /\ w.link[r] \in Links /\ w.link[r].to # r
    BY InvFacts, LinkIsNotOwn, Zenon
  <1>3. x \in Nat
    <2>1. w.link[r].stream \in Data
      BY <1>2, Zenon DEF Links
    <2> QED BY <2>1, HeadTail, Zenon
  <1>4. /\ v.master # NoMaster /\ v.master = [id |-> v.replid, off |-> v.offset]
        /\ v.backlog # NoBacklog /\ FullLog(v.backlog, v.offset) /\ v.offset \in Nat
    <2>1. v.master # NoMaster /\ v.backlog # NoBacklog
      BY <1>2, Zenon DEF ServerOk, ServerRole
    <2> QED BY <1>2, <2>1 DEF ServerOk, ServerRole, ServerTypes, ServerLog, FullLog
  <1>5. [v.master EXCEPT !.off = @ + 1] = [id |-> v.replid, off |-> v.offset + 1]
    BY <1>4
  <1>6. /\ Shaped(b) /\ b.srv = w.srv /\ b.disk = w.disk /\ b.ids = w.ids
        /\ \A t \in Servers \ {r} : b.link[t] = w.link[t]
        /\ b.link[r].to = w.link[r].to /\ b.link[r].closed = w.link[r].closed
        /\ b.link[r].phase = w.link[r].phase /\ b.link[r].answer = w.link[r].answer
        /\ b.link[r].stream = Tail(w.link[r].stream)
    BY <1>2, ShiftEffect
  <1> HIDE DEF b, x
  <1>7. /\ DOMAIN f = {"data", "master"} /\ {"data", "master"} \subseteq Fields
        /\ f.data = Append(v.data, x) /\ f.master = [id |-> v.replid, off |-> v.offset + 1]
    BY <1>5, <1>6, Zenon DEF Fields, Core
  <1> HIDE DEF f
  <1>8. /\ Only(b, c, r, {"data", "master"}) /\ c.link = b.link /\ c.ids = b.ids
        /\ c.srv[r].data = Append(v.data, x)
        /\ c.srv[r].master = [id |-> v.replid, off |-> v.offset + 1]
    BY <1>6, <1>7, SetOnly
  <1> HIDE DEF c
  <1>9. c.srv[r].offset = v.offset /\ c.srv[r].backlog = v.backlog
    BY <1>6, <1>8, Zenon DEF Only, Fields, Core
  <1>10. HasBacklog(c, r) /\ c.srv[r].offset \in Nat /\ FullLog(c.srv[r].backlog, c.srv[r].offset)
    BY <1>4, <1>9, Zenon DEF HasBacklog
  <1>11. /\ Only(c, w2, r, {"offset", "backlog"}) /\ w2.ids = c.ids
         /\ w2.srv[r].offset = c.srv[r].offset + 1
         /\ FullLog(w2.srv[r].backlog, c.srv[r].offset + 1) /\ FedLinks(c, w2, r, x)
    BY <1>1, <1>3, <1>8, <1>10, FeedEffect, Zenon DEF Only
  <1>12. /\ Shaped(w2) /\ w2.ids = w.ids /\ w2.disk = w.disk
         /\ \A t \in Servers \ {r} : w2.srv[t] = w.srv[t]
         /\ \A i \in Fields \ {"data", "master", "offset", "backlog"} : v2[i] = v[i]
    BY <1>6, <1>8, <1>11, Zenon DEF Only
  <1>13. /\ v2.host = v.host /\ v2.state = v.state /\ v2.replid = v.replid /\ v2.replid2 = v.replid2
         /\ v2.second = v.second /\ v2.cached = v.cached /\ v2.initial = v.initial
         /\ v2.bgsave = v.bgsave /\ v2.target = v.target /\ v2.force = v.force
         /\ v2.failover = v.failover
    BY <1>12, Zenon DEF Fields, Core
  <1>14. v2.data = Append(v.data, x) /\ v2.master = [id |-> v.replid, off |-> v.offset + 1]
    BY <1>8, <1>11, Zenon DEF Only, Fields, Core
  <1>15. Advances(v, v2, x)
    BY <1>4, <1>9, <1>11, <1>13, <1>14, Zenon DEF Advances
  <1>16. \A t \in Servers \ {r} : t \in Slaves(c, r) <=> t \in Slaves(w, r)
    BY <1>6, <1>8, Zenon DEF Slaves
  <1>17. r \notin Slaves(c, r)
    BY <1>2, <1>6, <1>8, Zenon DEF Slaves
  <1>18. w2.link[r] = b.link[r]
    BY <1>8, <1>11, <1>17, Zenon DEF FedLinks
  <1>19. \A t \in Servers \ {r} : w2.link[t] = FedLink(w, w.link[t], t, r, x)
    BY <1>6, <1>8, <1>11, <1>16 DEF FedLinks, FedLink
  <1>20. FedOthers(w, w2, r, x)
    BY <1>12, <1>19, Zenon DEF FedOthers
  <1> QED BY <1>6, <1>13, <1>15, <1>18, <1>20, Zenon DEF x

(* Applying a write of the stream keeps the invariant. *)
LEMMA ApplyKeeps ==
    ASSUME NEW w, NEW n \in Nat, Inv(w, n), NEW r \in Servers,
           w.link[r].answer.type = "none", w.link[r].stream # <<>>
    PROVE  /\ Inv(Applied(w, r), n)
           /\ \A s \in Servers : Aside(w.srv[s], Applied(w, r).srv[s])
  <1> DEFINE w2 == Applied(w, r)
             x  == Head(w.link[r].stream)
             v  == w.srv[r]
             v2 == w2.srv[r]
             l  == w.link[r]
             l2 == w2.link[r]
  <1>1. /\ Shaped(w) /\ w.ids \in Nat /\ ServerOk(v, r, w.ids, n) /\ LinkOk(v, l) /\ l \in Links
        /\ Histories(w, n)
    BY InvFacts, Zenon
  <1>2. v.state = "connected"
    BY <1>1, NoLinkIsALink, Zenon DEF LinkOk, ServerOk, ServerTypes
  <1>3. /\ FedOthers(w, w2, r, x) /\ Advances(v, v2, x) /\ v2.failover = v.failover
        /\ l2.to = l.to /\ l2.closed = l.closed /\ l2.phase = l.phase /\ l2.answer = l.answer
        /\ l2.stream = Tail(l.stream)
    BY <1>2, AppliedEffect
  <1> HIDE DEF w2
  <1>4. HasBacklog(w, r) /\ v.cached = NoMaster /\ v.host # NoOne
    <2>1. v.master # NoMaster
      BY <1>1, <1>2, Zenon DEF ServerOk, ServerRole
    <2> QED BY <1>1, <1>2, <2>1, Zenon DEF ServerOk, ServerRole, HasBacklog
  <1>5. /\ v2.host = v.host /\ v2.state = v.state /\ v2.replid = v.replid
        /\ v2.target = v.target /\ v2.force = v.force
        /\ v2.data = Append(v.data, x) /\ v2.offset = v.offset + 1
    BY <1>3, Zenon DEF Advances
  <1>6. v.offset \in Nat /\ v.data \in Data /\ l.stream \in Data
    BY <1>1, ServerNumbers, Zenon DEF Links
  <1>7. LinkOk(v2, l2)
    BY <1>1, <1>2, <1>3, <1>5, Zenon DEF LinkOk
  <1> HIDE DEF v, v2, l2
  <1> DEFINE e == l.stream
  <1>8. e # <<>> /\ x = Head(e)
    BY Zenon
  <1>9. /\ Arriving(v, l) /\ Coming(v, l) = Pt(v.replid, v.offset + Len(e), v.data \o e)
        /\ Coming(v2, l2) = Pt(v.replid, (v.offset + 1) + Len(Tail(e)), Append(v.data, x) \o Tail(e))
        /\ Here(v2) = Pt(v.replid, v.offset + 1, Append(v.data, x))
    BY <1>2, <1>3, <1>5, Zenon DEF Arriving, Coming, Here
  <1> HIDE DEF l, e, x
  <1>10. /\ x \in Nat /\ Tail(e) \in Data /\ Len(Tail(e)) = Len(e) - 1 /\ Len(e) \in Nat \ {0}
         /\ Append(v.data, x) \o Tail(e) = v.data \o e
    BY <1>6, <1>8, HeadTail, Zenon DEF e
  <1>11. (v.offset + 1) + Len(Tail(e)) = v.offset + Len(e) /\ v.offset + 1 \in Nat
    BY <1>6, <1>10
  <1>12. Coming(v2, l2) = Coming(v, l)
    BY <1>9, <1>10, <1>11, Zenon
  <1>13. Append(v.data, x) \in Data
    BY <1>6, <1>10, DataFacts, Zenon
  <1>14. Below(Here(v2), Coming(v2, l2))
    BY <1>9, <1>10, <1>11, <1>13, BelowLonger, Zenon
  <1>15. Point(w, r, Coming(v, l))
    BY <1>9, Zenon DEF Point, IsPoint, v, l
  <1>16. From(w, r, Here(v2))
    BY <1>12, <1>14, <1>15, Zenon DEF From
  <1>17. Room(v.offset, n)
    <2>1. Coming(v, l).off <= n
      BY <1>1, <1>15 DEF Histories, PointsOk
    <2>2. v.offset + Len(e) <= n
      BY <1>9, <2>1 DEF Pt
    <2> QED BY <1>6, <1>10, <2>2 DEF Room
  <1>18. FedSelf(w, w2, r)
    BY <1>3, <1>7, <1>12, Zenon DEF FedSelf, v, v2, l, l2
  <1>19. NewEnd(w, w2, n, {}) /\ n <= n
    BY DEF NewEnd
  <1>20. Inv(w2, n)
    BY <1>3, <1>4, <1>10, <1>16, <1>17, <1>18, <1>19, FedKeeps, Zenon DEF v, v2
  <1>21. \A t \in Servers \ {r} : w2.srv[t] = w.srv[t]
    BY <1>3, Zenon DEF FedOthers
  <1>22. \A s \in Servers : Aside(w.srv[s], w2.srv[s])
    BY <1>3, <1>5, <1>21, Zenon DEF Aside, v, v2
  <1> QED BY <1>20, <1>22, Zenon DEF w2


-----------------------------------------------------------------------------
(* The steps, as functions of the world.  None but updateFailoverStatus makes
   a server hand over. *)

NoHandOver(w, w2) ==
    \A m \in Servers : w2.srv[m].failover = "progress" => w.srv[m].failover = "progress"

Good(w, w2, n) == Inv(w2, n) /\ NoHandOver(w, w2)

(* Steps without a hand-over, one after the other, are one. *)
LEMMA GoodThen ==
    ASSUME NEW w, NEW w1, NEW w2, NEW n, Good(w, w1, n), Good(w1, w2, n)
    PROVE  Good(w, w2, n)
  BY Zenon DEF Good, NoHandOver

(* A failover that is kept or cleared is not handed over. *)
LEMMA AsideIsNoHandOver ==
    ASSUME NEW w, NEW w2, \A s \in Servers : Aside(w.srv[s], w2.srv[s])
    PROVE  NoHandOver(w, w2)
  BY Zenon DEF NoHandOver, Aside

(* A step that does not touch the failover hands nothing over. *)
LEMMA OnlyIsNoHandOver ==
    ASSUME NEW w, NEW w2, NEW s, NEW F, "failover" \notin F, Only(w, w2, s, F)
    PROVE  NoHandOver(w, w2)
  BY Zenon DEF NoHandOver, Only, Fields, Core

(* replicationUnsetMaster() is such a step. *)
LEMMA UnsetIsGood ==
    ASSUME NEW w, NEW n \in Nat, Inv(w, n), NEW r \in Servers
    PROVE  Good(w, replicationUnsetMaster(w, r), n)
  <1> DEFINE w2 == replicationUnsetMaster(w, r)
  <1>1. Inv(w2, n)
    BY UnsetKeeps, Zenon
  <1>2. CASE w.srv[r].host = NoOne
    <2>1. w2 = w
      BY <1>2, Zenon DEF replicationUnsetMaster
    <2> QED BY <1>1, <2>1, Zenon DEF Good, NoHandOver
  <1>3. CASE w.srv[r].host # NoOne
    <2>1. Shaped(w) /\ w.link[r].to # r
      BY InvFacts, LinkIsNotOwn, Zenon
    <2>2. Only(w, w2, r, {"host", "state", "master", "cached", "replid", "replid2", "second"})
      BY <1>3, <2>1, UnsetEffect, Zenon
    <2> HIDE DEF w2
    <2>3. NoHandOver(w, w2)
      BY <2>2, OnlyIsNoHandOver, Zenon
    <2> QED BY <1>1, <2>3, Zenon DEF Good, w2
  <1> QED BY <1>2, <1>3, Zenon

(* replicationSetMaster() is such a step. *)
LEMMA SetMasterIsGood ==
    ASSUME NEW w, NEW n \in Nat, Inv(w, n), NEW r \in Servers, NEW h \in Servers \ {r}
    PROVE  Good(w, replicationSetMaster(w, r, h), n)
  <1> DEFINE w2 == replicationSetMaster(w, r, h)
  <1>1. Inv(w2, n)
    BY SetMasterKeeps, Zenon
  <1>2. Shaped(w)
    BY InvFacts, Zenon
  <1>3. Only(w, w2, r, {"host", "state", "master", "cached"})
    BY <1>2, SetMasterEffect, Zenon
  <1> HIDE DEF w2
  <1>4. NoHandOver(w, w2)
    BY <1>3, OnlyIsNoHandOver, Zenon
  <1> QED BY <1>1, <1>4, Zenon DEF Good, w2

(* clearFailoverState() is such a step. *)
LEMMA ClearIsGood ==
    ASSUME NEW w, NEW n \in Nat, Inv(w, n), NEW s \in Servers
    PROVE  Good(w, clearFailoverState(w, s), n)
  <1> DEFINE w2 == clearFailoverState(w, s)
  <1>1. Inv(w2, n)
    BY ClearFailoverKeeps
  <1>2. Only(w, w2, s, {"failover", "target", "force"}) /\ w2.srv[s].failover = "no"
    BY InvFacts, ClearFailoverEffect, Zenon
  <1> HIDE DEF w2
  <1>3. NoHandOver(w, w2)
    BY <1>2, Zenon DEF NoHandOver, Only
  <1> QED BY <1>1, <1>3 DEF Good, w2

(* abortFailover() is such a step. *)
LEMMA AbortIsGood ==
    ASSUME NEW w, NEW n \in Nat, Inv(w, n), NEW s \in Servers
    PROVE  Good(w, abortFailover(w, s), n)
  <1> DEFINE u == replicationUnsetMaster(w, s)
  <1>1. Good(w, u, n)
    BY UnsetIsGood, Zenon
  <1>2. Good(w, clearFailoverState(u, s), n)
    <2> HIDE DEF u
    <2>1. Good(u, clearFailoverState(u, s), n)
      BY <1>1, ClearIsGood, Zenon DEF Good
    <2> QED BY <1>1, <2>1, GoodThen, Zenon
  <1>3. Good(w, clearFailoverState(w, s), n)
    BY ClearIsGood, Zenon
  <1>4. Good(w, w, n)
    BY Zenon DEF Good, NoHandOver
  <1> QED BY <1>2, <1>3, <1>4, Zenon DEF abortFailover

(* Losing the connection is such a step. *)
LEMMA DropIsGood ==
    ASSUME NEW w, NEW n \in Nat, Inv(w, n), NEW r \in Servers
    PROVE  Good(w, cancelReplicationHandshake(replicationCacheMaster(w, r), r), n)
  <1> DEFINE c  == replicationCacheMaster(w, r)
             w2 == cancelReplicationHandshake(c, r)
  <1>1. Inv(w2, n)
    BY DropKeeps, Zenon
  <1>2. Only(w, c, r, {"cached", "master", "state"})
    BY InvFacts, CacheEffect, Zenon
  <1> HIDE DEF c
  <1>3. Only(c, w2, r, {"state"})
    BY <1>2, CancelEffect DEF Only
  <1> HIDE DEF w2
  <1>4. Only(w, w2, r, {"cached", "master", "state"})
    BY <1>2, <1>3, Zenon DEF Only
  <1>5. NoHandOver(w, w2)
    BY <1>4, OnlyIsNoHandOver, Zenon
  <1> QED BY <1>1, <1>5, Zenon DEF Good, w2, c

(* startBgsaveForReplication() is such a step. *)
LEMMA StartBgsaveIsGood ==
    ASSUME NEW w, NEW n \in Nat, Inv(w, n), NEW m \in Servers
    PROVE  Good(w, startBgsaveForReplication(w, m), n)
  <1> DEFINE w2 == startBgsaveForReplication(w, m)
  <1>1. Inv(w2, n)
    BY StartBgsaveKeeps
  <1>2. CASE Known(w.srv[m])
    <2>1. Only(w, w2, m, {"bgsave"})
      BY <1>2, ServeEffect, Zenon
    <2> HIDE DEF w2
    <2>2. NoHandOver(w, w2)
      BY <2>1, OnlyIsNoHandOver, Zenon
    <2> QED BY <1>1, <2>2 DEF Good, w2
  <1>3. CASE ~Known(w.srv[m])
    <2>1. Shaped(w) /\ w.ids \in Nat /\ ServerOk(w.srv[m], m, w.ids, n)
      BY InvFacts, Zenon
    <2>2. rdbPopulateSaveInfo(w.srv[m]) = NoMaster
      BY <1>3, <2>1, SnapshotFacts, Zenon
    <2>3. \E L : w2 = [w EXCEPT !.link = L]
      BY <2>2, Zenon DEF startBgsaveForReplication
    <2> HIDE DEF w2
    <2>4. w2.srv = w.srv
      BY <2>1, <2>3, Zenon DEF Shaped
    <2> QED BY <1>1, <2>4, Zenon DEF Good, NoHandOver, w2
  <1> QED BY <1>2, <1>3, Zenon

(* A failed BGSAVE is such a step. *)
LEMMA FailedIsGood ==
    ASSUME NEW w, NEW n \in Nat, Inv(w, n), NEW s \in Servers
    PROVE  Good(w, BgsaveFailed(w, s), n)
  <1> DEFINE w2 == BgsaveFailed(w, s)
  <1>1. Inv(w2, n)
    BY FailedKeeps
  <1>2. Only(w, w2, s, {"bgsave"})
    BY InvFacts, FailedEffect, Zenon
  <1> HIDE DEF w2
  <1>3. NoHandOver(w, w2)
    BY <1>2, OnlyIsNoHandOver
  <1> QED BY <1>1, <1>3 DEF Good, w2

(* FAILOVER, and the hand-over. *)
LEMMA FailoverKeeps ==
    ASSUME NEW w, NEW n \in Nat, Inv(w, n), NEW m \in Servers, NEW t, NEW force \in BOOLEAN,
           force => t # NoOne, t # NoOne => t \in Waiting(w, m, "online")
    PROVE  Good(w, Set(w, m, [failover |-> "waiting", target |-> t, force |-> force]), n)
  <1> DEFINE f  == [failover |-> "waiting", target |-> t, force |-> force]
             w2 == Set(w, m, f)
  <1>1. /\ DOMAIN f = {"failover", "target", "force"} /\ {"failover", "target", "force"} \subseteq Fields
        /\ f.failover = "waiting" /\ f.target = t /\ f.force = force
    BY Zenon DEF Fields
  <1> HIDE DEF f
  <1>2. /\ Only(w, w2, m, {"failover", "target", "force"}) /\ w2.link = w.link /\ w2.ids = w.ids
        /\ w2.srv[m].failover = "waiting" /\ w2.srv[m].target = t /\ w2.srv[m].force = force
    BY <1>1, InvFacts, SetOnly
  <1> HIDE DEF w2
  <1>3. t # NoOne => t \in Servers \ {m}
    BY LinkIsNotOwn, Zenon DEF Waiting, Slaves
  <1>4. TargetOk(w2.srv[m], m)
    BY <1>2, <1>3, Zenon DEF TargetOk
  <1>5. Inv(w2, n)
    BY <1>2, <1>4, AsideKeeps, Zenon
  <1>6. NoHandOver(w, w2)
    BY <1>2, Zenon DEF NoHandOver, Only
  <1> QED BY <1>5, <1>6, Zenon DEF Good, w2, f

(* The hand-over keeps the invariant and everybody's data. *)
LEMMA HandOverKeeps ==
    ASSUME NEW w, NEW n \in Nat, Inv(w, n), NEW m \in Servers, NEW t \in Servers \ {m}
    PROVE  LET w2 == FailOverTo(w, m, t) IN
           /\ Inv(w2, n) /\ \A s \in Servers : w2.srv[s].data = w.srv[s].data
           /\ w2.srv[m].target = t
           /\ \A s \in Servers \ {m} : w2.srv[s] = w.srv[s]
  <1> DEFINE f  == [failover |-> "progress", target |-> t]
             c  == Set(w, m, f)
             w2 == replicationSetMaster(c, m, t)
  <1>1. /\ DOMAIN f = {"failover", "target"} /\ {"failover", "target"} \subseteq Fields
        /\ f.failover = "progress" /\ f.target = t
    BY Zenon DEF Fields
  <1> HIDE DEF f
  <1>2. /\ Only(w, c, m, {"failover", "target"}) /\ c.link = w.link /\ c.ids = w.ids
        /\ c.srv[m].target = t
    BY <1>1, InvFacts, SetOnly
  <1> HIDE DEF c
  <1>3. TargetOk(c.srv[m], m)
    BY <1>2, Zenon DEF TargetOk
  <1>4. Only(w, c, m, {"failover", "target", "force"})
    BY <1>2, Zenon DEF Only
  <1>5. Inv(c, n)
    BY <1>2, <1>3, <1>4, AsideKeeps, Zenon
  <1>6. Inv(w2, n)
    BY <1>5, SetMasterKeeps, Zenon
  <1>7. Only(c, w2, m, {"host", "state", "master", "cached"})
    BY <1>5, InvFacts, SetMasterEffect, Zenon
  <1>8. w2 = FailOverTo(w, m, t)
    BY Zenon DEF FailOverTo, c, f
  <1> HIDE DEF w2
  <1>9. \A s \in Servers \ {m} : w2.srv[s] = w.srv[s]
    BY <1>2, <1>7, Zenon DEF Only
  <1>10. w2.srv[m].data = w.srv[m].data /\ w2.srv[m].target = t
    BY <1>2, <1>7, Zenon DEF Only, Fields, Core
  <1> QED BY <1>6, <1>8, <1>9, <1>10, Zenon


(* A full resynchronization. *)
LEMMA FullResyncKeeps ==
    ASSUME NEW w, NEW n \in Nat, Inv(w, n), NEW r \in Servers, Requests(w, r),
           NEW m \in Servers, w.link[r].to = m, ~Away(w.srv[m])
    PROVE  Good(w, FullResync(w, m, r), n)
  <1> DEFINE w1 == StartWorld(w, m, r)
             others == Waiting(w1, m, "end")
             o  == CHOOSE x \in others : TRUE
             w3 == Send(w1, r, "end", ReplFull(w1.srv[m].replid, w1.link[o].answer.off,
                                               w1.link[o].answer.rdb),
                        copyReplicaOutputBuffer(w1, o))
  <1>1. /\ Inv(w1, n) /\ w1.srv[r].state = "psync" /\ w1.link[r].to = m
        /\ \A s \in Servers : Aside(w.srv[s], w1.srv[s])
    BY StartWorldKeeps
  <1>2. FullResync(w, m, r) = CASE w1.srv[m].bgsave = <<>> -> startBgsaveForReplication(w1, m)
                                [] w1.srv[m].bgsave # <<>> /\ others # {} -> w3
                                [] OTHER -> w1
    BY Zenon DEF FullResync, StartWorld
  <1> HIDE DEF w1
  <1>3. Good(w, w1, n)
    BY <1>1, AsideIsNoHandOver, Zenon DEF Good
  <1>4. CASE w1.srv[m].bgsave = <<>>
    <2>1. Good(w1, startBgsaveForReplication(w1, m), n)
      BY <1>1, StartBgsaveIsGood, Zenon
    <2>2. FullResync(w, m, r) = startBgsaveForReplication(w1, m)
      BY <1>2, <1>4, Zenon
    <2> QED BY <1>3, <2>1, <2>2, GoodThen, Zenon
  <1>5. CASE w1.srv[m].bgsave # <<>> /\ others # {}
    <2>1. o \in others
      BY <1>5, Zenon
    <2> HIDE DEF o
    <2>2. Inv(w3, n)
      BY <1>1, <2>1, JoinKeeps, Zenon
    <2>3. w3.srv = w1.srv
      <3>1. Shaped(w1)
        BY <1>1, InvFacts, Zenon
      <3> QED BY <3>1, Zenon DEF Send, Shaped
    <2>4. FullResync(w, m, r) = w3
      BY <1>2, <1>5, Zenon
    <2> HIDE DEF w3
    <2>5. Good(w1, w3, n)
      BY <2>2, <2>3, Zenon DEF Good, NoHandOver
    <2> QED BY <1>3, <2>4, <2>5, GoodThen, Zenon
  <1>6. CASE w1.srv[m].bgsave # <<>> /\ others = {}
    <2>1. FullResync(w, m, r) = w1
      BY <1>2, <1>6, Zenon
    <2> QED BY <1>3, <2>1, Zenon
  <1> QED BY <1>4, <1>5, <1>6, Zenon

(* PSYNC: the request, a promotion that it asks for, and the answer. *)
Promoted(w, r) ==
    LET m == w.srv[r].host IN
    IF w.srv[r].failover = "progress" /\ w.srv[m].host # NoOne /\ w.srv[r].cached.id = w.srv[m].replid
    THEN replicationUnsetMaster(Ask(w, r), m) ELSE Ask(w, r)

(* PSYNC, with the promotion that a planned failover asks for. *)
LEMMA PromotedKeeps ==
    ASSUME NEW w, NEW n \in Nat, Inv(w, n), NEW r \in Servers, w.srv[r].state = "connect"
    PROVE  LET u == Promoted(w, r) IN
           /\ Good(w, u, n) /\ Requests(u, r)
           /\ w.srv[r].host \in Servers /\ u.link[r].to = w.srv[r].host
           /\ u.srv[r].cached = w.srv[r].cached
  <1> DEFINE a == Ask(w, r)
             asks == w.srv[r].failover = "progress"
             m == w.srv[r].host
             u == replicationUnsetMaster(a, m)
  <1>1. /\ Inv(a, n) /\ Requests(a, r) /\ a.link[r].to = m /\ m \in Servers \ {r}
        /\ Only(w, a, r, {"state", "initial"})
    BY AskKeeps, Zenon
  <1> HIDE DEF a
  <1>2. a.srv[r].cached = w.srv[r].cached /\ a.srv[m] = w.srv[m]
    BY <1>1, Zenon DEF Only, Fields, Core
  <1>3. Good(w, a, n)
    BY <1>1, OnlyIsNoHandOver, Zenon DEF Good
  <1>4. ASSUME w.srv[m].host # NoOne
        PROVE  Good(w, u, n) /\ Requests(u, r) /\ u.link[r].to = m
               /\ u.srv[r].cached = w.srv[r].cached
    <2>1. Good(a, u, n)
      BY <1>1, UnsetIsGood, Zenon
    <2>2. Shaped(a) /\ a.link[m].to # m
      BY <1>1, InvFacts, LinkIsNotOwn, Zenon
    <2>7. m \in Servers /\ a.srv[m].host # NoOne
      BY <1>1, <1>2, <1>4, Zenon
    <2>3. /\ Only(a, u, m, {"host", "state", "master", "cached", "replid", "replid2", "second"})
          /\ \A t \in Servers \ {m} :
                 u.link[t] = IF t \in Slaves(a, m) THEN [a.link[t] EXCEPT !.closed = TRUE]
                             ELSE a.link[t]
      BY <2>2, <2>7, UnsetEffect
    <2> HIDE DEF u
    <2>4. r \notin Slaves(a, m)
      BY <1>1, Zenon DEF Requests, Slaves
    <2>5. u.srv[r] = a.srv[r] /\ u.link[r] = a.link[r]
      BY <1>1, <2>3, <2>4, Zenon DEF Only
    <2>6. Good(w, u, n)
      BY <1>3, <2>1, GoodThen, Zenon
    <2> QED BY <1>1, <1>2, <2>5, <2>6, Zenon DEF Requests
  <1>5. Promoted(w, r) = IF asks /\ w.srv[m].host # NoOne /\ w.srv[r].cached.id = w.srv[m].replid
                               THEN u ELSE a
    BY Zenon DEF Promoted, a
  <1> HIDE DEF u
  <1>6. CASE asks /\ w.srv[m].host # NoOne /\ w.srv[r].cached.id = w.srv[m].replid
    <2>1. Promoted(w, r) = u
      BY <1>5, <1>6, Zenon
    <2> QED BY <1>1, <1>4, <1>6, <2>1, Zenon
  <1>7. CASE ~(asks /\ w.srv[m].host # NoOne /\ w.srv[r].cached.id = w.srv[m].replid)
    <2>1. Promoted(w, r) = a
      BY <1>5, <1>7, Zenon
    <2> QED BY <1>1, <1>2, <1>3, <2>1, Zenon
  <1> QED BY <1>6, <1>7, Zenon

Refusal(u, r) == Send(u, r, "none", ReplError, <<>>)

Grant(u, m, r, req) ==
    Send(u, r, "online", ReplContinue(u.srv[m].replid),
         LastWrites(u.srv[m].data, u.srv[m].offset - req.off + 1))

(* Every answer to PSYNC keeps the invariant. *)
LEMMA AnswerKeeps ==
    ASSUME NEW u, NEW n \in Nat, Inv(u, n), NEW r \in Servers, Requests(u, r),
           NEW m \in Servers, u.link[r].to = m,
           NEW req, req = [id |-> u.srv[r].cached.id, off |-> u.srv[r].cached.off + 1]
    PROVE  /\ Good(u, Refusal(u, r), n)
           /\ masterTryPartialResynchronization(u, m, req) => Good(u, Grant(u, m, r, req), n)
           /\ ~Away(u.srv[m]) => Good(u, FullResync(u, m, r), n)
  <1>1. Shaped(u)
    BY InvFacts, Zenon
  <1>2. Good(u, Refusal(u, r), n)
    <2>1. Inv(Refusal(u, r), n)
      BY SendErrorKeeps, Zenon DEF Refusal
    <2>2. Refusal(u, r).srv = u.srv
      BY <1>1, Zenon DEF Refusal, Send, Shaped
    <2> QED BY <2>1, <2>2, Zenon DEF Good, NoHandOver
  <1>3. ASSUME masterTryPartialResynchronization(u, m, req)
        PROVE  Good(u, Grant(u, m, r, req), n)
    <2>1. Granted(u.srv[m], u.srv[r].cached.id, u.srv[r].cached.off)
      BY <1>3, Zenon DEF masterTryPartialResynchronization, Granted
    <2>2. Inv(Send(u, r, "online", ReplContinue(u.srv[m].replid),
                   Rest(u.srv[m].data, u.srv[m].offset, u.srv[r].cached.off)), n)
      BY <2>1, GrantKeeps, Zenon
    <2>3. req.off = u.srv[r].cached.off + 1
      BY Zenon
    <2>4. Inv(Grant(u, m, r, req), n)
      BY <2>2, <2>3, Zenon DEF Grant, Rest
    <2>5. Grant(u, m, r, req).srv = u.srv
      BY <1>1, Zenon DEF Grant, Send, Shaped
    <2> QED BY <2>4, <2>5, Zenon DEF Good, NoHandOver
  <1>4. ~Away(u.srv[m]) => Good(u, FullResync(u, m, r), n)
    BY FullResyncKeeps, Zenon
  <1> QED BY <1>2, <1>3, <1>4, Zenon


Goes(n) == Inv(World', n) /\ NoHandOver(World, World')

(* The step to a good world keeps the invariant. *)
LEMMA Takes ==
    ASSUME NEW n, NEW W, Good(World, W, n), Become(W)
    PROVE  Goes(n) /\ World' = W
  <1>1. W = [srv |-> W.srv, link |-> W.link, disk |-> W.disk, ids |-> W.ids]
    BY Zenon DEF Good, Inv, Shaped
  <1>2. World' = W
    BY <1>1, Zenon DEF World, Become
  <1> QED BY <1>2, Zenon DEF Goes, Good

(* Write keeps the invariant. *)
LEMMA WriteGoes ==
    ASSUME IInv, NEW m \in Servers, Write(m)
    PROVE  Goes(count.writes + 1)
  <1> DEFINE n == count.writes
             x == count.writes + 1
  <1>1. n \in Nat /\ x \in Nat /\ Inv(World, n)
    BY Bounds DEF IInv
  <1>2. Become(Written(World, m, x)) /\ World.srv[m].host = NoOne
    BY WorldFields, Zenon DEF Write, Written
  <1> HIDE DEF n
  <1>3. Good(World, Written(World, m, x), n + 1)
    BY <1>1, <1>2, WriteKeeps, AsideIsNoHandOver, Zenon DEF Good
  <1> QED BY <1>2, <1>3, Takes, Zenon DEF n

(* REPLICAOF keeps the invariant. *)
LEMMA ReplicaofGoes ==
    ASSUME IInv, NEW r \in Servers, NEW h \in Servers \cup {NoOne}, replicaofCommand(r, h)
    PROVE  Goes(count.writes)
  <1> DEFINE n == count.writes
  <1>1. n \in Nat /\ Inv(World, n)
    BY Bounds DEF IInv
  <1> HIDE DEF n
  <1>2. CASE h = NoOne
    <2>1. Become(replicationUnsetMaster(World, r))
      BY <1>2, Zenon DEF replicaofCommand
    <2>2. Good(World, replicationUnsetMaster(World, r), n)
      BY <1>1, UnsetIsGood, Zenon
    <2> QED BY <2>1, <2>2, Takes, Zenon DEF n
  <1>3. CASE h # NoOne
    <2>1. Become(replicationSetMaster(World, r, h)) /\ h \in Servers \ {r}
      BY <1>3, Zenon DEF replicaofCommand
    <2>2. Good(World, replicationSetMaster(World, r, h), n)
      BY <1>1, <2>1, SetMasterIsGood, Zenon
    <2> QED BY <2>1, <2>2, Takes, Zenon DEF n
  <1> QED BY <1>2, <1>3, Zenon

(* FAILOVER keeps the invariant. *)
LEMMA FailoverGoes ==
    ASSUME IInv, NEW m \in Servers, NEW t, NEW force \in BOOLEAN, failoverCommand(m, t, force)
    PROVE  Goes(count.writes)
  <1> DEFINE n == count.writes
             W == Set(World, m, [failover |-> "waiting", target |-> t, force |-> force])
  <1>1. n \in Nat /\ Inv(World, n)
    BY Bounds DEF IInv
  <1>2. /\ force => t # NoOne
        /\ t # NoOne => t \in Waiting(World, m, "online")
        /\ Become(W)
    BY Zenon DEF failoverCommand
  <1> HIDE DEF n
  <1>3. Good(World, W, n)
    BY <1>1, <1>2, FailoverKeeps, Zenon
  <1> QED BY <1>2, <1>3, Takes, Zenon DEF n

(* FAILOVER ABORT, and the timeout of a failover, keep the invariant. *)
LEMMA AbortGoes ==
    ASSUME IInv, NEW m \in Servers, Become(abortFailover(World, m))
    PROVE  Goes(count.writes)
  <1> DEFINE n == count.writes
  <1>1. n \in Nat /\ Inv(World, n)
    BY Bounds DEF IInv
  <1> HIDE DEF n
  <1>2. Good(World, abortFailover(World, m), n)
    BY <1>1, AbortIsGood, Zenon
  <1> QED BY <1>2, Takes, Zenon DEF n

(* syncCommand keeps the invariant. *)
LEMMA SyncGoes ==
    ASSUME IInv, NEW r \in Servers, syncCommand(r)
    PROVE  Goes(count.writes)
  <1> DEFINE n == count.writes
             m == World.srv[r].host
             req == [id |-> World.srv[r].cached.id, off |-> World.srv[r].cached.off + 1]
             asks == World.srv[r].failover = "progress"
             mine == req.id = World.srv[m].replid
             u == Promoted(World, r)
  <1>1. n \in Nat /\ Inv(World, n)
    BY Bounds DEF IInv
  <1>2. /\ World.srv[r].state = "connect"
        /\ Become(IF Away(u.srv[m]) \/ (asks /\ (World.srv[m].host = NoOne \/ ~mine))
                  THEN Refusal(u, r)
                  ELSE IF masterTryPartialResynchronization(u, m, req) THEN Grant(u, m, r, req)
                  ELSE FullResync(u, m, r))
    BY WorldFields, Zenon DEF syncCommand, Promoted, Ask, Refusal, Grant
  <1> HIDE DEF n
  <1>3. /\ Good(World, u, n) /\ Requests(u, r) /\ m \in Servers /\ u.link[r].to = m
        /\ u.srv[r].cached = World.srv[r].cached
    BY <1>1, <1>2, PromotedKeeps, Zenon
  <1>4. req = [id |-> u.srv[r].cached.id, off |-> u.srv[r].cached.off + 1]
    BY <1>3, Zenon
  <1> HIDE DEF u, m, req
  <1>5. /\ Good(u, Refusal(u, r), n)
        /\ masterTryPartialResynchronization(u, m, req) => Good(u, Grant(u, m, r, req), n)
        /\ ~Away(u.srv[m]) => Good(u, FullResync(u, m, r), n)
    BY <1>1, <1>3, <1>4, AnswerKeeps, Zenon DEF Good
  <1>6. \E W : Good(u, W, n) /\ Become(W)
    BY <1>2, <1>5, Zenon
  <1>7. \E W : Good(World, W, n) /\ Become(W)
    BY <1>3, <1>6, GoodThen, Zenon
  <1> QED BY <1>7, Takes, Zenon DEF n

(* replicationStartPendingFork keeps the invariant. *)
LEMMA PendingForkGoes ==
    ASSUME IInv, NEW m \in Servers, replicationStartPendingFork(m)
    PROVE  Goes(count.writes)
  <1> DEFINE n == count.writes
  <1>1. n \in Nat /\ Inv(World, n)
    BY Bounds DEF IInv
  <1>2. Become(startBgsaveForReplication(World, m))
    BY Zenon DEF replicationStartPendingFork
  <1> HIDE DEF n
  <1>3. Good(World, startBgsaveForReplication(World, m), n)
    BY <1>1, StartBgsaveIsGood, Zenon
  <1> QED BY <1>2, <1>3, Takes, Zenon DEF n

(* SAVE keeps the invariant. *)
LEMMA SaveGoes ==
    ASSUME IInv, NEW s \in Servers, saveCommand(s)
    PROVE  Goes(count.writes)
  <1> DEFINE n == count.writes
             W == DiskAt(World, s, Snapshot(World.srv[s]))
  <1>1. n \in Nat /\ Inv(World, n)
    BY Bounds DEF IInv
  <1>2. Become(W)
    BY WorldFields, Zenon DEF saveCommand, DiskAt
  <1> HIDE DEF n
  <1>3. Good(World, W, n)
    BY <1>1, SaveKeeps, Zenon DEF Good, NoHandOver
  <1> QED BY <1>2, <1>3, Takes, Zenon DEF n

(* updateSlavesWaitingBgsave keeps the invariant. *)
LEMMA BgsaveDoneGoes ==
    ASSUME IInv, NEW s \in Servers, updateSlavesWaitingBgsave(s)
    PROVE  Goes(count.writes)
  <1> DEFINE n == count.writes
  <1>1. n \in Nat /\ Inv(World, n)
    BY Bounds DEF IInv
  <1>2. /\ World.srv[s].bgsave # <<>>
        /\ Become(Done(World, s)) \/ Become(BgsaveFailed(World, s))
    BY Zenon DEF updateSlavesWaitingBgsave, Done, World
  <1> HIDE DEF n
  <1>3. Good(World, Done(World, s), n)
    BY <1>1, <1>2, DoneKeeps, AsideIsNoHandOver, Zenon DEF Good
  <1>4. Good(World, BgsaveFailed(World, s), n)
    BY <1>1, FailedIsGood
  <1> QED BY <1>2, <1>3, <1>4, Takes, Zenon DEF n


(* Receive keeps the invariant, whatever is received. *)
LEMMA ReceiveGoes ==
    ASSUME IInv, NEW r \in Servers, Receive(r)
    PROVE  Goes(count.writes)
  <1> DEFINE n == count.writes
             x == World.link[r].answer
  <1>1. n \in Nat /\ Inv(World, n)
    BY Bounds DEF IInv
  <1>2. \/ x.type = "continue" /\ Become(ContinueRead(World, r))
        \/ x.type = "fullresync" /\ Become(FullRead(World, r))
        \/ x.type = "error" /\ Become(abortFailover(Read(World, r), r))
        \/ /\ x.type = "rdb" /\ World.link[r].phase = "online"
           /\ \E how \in {"disk", "socket"} : Become(LoadRead(World, r, how))
        \/ /\ x.type = "rdb"
           /\ \E how \in {"disk", "socket", "swapdb"} : Become(FailedRead(World, r, how))
        \/ x.type = "none" /\ World.link[r].stream # <<>> /\ Become(Applied(World, r))
    BY WorldFields, Zenon DEF Receive, ContinueRead, FullRead, Expect, Read, LoadRead, FailedRead, Applied, Shift
  <1> HIDE DEF n
  <1>3. x.type = "continue" => Good(World, ContinueRead(World, r), n)
    BY <1>1, ContinueKeeps, AsideIsNoHandOver, Zenon DEF Good
  <1>4. ASSUME x.type = "fullresync" PROVE Good(World, FullRead(World, r), n)
    <2> DEFINE W == FullRead(World, r)
    <2>1. /\ Inv(W, n) /\ Aside(World.srv[r], W.srv[r])
          /\ \A t \in Servers \ {r} : W.srv[t] = World.srv[t]
      BY <1>1, <1>4, FullReadKeeps, Zenon
    <2> HIDE DEF W
    <2>2. NoHandOver(World, W)
      BY <2>1, Zenon DEF NoHandOver, Aside
    <2> QED BY <2>1, <2>2, Zenon DEF Good, W
  <1>5. ASSUME x.type = "error" PROVE Good(World, abortFailover(Read(World, r), r), n)
    <2> DEFINE W == Read(World, r)
    <2>1. Inv(W, n)
      BY <1>1, <1>5, ReadErrorKeeps, Zenon
    <2>2. W.srv = World.srv
      BY <1>1, InvFacts, ReadEffect, Zenon
    <2> HIDE DEF W
    <2>3. Good(World, W, n) /\ Good(W, abortFailover(W, r), n)
      BY <1>1, <2>1, <2>2, AbortIsGood, Zenon DEF Good, NoHandOver
    <2> QED BY <2>3, GoodThen, Zenon DEF W
  <1>6. x.type = "rdb" /\ World.link[r].phase = "online" =>
            \A how : Good(World, LoadRead(World, r, how), n)
    BY <1>1, LoadKeeps, AsideIsNoHandOver, Zenon DEF Good
  <1>7. x.type = "rdb" =>
            \A how \in {"disk", "socket", "swapdb"} : Good(World, FailedRead(World, r, how), n)
    BY <1>1, FailedReadKeeps, AsideIsNoHandOver, Zenon DEF Good
  <1>8. x.type = "none" /\ World.link[r].stream # <<>> => Good(World, Applied(World, r), n)
    BY <1>1, ApplyKeeps, AsideIsNoHandOver, Zenon DEF Good
  <1>9. \E W : Good(World, W, n) /\ Become(W)
    BY <1>2, <1>3, <1>4, <1>5, <1>6, <1>7, <1>8, Zenon
  <1> QED BY <1>9, Takes DEF n

(* LinkLost keeps the invariant. *)
LEMMA LinkLostGoes ==
    ASSUME IInv, NEW r \in Servers, LinkLost(r)
    PROVE  Goes(count.writes)
  <1> DEFINE n == count.writes
             W == cancelReplicationHandshake(replicationCacheMaster(World, r), r)
  <1>1. n \in Nat /\ Inv(World, n)
    BY Bounds DEF IInv
  <1>2. Become(W) \/ Become(abortFailover(World, r))
    BY Zenon DEF LinkLost
  <1> HIDE DEF n
  <1>3. Good(World, W, n) /\ Good(World, abortFailover(World, r), n)
    BY <1>1, DropIsGood, AbortIsGood, Zenon
  <1> QED BY <1>2, <1>3, Takes, Zenon DEF n

(* FreeBacklog keeps the invariant. *)
LEMMA FreeBacklogGoes ==
    ASSUME IInv, NEW m \in Servers, FreeBacklog(m)
    PROVE  Goes(count.writes)
  <1> DEFINE n == count.writes
             W == freeReplicationBacklog(FreshId(World, m), m)
  <1>1. n \in Nat /\ Inv(World, n)
    BY Bounds DEF IInv
  <1>2. Become(W) /\ World.srv[m].host = NoOne /\ Slaves(World, m) = {}
    BY WorldFields, Zenon DEF FreeBacklog, FreshId
  <1> HIDE DEF n
  <1>3. Good(World, W, n)
    BY <1>1, <1>2, FreeKeeps, AsideIsNoHandOver, Zenon DEF Good
  <1> QED BY <1>2, <1>3, Takes, Zenon DEF n

(* Restart keeps the invariant. *)
LEMMA RestartGoes ==
    ASSUME IInv, NEW s \in Servers, Restart(s)
    PROVE  Goes(count.writes)
  <1> DEFINE n == count.writes
  <1>1. n \in Nat /\ Inv(World, n)
    BY Bounds DEF IInv
  <1>2. World.srv[s].host \in (Servers \ {s}) \cup {NoOne}
    BY <1>1, InvFacts, Zenon DEF ServerOk, ServerTypes
  <1>3. PICK h \in {NoOne, World.srv[s].host} : Become(Boot(World, s, h))
    BY Zenon DEF Restart, Boot, Reboot, World
  <1>4. h \in (Servers \ {s}) \cup {NoOne}
    BY <1>2, <1>3, Zenon
  <1> HIDE DEF n
  <1>5. Good(World, Boot(World, s, h), n)
    BY <1>1, <1>4, BootKeeps, AsideIsNoHandOver, Zenon DEF Good
  <1> QED BY <1>3, <1>5, Takes, Zenon DEF n

(* The hand-over of a planned failover. *)
HandedOver(w, w2) ==
    \A m \in Servers :
        w.srv[m].failover = "waiting" /\ w2.srv[m].failover = "progress" /\ ~w.srv[m].force
        => \/ w2.srv[w2.srv[m].target].data = w2.srv[m].data
           \/ w.srv[m].offset = 0 /\ w.srv[w2.srv[m].target].state # "connected"

(* updateFailoverStatus keeps the invariant and hands over only to an equal, or
   at offset 0 to a slave that is not connected. *)
LEMMA HandOverGoes ==
    ASSUME IInv, NEW m \in Servers, updateFailoverStatus(m)
    PROVE  Inv(World', count.writes) /\ HandedOver(World, World')
  <1> DEFINE n == count.writes
  <1>1. n \in Nat /\ Inv(World, n)
    BY Bounds DEF IInv
  <1>2. \/ \E t \in Servers : CaughtUp(World, m, t) /\ Become(FailOverTo(World, m, t))
        \/ World.srv[m].force /\ Become(FailOverTo(World, m, World.srv[m].target))
        \/ Become(abortFailover(World, m))
    BY WorldFields, Zenon DEF updateFailoverStatus
  <1> HIDE DEF n
  <1>3. CASE Become(abortFailover(World, m))
    <2>1. Goes(n)
      BY <1>3, AbortGoes, Zenon DEF n
    <2> QED BY <2>1, Zenon DEF Goes, NoHandOver, HandedOver, n
  <1>4. ASSUME NEW t \in Servers \ {m}, Become(FailOverTo(World, m, t)),
               \/ World.srv[m].force \/ World.srv[t].data = World.srv[m].data
               \/ World.srv[m].offset = 0 /\ World.srv[t].state # "connected"
        PROVE  Inv(World', n) /\ HandedOver(World, World')
    <2> DEFINE W == FailOverTo(World, m, t)
    <2>1. /\ Inv(W, n) /\ \A s \in Servers : W.srv[s].data = World.srv[s].data
          /\ W.srv[m].target = t /\ \A s \in Servers \ {m} : W.srv[s] = World.srv[s]
      BY <1>1, HandOverKeeps, Zenon
    <2>2. Become(W)
      BY <1>4, Zenon
    <2> HIDE DEF W
    <2>3. W = [srv |-> W.srv, link |-> W.link, disk |-> W.disk, ids |-> W.ids]
      BY <2>1, Zenon DEF Inv, Shaped
    <2>4. World' = W
      BY <2>2, <2>3, Zenon DEF World, Become
    <2>5. ASSUME NEW s \in Servers, World.srv[s].failover = "waiting", W.srv[s].failover = "progress",
                 ~World.srv[s].force
          PROVE  \/ W.srv[W.srv[s].target].data = W.srv[s].data
                 \/ World.srv[s].offset = 0 /\ World.srv[W.srv[s].target].state # "connected"
      <3>1. s = m
        BY <2>1, <2>5, Zenon
      <3>2. \/ World.srv[t].data = World.srv[m].data
            \/ World.srv[m].offset = 0 /\ World.srv[t].state # "connected"
        BY <1>4, <2>5, <3>1, Zenon
      <3>3. W.srv[t].data = World.srv[t].data /\ W.srv[m].data = World.srv[m].data
        BY <2>1, Zenon
      <3> QED BY <2>1, <3>1, <3>2, <3>3, Zenon
    <2>6. HandedOver(World, W)
      BY <2>5, Zenon DEF HandedOver
    <2> QED BY <2>1, <2>4, <2>6, Zenon
  <1>5. CASE \E t \in Servers : CaughtUp(World, m, t) /\ Become(FailOverTo(World, m, t))
    <2>1. PICK t : CaughtUp(World, m, t) /\ Become(FailOverTo(World, m, t))
      BY <1>5, Zenon
    <2>2. /\ t \in Servers \ {m}
          /\ \/ World.srv[t].data = World.srv[m].data
             \/ World.srv[m].offset = 0 /\ World.srv[t].state # "connected"
      BY <1>1, <2>1, CaughtUpHasAll, Zenon
    <2> QED BY <1>4, <2>1, <2>2, Zenon DEF n
  <1>6. CASE World.srv[m].force /\ Become(FailOverTo(World, m, World.srv[m].target))
    <2>1. TargetOk(World.srv[m], m)
      BY <1>1, Zenon DEF Inv
    <2>2. World.srv[m].target \in Servers \ {m}
      BY <1>6, <2>1, Zenon DEF TargetOk
    <2> QED BY <1>4, <1>6, <2>2, Zenon DEF n
  <1> QED BY <1>2, <1>3, <1>5, <1>6, Zenon DEF n


-----------------------------------------------------------------------------
(* Every step keeps the invariant. *)

(* The other steps do not count as writes. *)
LEMMA Counted ==
    ASSUME count \in [writes : 0 .. MaxWrites, events : Nat],
           UNCHANGED count \/ Count("events")
    PROVE  count'.writes = count.writes /\ count' \in [writes : 0 .. MaxWrites, events : Nat]
  BY DEF Count

(* Every step of a server keeps the invariant. *)
LEMMA StepGoes ==
    ASSUME IInv, NEW s \in Servers, Step(s)
    PROVE  IInv' /\ HandedOver(World, World')
  <1>1. count \in [writes : 0 .. MaxWrites, events : Nat]
    BY Zenon DEF IInv
  <1>2. ASSUME Goes(count.writes), UNCHANGED count \/ Count("events")
        PROVE  IInv' /\ HandedOver(World, World')
    <2>1. count'.writes = count.writes /\ count' \in [writes : 0 .. MaxWrites, events : Nat]
      BY <1>1, <1>2, Counted, Zenon
    <2>2. Inv(World', count'.writes)
      BY <1>2, <2>1, Zenon DEF Goes
    <2> QED BY <1>2, <2>1, <2>2, Zenon DEF IInv, Goes, NoHandOver, HandedOver
  <1>3. CASE Write(s)
    <2>1. Goes(count.writes + 1)
      BY <1>3, WriteGoes, Zenon
    <2>2. /\ count'.writes = count.writes + 1
          /\ count' \in [writes : 0 .. MaxWrites, events : Nat]
      BY <1>1, <1>3, Bounds DEF Write, Count
    <2>3. Inv(World', count'.writes)
      BY <2>1, <2>2, Zenon DEF Goes
    <2> QED BY <2>1, <2>2, <2>3, Zenon DEF IInv, Goes, NoHandOver, HandedOver
  <1>4. CASE \E h \in Servers \cup {NoOne} : replicaofCommand(s, h)
    BY <1>2, <1>4, ReplicaofGoes, Zenon DEF replicaofCommand
  <1>5. CASE \E t \in Servers \cup {NoOne}, force \in BOOLEAN : failoverCommand(s, t, force)
    <2>1. PICK t \in Servers \cup {NoOne}, force \in BOOLEAN : failoverCommand(s, t, force)
      BY <1>5, Zenon
    <2>2. Goes(count.writes)
      BY <2>1, FailoverGoes, Zenon
    <2>3. Count("events")
      BY <2>1, Zenon DEF failoverCommand
    <2> QED BY <1>2, <2>2, <2>3, Zenon
  <1>6. CASE failoverAbort(s)
    BY <1>2, <1>6, AbortGoes, Zenon DEF failoverAbort
  <1>7. CASE updateFailoverStatus(s)
    <2>1. Inv(World', count.writes) /\ HandedOver(World, World')
      BY <1>7, HandOverGoes, Zenon
    <2>2. UNCHANGED count
      BY <1>7, Zenon DEF updateFailoverStatus
    <2> QED BY <1>1, <2>1, <2>2, Zenon DEF IInv
  <1>8. CASE syncCommand(s)
    BY <1>2, <1>8, SyncGoes, Zenon DEF syncCommand
  <1>9. CASE replicationStartPendingFork(s)
    BY <1>2, <1>9, PendingForkGoes, Zenon DEF replicationStartPendingFork
  <1>10. CASE saveCommand(s)
    BY <1>2, <1>10, SaveGoes, Zenon DEF saveCommand
  <1>11. CASE updateSlavesWaitingBgsave(s)
    BY <1>2, <1>11, BgsaveDoneGoes, Zenon DEF updateSlavesWaitingBgsave
  <1>12. CASE Receive(s)
    <2>1. UNCHANGED count \/ Count("events")
      BY <1>12, Zenon DEF Receive
    <2> QED BY <1>2, <1>12, <2>1, ReceiveGoes, Zenon
  <1>13. CASE LinkLost(s)
    BY <1>2, <1>13, LinkLostGoes, Zenon DEF LinkLost
  <1>14. CASE FreeBacklog(s)
    BY <1>2, <1>14, FreeBacklogGoes, Zenon DEF FreeBacklog
  <1>15. CASE Restart(s)
    <2>1. Count("events")
      BY <1>15, Zenon DEF Restart
    <2> QED BY <1>2, <1>15, <2>1, RestartGoes, Zenon
  <1> QED BY <1>3, <1>4, <1>5, <1>6, <1>7, <1>8, <1>9, <1>10, <1>11, <1>12, <1>13, <1>14, <1>15, Zenon
          DEF Step

(* Stuttering keeps the invariant. *)
LEMMA Idles ==
    ASSUME IInv, UNCHANGED vars
    PROVE  IInv'
  <1>1. World' = World /\ count' = count
    BY Zenon DEF vars, World
  <1> QED BY <1>1, Zenon DEF IInv

(* The invariant holds in every reachable state. *)
LEMMA ReplicationInvariant == Spec => []IInv
  <1>1. IInv /\ [Next]_vars => IInv'
    BY StepGoes, Idles, Zenon DEF Next
  <1> QED BY InitHolds, <1>1, PTL DEF Spec

-----------------------------------------------------------------------------
(* The theorems. *)

(* The master of a replica, connected or cached, is at the replica's own ID
   and offset, at most one of them exists, and a connected replica has a
   backlog that ends there (serverAssert of replicationCacheMaster(); what
   rdbPopulateSaveInfo() relies on).  The type invariant is part of it. *)
THEOREM MastersAreWhereTheirReplicasAre == Spec => []MasterIsMyself
  BY ReplicationInvariant, HostsAndMasters, PTL

(* What a slave has been sent leads it to its master's data set, offset and
   ID: syncCommand(), startBgsaveForReplication(), copyReplicaOutputBuffer()
   and feedReplicationBuffer() leave nothing out and send nothing twice. *)
THEOREM SlavesMissNothing == Spec => []SlavesGetEverything
  BY ReplicationInvariant, SlavesAreServed, PTL

(* masterTryPartialResynchronization() grants only requests from the past of
   the granting server: the data set of the asking one is what the granting
   one had at that offset, whatever REPLICAOF, FAILOVER, restarts, freed
   backlogs and lost connections came before. *)
THEOREM GrantedIsTheSameHistory == Spec => []PartialResyncIsSafe
  BY ReplicationInvariant, GrantsAreSafe, PTL

(* updateFailoverStatus() without FORCE hands over only to a replica with the
   data set of the master; the one exception is a master at offset 0, which
   takes a slave that is still synchronizing for one that has caught up. *)
THEOREM PlannedFailoverLosesNothing == Spec => FailoverLosesNothing
  <1> DEFINE A == \A m \in Servers :
                     (srv[m].failover = "waiting" /\ srv'[m].failover = "progress" /\ ~srv[m].force)
                     => \/ srv'[srv'[m].target].data = srv'[m].data
                        \/ srv[m].offset = 0 /\ srv[srv'[m].target].state # "connected"
  <1>1. IInv /\ [Next]_vars => [A]_vars
    <2> SUFFICES ASSUME IInv, Next PROVE A
      BY Zenon
    <2>1. HandedOver(World, World')
      BY StepGoes, Zenon DEF Next
    <2>2. World.srv = srv /\ World'.srv = srv'
      BY Zenon DEF World
    <2> QED BY <2>1, <2>2, Zenon DEF HandedOver
  <1> HIDE DEF A
  <1>2. Spec => [][A]_vars
    BY ReplicationInvariant, <1>1, PTL DEF Spec
  <1> QED BY <1>2, Zenon DEF FailoverLosesNothing, A
=============================================================================
