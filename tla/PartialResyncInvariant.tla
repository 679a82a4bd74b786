---------------------- MODULE PartialResyncInvariant ----------------------
(***************************************************************************)
(* Proofs about PartialResync, for any number of servers and any topology  *)
(* of them, any size of the backlog, and any number of writes and events.  *)
(***************************************************************************)
EXTENDS PartialResync, TLAPS

(* The fields of a server, and those the invariant is about. *)
Core == {"host", "state", "data", "replid", "replid2", "second", "offset", "backlog", "master",
         "cached", "initial", "bgsave"}
Fields == Core \cup {"failover", "target", "force"}

Data == Seq(Nat)
Marks == [id : Nat, off : Int]
Rdbs == [data : Data, rsi : Marks]
Answers == [type : {"none", "fullresync", "rdb", "continue", "error"}, id : Nat, off : Int, rdb : Rdbs]
Links == [to : Servers \cup {NoOne}, phase : {"none", "start", "end", "online"}, answer : Answers,
          stream : Data, closed : BOOLEAN]

Shaped(w) ==
    /\ w = [srv |-> w.srv, link |-> w.link, disk |-> w.disk, ids |-> w.ids]
    /\ DOMAIN w.srv = Servers /\ \A s \in Servers : DOMAIN w.srv[s] = Fields
    /\ w.link \in [Servers -> Links] /\ w.disk \in [Servers -> Rdbs] /\ w.ids \in Nat

-----------------------------------------------------------------------------
(* Points: what a server knows, or will know, of a history, as an ID, an   *)
(* offset and the data set that a server with them has.                    *)

Pt(id, off, data) == [id |-> id, off |-> off, data |-> data]

(* Its own position, if it may tell it to others. *)
Known(v) == \/ v.host = NoOne /\ v.backlog # NoBacklog
            \/ v.master # NoMaster \/ v.cached # NoMaster
Here(v) == Pt(v.replid, v.offset, v.data)

(* Where its second ID ends. *)
Second(v) == Pt(v.replid2, v.second - 1,
                SubSeq(v.data, 1, Len(v.data) - (v.offset - (v.second - 1))))
HasSecond(v) == v.backlog # NoBacklog /\ v.replid2 # NoId

(* What an RDB file records. *)
FilePoint(rdb) == Pt(rdb.rsi.id, rdb.rsi.off, rdb.data)

(* Where its connection will lead it. *)
Arriving(v, l) ==
    \/ l.answer.type \in {"fullresync", "rdb", "continue"}
    \/ l.answer.type = "none" /\ v.state = "connected"
Coming(v, l) ==
    LET x == l.answer IN
    IF x.type \in {"fullresync", "rdb"} THEN Pt(x.id, x.off + Len(l.stream), x.rdb.data \o l.stream)
    ELSE Pt(IF x.type = "continue" THEN x.id ELSE v.replid,
            v.offset + Len(l.stream), v.data \o l.stream)

IsPoint(p, v, l, f) ==
    \/ Known(v) /\ p = Here(v)
    \/ HasSecond(v) /\ p = Second(v)
    \/ f.rsi # NoMaster /\ p = FilePoint(f)
    \/ v.bgsave # <<>> /\ v.bgsave[1].rsi # NoMaster /\ p = FilePoint(v.bgsave[1])
    \/ Arriving(v, l) /\ p = Coming(v, l)

Point(w, s, p) == IsPoint(p, w.srv[s], w.link[s], w.disk[s])

(* The longer of the two data sets continues the shorter one. *)
Continues(e, j, d, i) ==
    /\ Len(e) - Len(d) = j - i
    /\ \A k \in 1 .. Len(d) : k <= Len(e) => d[k] = e[k]
Agree(p, q) == Continues(q.data, q.off, p.data, p.off)

-----------------------------------------------------------------------------
(* The invariant of a world w in which clients have made n writes. *)

ServerTypes(v, s, last, n) ==
    /\ v.host \in (Servers \ {s}) \cup {NoOne}
    /\ v.state \in {"none", "connect", "psync", "transfer", "connected"}
    /\ v.data \in Data /\ v.replid \in 1 .. last /\ v.replid2 \in 0 .. last
    /\ v.second \in Int /\ v.offset \in 0 .. n
    /\ v.backlog \in [offset : Int, histlen : Int]
    /\ v.master \in Marks /\ v.cached \in Marks /\ v.initial \in Marks
    /\ v.bgsave = <<>> \/ \E rdb \in Rdbs : v.bgsave = <<rdb>>

ServerRole(v) ==
    /\ (v.host = NoOne) <=> (v.state = "none")
    /\ (v.master # NoMaster) <=> (v.state = "connected")
    /\ v.host = NoOne => v.cached = NoMaster
    /\ v.master # NoMaster => v.master = [id |-> v.replid, off |-> v.offset]
    /\ v.cached # NoMaster => v.cached = [id |-> v.replid, off |-> v.offset]
    /\ v.master = NoMaster \/ v.cached = NoMaster
    /\ v.state = "connected" => v.backlog # NoBacklog

ServerLog(v) ==
    /\ v.backlog # NoBacklog =>
          /\ Known(v) /\ v.backlog.histlen \in 0 .. BacklogSize
          /\ v.backlog.offset + v.backlog.histlen = v.offset + 1
    /\ HasSecond(v) => v.offset - (v.second - 1) \in 0 .. Len(v.data) /\ v.second > 0
    /\ v.replid2 = NoId => v.second = -1

ServerOk(v, s, last, n) == ServerTypes(v, s, last, n) /\ ServerRole(v) /\ ServerLog(v)

LinkOk(v, l) ==
    IF v.state \in {"none", "connect"} THEN l = NoLink
    ELSE /\ l.to = v.host
         /\ l.answer.type \in {"fullresync", "rdb"} =>
               /\ l.answer.rdb.rsi = [id |-> l.answer.id, off |-> l.answer.off]
               /\ l.answer.rdb.rsi # NoMaster /\ l.answer.off \in Nat
         /\ v.state = "psync" =>
               \/ l.answer.type = "none" /\ l.stream = <<>> /\ l.phase \in {"none", "start"}
               \/ l.answer.type = "error" /\ l.stream = <<>> /\ l.phase = "none"
               \/ l.answer.type = "continue" /\ l.phase = "online" /\ v.cached # NoMaster
               \/ l.answer.type = "fullresync" /\ l.phase \in {"end", "online"}
         /\ v.state = "transfer" =>
               /\ l.answer.type = "rdb" /\ l.phase \in {"end", "online"}
               /\ v.initial = [id |-> l.answer.id, off |-> l.answer.off]
         /\ v.state = "connected" => l.answer.type = "none" /\ l.phase = "online"

TargetOk(v, s) == v.force => v.target \in Servers \ {s}

(* What a master sends leads its slaves to where it is. *)
SlaveOk(w, m, r) ==
    /\ HasBacklog(w, m)
    /\ w.link[r].phase \in {"end", "online"} => Coming(w.srv[r], w.link[r]) = Here(w.srv[m])
    /\ w.link[r].phase = "end" => w.link[r].answer.type \in {"fullresync", "rdb"}
SlavesOk(w) == \A m \in Servers : \A r \in Slaves(w, m) : SlaveOk(w, m, r)

(* IDs are drawn, offsets bounded by the writes. *)
PointsOk(w, n) ==
    \A s \in Servers : \A p : Point(w, s, p) =>
        p.id \in 1 .. w.ids /\ p.off \in 0 .. n /\ p.data \in Data

(* One history for each ID. *)
Consistent(w) ==
    \A s, t \in Servers : \A p, q :
        Point(w, s, p) /\ Point(w, t, q) /\ p.id = q.id => Agree(p, q)

(* Nobody is ahead of the master whose ID it is, and nobody knows the ID of a
   master without a backlog. *)
Frontier(w) ==
    \A m, s \in Servers : \A p :
        w.srv[m].host = NoOne /\ Point(w, s, p) /\ p.id = w.srv[m].replid =>
            HasBacklog(w, m) /\ p.off <= w.srv[m].offset

OneMaster(w) ==
    \A m, o \in Servers :
        w.srv[m].host = NoOne /\ w.srv[o].host = NoOne /\ w.srv[m].replid = w.srv[o].replid => m = o

(* A former master that wrote without a backlog, so that its offset and its
   second ID are not to be trusted, has an ID that nobody else knows. *)
Alone(v) == v.cached # NoMaster /\ v.backlog = NoBacklog /\ v.replid2 # NoId
Private(w) ==
    \A r \in Servers : Alone(w.srv[r]) =>
        /\ w.link[r].answer.type # "continue"
        /\ Arriving(w.srv[r], w.link[r]) => Coming(w.srv[r], w.link[r]).id # w.srv[r].replid
        /\ \A s \in Servers \ {r} : \A p : Point(w, s, p) => p.id # w.srv[r].replid

Histories(w, n) ==
    PointsOk(w, n) /\ Consistent(w) /\ Frontier(w) /\ OneMaster(w) /\ Private(w)

Inv(w, n) ==
    /\ Shaped(w)
    /\ \A s \in Servers : /\ ServerOk(w.srv[s], s, w.ids, n) /\ LinkOk(w.srv[s], w.link[s])
                          /\ TargetOk(w.srv[s], s)
    /\ SlavesOk(w) /\ Histories(w, n)

IInv == Inv(World, count.writes) /\ count \in [writes : 0 .. MaxWrites, events : Nat]


-----------------------------------------------------------------------------
(* Sequences of writes, and points. *)

Below(p, q) == p.id = q.id /\ p.off <= q.off /\ Agree(p, q)

Sound(p) == p.off \in Nat /\ p.data \in Data

(* Data sets are finite sequences of writes: their lengths, extensions and concatenations. *)
LEMMA DataFacts ==
    ASSUME NEW d \in Data
    PROVE  /\ Len(d) \in Nat /\ \A i \in 1 .. Len(d) : d[i] \in Nat
           /\ <<>> \in Data /\ Len(<<>>) = 0 /\ d \o <<>> = d
           /\ SubSeq(d, 1, Len(d)) = d
           /\ \A x \in Nat : Append(d, x) \in Data /\ Len(Append(d, x)) = Len(d) + 1
           /\ \A e \in Data : d \o e \in Data /\ Len(d \o e) = Len(d) + Len(e)
  BY DEF Data

(* Data sets with the same writes are equal. *)
LEMMA SameData ==
    ASSUME NEW d \in Data, NEW e \in Data, Len(d) = Len(e),
           \A i \in 1 .. Len(d) : d[i] = e[i]
    PROVE  d = e
  BY DEF Data

(* A write at the end of the stream is a write at the end of what it leads to. *)
LEMMA AppendConcat ==
    ASSUME NEW d \in Data, NEW e \in Data, NEW x \in Nat
    PROVE  d \o Append(e, x) = Append(d \o e, x)
  BY DEF Data

(* Applying the first write of the stream does not change what the stream leads to. *)
LEMMA HeadTail ==
    ASSUME NEW d \in Data, NEW e \in Data, e # <<>>
    PROVE  /\ Head(e) \in Nat /\ Tail(e) \in Data /\ Len(Tail(e)) = Len(e) - 1 /\ Len(e) \in Nat \ {0}
           /\ Append(d, Head(e)) \o Tail(e) = d \o e
  BY DEF Data

(* Cutting a data set in two gives two data sets, which together are the first. *)
LEMMA Prefixes ==
    ASSUME NEW d \in Data, NEW k \in 0 .. Len(d), NEW x \in Nat
    PROVE  /\ SubSeq(d, 1, k) \in Data /\ Len(SubSeq(d, 1, k)) = k
           /\ \A i \in 1 .. k : SubSeq(d, 1, k)[i] = d[i]
           /\ SubSeq(Append(d, x), 1, k) = SubSeq(d, 1, k)
           /\ SubSeq(d, k + 1, Len(d)) \in Data /\ Len(SubSeq(d, k + 1, Len(d))) = Len(d) - k
           /\ SubSeq(d, 1, k) \o SubSeq(d, k + 1, Len(d)) = d
  <1> DEFINE a == SubSeq(d, 1, k)
             b == SubSeq(d, k + 1, Len(d))
             c == SubSeq(Append(d, x), 1, k)
  <1>1. Len(d) \in Nat /\ k \in Nat /\ k <= Len(d) /\ k \in Int /\ 1 \in Int
    BY DataFacts
  <1>2. a \in Data /\ Len(a) = k /\ \A i \in 1 .. k : a[i] = d[i]
    BY <1>1 DEF Data
  <1>3. c \in Data /\ Len(c) = k /\ \A i \in 1 .. k : c[i] = d[i]
    BY <1>1 DEF Data
  <1>4. b \in Data /\ Len(b) = Len(d) - k /\ \A i \in 1 .. (Len(d) - k) : b[i] = d[k + i]
    BY <1>1 DEF Data
  <1> HIDE DEF a, b, c
  <1>5. a = c
    BY <1>1, <1>2, <1>3, SameData, Zenon
  <1>6. a \o b \in Data /\ Len(a \o b) = Len(d) /\ \A i \in 1 .. Len(d) : (a \o b)[i] = d[i]
    <2>1. a \o b \in Data /\ Len(a \o b) = Len(a) + Len(b)
      BY <1>2, <1>4, DataFacts, Zenon
    <2>2. Len(a) + Len(b) = Len(d)
      BY <1>1, <1>2, <1>4
    <2>3. ASSUME NEW i \in 1 .. Len(d) PROVE (a \o b)[i] = d[i]
      <3>1. a \in Seq(Nat) /\ b \in Seq(Nat) /\ i \in 1 .. (Len(a) + Len(b))
        BY <1>2, <1>4, <2>2, Zenon DEF Data
      <3>2. (a \o b)[i] = IF i <= Len(a) THEN a[i] ELSE b[i - Len(a)]
        BY <3>1
      <3>3. CASE i <= k
        BY <1>1, <1>2, <3>2, <3>3
      <3>4. CASE ~(i <= k)
        <4>1. i - k \in 1 .. (Len(d) - k) /\ k + (i - k) = i
          BY <1>1, <3>4
        <4> QED BY <1>2, <1>4, <3>2, <3>4, <4>1, Zenon
      <3> QED BY <3>3, <3>4, Zenon
    <2> QED BY <2>1, <2>2, <2>3, Zenon
  <1>7. a \o b = d
    BY <1>1, <1>6, SameData, Zenon
  <1> QED BY <1>2, <1>4, <1>5, <1>7, Zenon DEF a, b, c

(* Of two data sets that a third continues, the longer one continues the shorter. *)
LEMMA ContinuesBoth ==
    ASSUME NEW a \in Data, NEW b \in Data, NEW c \in Data, NEW d \in Data,
           NEW i \in Nat, NEW j \in Nat, NEW k \in Nat, NEW l \in Nat,
           i <= k, Continues(c, k, a, i), j <= l, Continues(d, l, b, j), Continues(d, l, c, k)
    PROVE  Continues(b, j, a, i)
  <1>1. Len(a) \in Nat /\ Len(b) \in Nat /\ Len(c) \in Nat /\ Len(d) \in Nat
    BY DataFacts, Zenon
  <1> QED BY <1>1 DEF Continues

(* A data set that another one continues is a prefix of it, as long as the offsets say. *)
LEMMA SharedPast ==
    ASSUME NEW d \in Data, NEW e \in Data, NEW i \in Nat, NEW j \in Nat,
           Continues(e, j, d, i), i <= j
    PROVE  Len(e) - (j - i) \in 0 .. Len(e) /\ d = SubSeq(e, 1, Len(e) - (j - i))
  <1> DEFINE k == Len(e) - (j - i)
  <1>1. Len(d) \in Nat /\ Len(e) \in Nat
    BY DataFacts, Zenon
  <1>2. k = Len(d) /\ k \in 0 .. Len(e) /\ \A n \in 1 .. k : d[n] = e[n]
    BY <1>1 DEF Continues
  <1> HIDE DEF k
  <1>3. SubSeq(e, 1, k) \in Data /\ Len(SubSeq(e, 1, k)) = k
        /\ \A n \in 1 .. k : SubSeq(e, 1, k)[n] = e[n]
    BY <1>2, Prefixes, Zenon
  <1>4. d = SubSeq(e, 1, k)
    BY <1>1, <1>2, <1>3, SameData, Zenon
  <1> QED BY <1>2, <1>4, Zenon DEF k

(* Every point is below itself. *)
LEMMA BelowItself ==
    ASSUME NEW p, Sound(p)
    PROVE  Below(p, p)
  <1>1. \A d \in Data, i \in Nat : Continues(d, i, d, i)
    BY DataFacts DEF Continues
  <1> QED BY <1>1 DEF Below, Agree, Sound

(* A point is below the one that a stream leads to from it. *)
LEMMA BelowLonger ==
    ASSUME NEW id, NEW off \in Nat, NEW d \in Data, NEW e \in Data
    PROVE  Below(Pt(id, off, d), Pt(id, off + Len(e), d \o e))
  BY DEF Below, Agree, Continues, Pt, Data

(* Two points below a third one agree. *)
LEMMA BelowBoth ==
    ASSUME NEW p, NEW q, NEW r, NEW s, Sound(p), Sound(q), Sound(r), Sound(s),
           Below(p, r), Below(q, s), Agree(r, s)
    PROVE  Agree(p, q)
  <1>1. /\ p.data \in Data /\ q.data \in Data /\ r.data \in Data /\ s.data \in Data
        /\ p.off \in Nat /\ q.off \in Nat /\ r.off \in Nat /\ s.off \in Nat
    BY Zenon DEF Sound
  <1>2. /\ p.off <= r.off /\ Continues(r.data, r.off, p.data, p.off)
        /\ q.off <= s.off /\ Continues(s.data, s.off, q.data, q.off)
        /\ Continues(s.data, s.off, r.data, r.off)
    BY Zenon DEF Below, Agree
  <1>3. Continues(q.data, q.off, p.data, p.off)
    BY <1>1, <1>2, ContinuesBoth, Zenon
  <1> QED BY <1>3, Zenon DEF Agree

(* Below is transitive. *)
LEMMA BelowTransitive ==
    ASSUME NEW p, NEW q, NEW r, Sound(p), Sound(q), Sound(r), Below(p, q), Below(q, r)
    PROVE  Below(p, r)
  <1>1. Agree(p, r)
    BY BelowBoth, BelowItself, Zenon DEF Below
  <1>2. \A i, j, k \in Nat : i <= j /\ j <= k => i <= k
    OBVIOUS
  <1> QED BY <1>1, <1>2, Zenon DEF Below, Sound



(* The constants of the model have the types of the invariant. *)
LEMMA NoLinkIsALink ==
    /\ NoMaster \in Marks /\ NoRdb \in Rdbs /\ NoAnswer \in Answers /\ NoLink \in Links
    /\ NoLink.to = NoOne /\ NoLink.answer.type = "none" /\ NoLink.stream = <<>>
    /\ NoLink.phase = "none"
  BY DEF NoMaster, NoRdb, NoAnswer, NoLink, Answer, Marks, Rdbs, Answers, Links, NoId, Data

(* The points of the invariant have an ID, an offset and a data set. *)
LEMMA PointsAreSound ==
    ASSUME NEW w, NEW n \in Nat, PointsOk(w, n), NEW s \in Servers, NEW p, Point(w, s, p)
    PROVE  Sound(p) /\ p.id <= w.ids /\ p.id \in Nat \ {0} /\ p.off <= n
  BY DEF PointsOk, Sound

(* What the invariant says of one server. *)
LEMMA InvFacts ==
    ASSUME NEW w, NEW n \in Nat, Inv(w, n), NEW s \in Servers
    PROVE  /\ Shaped(w) /\ SlavesOk(w) /\ Histories(w, n) /\ w.ids \in Nat
           /\ ServerOk(w.srv[s], s, w.ids, n) /\ LinkOk(w.srv[s], w.link[s])
           /\ w.link[s] \in Links /\ w.disk[s] \in Rdbs
  BY Zenon DEF Inv, Shaped

(* The types of a server's IDs, offsets and data set. *)
LEMMA ServerNumbers ==
    ASSUME NEW v, NEW s, NEW last \in Nat, NEW n \in Nat, ServerOk(v, s, last, n)
    PROVE  /\ v.replid \in 1 .. last /\ v.offset \in 0 .. n /\ v.replid \in Nat \ {0}
           /\ v.offset \in Nat /\ v.offset <= n /\ v.data \in Data
           /\ v.replid2 \in Nat /\ v.replid2 \in 0 .. last /\ v.second \in Int
           /\ v.replid <= last
  BY DEF ServerOk, ServerTypes

(* No server is its own master; only one with a handshake or a master has a connection. *)
LEMMA LinkIsNotOwn ==
    ASSUME NEW w, NEW n \in Nat, Inv(w, n), NEW s \in Servers
    PROVE  w.link[s].to # s /\ (w.srv[s].state \in {"none", "connect"} <=> w.link[s].to = NoOne)
  <1>1. ServerOk(w.srv[s], s, w.ids, n) /\ LinkOk(w.srv[s], w.link[s]) /\ s # NoOne
    BY InvFacts, BoundsAssumption, Zenon
  <1>2. /\ w.srv[s].host # s
        /\ w.srv[s].state \in {"none", "connect"} \/ w.srv[s].host \in Servers
    BY <1>1, Zenon DEF ServerOk, ServerTypes, ServerRole
  <1>3. IF w.srv[s].state \in {"none", "connect"} THEN w.link[s].to = NoOne
        ELSE w.link[s].to = w.srv[s].host
    BY <1>1, NoLinkIsALink, Zenon DEF LinkOk
  <1> QED BY <1>1, <1>2, <1>3, BoundsAssumption, Zenon

(* The answers to PSYNC have the type of answers. *)
LEMMA AnswersAreAnswers ==
    /\ ReplError \in Answers /\ ReplError.type = "error"
    /\ \A id \in Nat : ReplContinue(id) \in Answers /\ ReplContinue(id).type = "continue"
                       /\ ReplContinue(id).id = id
    /\ \A id \in Nat, off \in Nat, rdb \in Rdbs :
          /\ ReplFull(id, off, rdb) \in Answers /\ ReplFull(id, off, rdb).type = "fullresync"
          /\ ReplFull(id, off, rdb).id = id /\ ReplFull(id, off, rdb).off = off
          /\ ReplFull(id, off, rdb).rdb = rdb
    /\ NoAnswer.type = "none" /\ <<>> \in Data
  BY NoLinkIsALink DEF ReplError, ReplContinue, ReplFull, Answer, Answers, NoId, NoAnswer, Data

NewLog(off) == [offset |-> off + 1, histlen |-> 0]

(* A new backlog is empty and ends at the server's offset. *)
LEMMA NewLogFacts ==
    ASSUME NEW off, off \in Nat
    PROVE  /\ NewLog(off) # NoBacklog /\ NewLog(off) \in [offset : Int, histlen : Int]
           /\ NewLog(off).histlen \in 0 .. BacklogSize
           /\ NewLog(off).offset + NewLog(off).histlen = off + 1
  BY BoundsAssumption DEF NewLog, NoBacklog

-----------------------------------------------------------------------------
(* The steps of the specification. *)

(* The parts of the world are the variables. *)
LEMMA WorldFields ==
    World.srv = srv /\ World.link = link /\ World.disk = disk /\ World.ids = ids
  BY Zenon DEF World

(* The bounds are numbers. *)
LEMMA Bounds == MaxWrites \in Nat /\ MaxEvents \in Nat
  BY BoundsAssumption, Zenon


-----------------------------------------------------------------------------
(* The first state: everybody is at the beginning of the same history. *)

(* The connections of the first state. *)
LEMMA InitLinks ==
    ASSUME Init, NEW s \in Servers
    PROVE  /\ FirstHost[s] = NoOne => link[s] = NoLink
           /\ FirstHost[s] # NoOne =>
                 /\ link[s].to = FirstHost[s] /\ link[s].phase = "online"
                 /\ link[s].answer = NoAnswer /\ link[s].stream = <<>> /\ link[s].closed = FALSE
           /\ link[s] \in Links
  <1>1. link[s] = IF FirstHost[s] = NoOne THEN NoLink
                  ELSE [NoLink EXCEPT !.to = FirstHost[s], !.phase = "online"]
    BY Zenon DEF Init
  <1>2. NoLink \in Links /\ FirstHost[s] \in Servers \cup {NoOne}
    BY BoundsAssumption, NoLinkIsALink, Zenon
  <1>3. CASE FirstHost[s] = NoOne
    BY <1>1, <1>2, <1>3, Zenon
  <1>4. CASE FirstHost[s] # NoOne
    BY <1>1, <1>2, <1>4 DEF NoLink, Links
  <1> QED BY <1>3, <1>4, Zenon

(* The servers of the first state. *)
LEMMA InitServers ==
    ASSUME Init, NEW s \in Servers
    PROVE  LET v == srv[s] IN
           /\ DOMAIN v = Fields /\ v.host = FirstHost[s] /\ v.data = <<>> /\ v.replid = 1
           /\ v.replid2 = NoId /\ v.second = -1 /\ v.offset = 0 /\ v.backlog = NewLog(0)
           /\ v.cached = NoMaster /\ v.initial = NoMaster /\ v.bgsave = <<>> /\ v.force = FALSE
           /\ FirstHost[s] = NoOne => v.state = "none" /\ v.master = NoMaster
           /\ FirstHost[s] # NoOne => v.state = "connected" /\ v.master = [id |-> 1, off |-> 0]
  <1> DEFINE up == [initServer(1, FirstHost[s]) EXCEPT !.backlog = [offset |-> 1, histlen |-> 0]]
  <1>1. srv[s] = IF FirstHost[s] = NoOne THEN up
                 ELSE [up EXCEPT !.state = "connected", !.master = [id |-> 1, off |-> 0]]
    BY Zenon DEF Init
  <1>2. NewLog(0) = [offset |-> 1, histlen |-> 0]
    BY DEF NewLog
  <1>3. /\ DOMAIN up = Fields /\ up.host = FirstHost[s] /\ up.data = <<>> /\ up.replid = 1
        /\ up.replid2 = NoId /\ up.second = -1 /\ up.offset = 0 /\ up.backlog = NewLog(0)
        /\ up.master = NoMaster
        /\ up.cached = NoMaster /\ up.initial = NoMaster /\ up.bgsave = <<>> /\ up.force = FALSE
        /\ FirstHost[s] = NoOne => up.state = "none"
    BY <1>2, Zenon DEF initServer, Fields, Core
  <1> HIDE DEF up
  <1>4. CASE FirstHost[s] = NoOne
    BY <1>1, <1>3, <1>4, Zenon
  <1>5. CASE FirstHost[s] # NoOne
    <2>1. srv[s] = [up EXCEPT !.state = "connected", !.master = [id |-> 1, off |-> 0]]
      BY <1>1, <1>5, Zenon
    <2> QED BY <1>3, <1>5, <2>1, Zenon DEF Fields, Core
  <1> QED BY <1>4, <1>5, Zenon

(* In the first state everybody is at the same point. *)
LEMMA InitPoints ==
    ASSUME Init, NEW s \in Servers, NEW p, Point(World, s, p)
    PROVE  p = Pt(1, 0, <<>>)
  <1> DEFINE v == srv[s]
             l == link[s]
             f == disk[s]
  <1>1. IsPoint(p, v, l, f)
    BY WorldFields, Zenon DEF Point
  <1>2. f.data = <<>> /\ f.rsi = [id |-> 1, off |-> 0]
    BY Zenon DEF Init
  <1>3. /\ v.data = <<>> /\ v.replid = 1 /\ v.replid2 = NoId /\ v.offset = 0 /\ v.bgsave = <<>>
    BY InitServers, Zenon
  <1>4. l.answer = NoAnswer /\ l.stream = <<>>
    <2>1. NoLink.answer = NoAnswer /\ NoLink.stream = <<>>
      BY Zenon DEF NoLink
    <2>2. FirstHost[s] = NoOne => link[s] = NoLink
      BY InitLinks, Zenon
    <2>3. FirstHost[s] # NoOne => link[s].answer = NoAnswer /\ link[s].stream = <<>>
      BY InitLinks, Zenon
    <2> QED BY <2>1, <2>2, <2>3, Zenon
  <1> HIDE DEF v, l, f
  <1>5. ~HasSecond(v)
    BY <1>3, Zenon DEF HasSecond
  <1>6. Here(v) = Pt(1, 0, <<>>) /\ FilePoint(f) = Pt(1, 0, <<>>)
    BY <1>2, <1>3 DEF Here, FilePoint
  <1>7. Coming(v, l) = Pt(1, 0, <<>>)
    <2>1. l.answer.type = "none"
      BY <1>4, AnswersAreAnswers, Zenon
    <2>2. Coming(v, l) = Pt(1, 0 + Len(<<>>), <<>> \o <<>>)
      BY <1>3, <1>4, <2>1, Zenon DEF Coming
    <2>3. 0 + Len(<<>>) = 0 /\ <<>> \o <<>> = <<>>
      OBVIOUS
    <2> QED BY <2>2, <2>3, Zenon
  <1> QED BY <1>1, <1>3, <1>5, <1>6, <1>7, Zenon DEF IsPoint

(* The first state satisfies the invariant. *)
LEMMA InitHolds == Init => IInv
  <1> SUFFICES ASSUME Init PROVE IInv
    BY Zenon
  <1>1. ids = 1 /\ count = [writes |-> 0, events |-> 0]
    BY Zenon DEF Init
  <1>2. Shaped(World)
    <2>1. World = [srv |-> World.srv, link |-> World.link, disk |-> World.disk, ids |-> World.ids]
      BY Zenon DEF World
    <2>2. DOMAIN srv = Servers /\ \A s \in Servers : DOMAIN srv[s] = Fields
      <3>1. DOMAIN srv = Servers
        BY Zenon DEF Init
      <3> QED BY <3>1, InitServers, Zenon
    <2>3. link \in [Servers -> Links]
      <3>1. link = [s \in Servers |-> link[s]]
        BY Zenon DEF Init
      <3> QED BY <3>1, InitLinks, Zenon
    <2>4. disk \in [Servers -> Rdbs]
      <3>1. [data |-> <<>>, rsi |-> [id |-> 1, off |-> 0]] \in Rdbs
        BY DEF Rdbs, Marks, Data
      <3> QED BY <3>1, Zenon DEF Init
    <2> QED BY <1>1, <2>1, <2>2, <2>3, <2>4, WorldFields DEF Shaped
  <1>3. ASSUME NEW s \in Servers
        PROVE  /\ ServerOk(World.srv[s], s, World.ids, 0) /\ LinkOk(World.srv[s], World.link[s])
               /\ TargetOk(World.srv[s], s)
    <2> DEFINE v == srv[s]
    <2>1. /\ v.host = FirstHost[s] /\ v.data = <<>> /\ v.replid = 1
          /\ v.replid2 = NoId /\ v.second = -1 /\ v.offset = 0 /\ v.backlog = NewLog(0)
          /\ v.cached = NoMaster /\ v.initial = NoMaster /\ v.bgsave = <<>> /\ v.force = FALSE
          /\ FirstHost[s] = NoOne => v.state = "none" /\ v.master = NoMaster
          /\ FirstHost[s] # NoOne => v.state = "connected" /\ v.master = [id |-> 1, off |-> 0]
      BY InitServers, Zenon
    <2> HIDE DEF v
    <2>2. /\ NewLog(0) # NoBacklog /\ NewLog(0) \in [offset : Int, histlen : Int]
          /\ NewLog(0).histlen \in 0 .. BacklogSize /\ NewLog(0).offset + NewLog(0).histlen = 0 + 1
      BY NewLogFacts, Zenon
    <2>3. /\ FirstHost[s] \in (Servers \ {s}) \cup {NoOne}
      BY BoundsAssumption, Zenon
    <2>4. NoMaster \in Marks /\ [id |-> 1, off |-> 0] \in Marks /\ [id |-> 1, off |-> 0] # NoMaster
      BY DEF NoMaster, Marks, NoId
    <2>5. ServerTypes(v, s, 1, 0)
      <3>1. <<>> \in Data /\ 1 \in 1 .. 1 /\ NoId \in 0 .. 1 /\ -1 \in Int /\ 0 \in 0 .. 0
        BY DEF Data, NoId
      <3>2. v.state \in {"none", "connected"} /\ v.master \in Marks
        BY <2>1, <2>4, Zenon
      <3> QED BY <2>1, <2>2, <2>3, <2>4, <3>1, <3>2, Zenon DEF ServerTypes
    <2>6. ServerRole(v)
      BY <2>1, <2>2, <2>4, Zenon DEF ServerRole
    <2>7. Known(v)
      BY <2>1, <2>2, <2>4, Zenon DEF Known
    <2>8. ServerLog(v)
      <3>1. ~HasSecond(v)
        BY <2>1, Zenon DEF HasSecond
      <3> QED BY <2>1, <2>2, <2>7, <3>1, Zenon DEF ServerLog
    <2>9. LinkOk(v, link[s])
      <3>1. CASE FirstHost[s] = NoOne
        BY <2>1, <3>1, InitLinks, Zenon DEF LinkOk
      <3>2. CASE FirstHost[s] # NoOne
        <4>1. /\ link[s].to = v.host /\ link[s].phase = "online" /\ link[s].answer.type = "none"
          BY <2>1, <3>2, InitLinks, AnswersAreAnswers, Zenon
        <4> QED BY <2>1, <3>2, <4>1, Zenon DEF LinkOk
      <3> QED BY <3>1, <3>2, Zenon
    <2>10. TargetOk(v, s)
      BY <2>1, Zenon DEF TargetOk
    <2> QED BY <1>1, <2>5, <2>6, <2>8, <2>9, <2>10, WorldFields, Zenon DEF ServerOk, v
  <1> DEFINE o == Pt(1, 0, <<>>)
  <1>4. \A s \in Servers : \A p : Point(World, s, p) => p = o
    BY InitPoints, Zenon
  <1>5. \A s \in Servers : /\ HasBacklog(World, s) /\ World.srv[s].offset = 0
                           /\ Here(World.srv[s]) = o /\ World.srv[s].cached = NoMaster
                           /\ World.srv[s].host = FirstHost[s]
    <2> TAKE s \in Servers
    <2>1. /\ srv[s].backlog = NewLog(0) /\ srv[s].offset = 0 /\ srv[s].replid = 1
          /\ srv[s].data = <<>> /\ srv[s].cached = NoMaster /\ srv[s].host = FirstHost[s]
      BY InitServers, Zenon
    <2>2. NewLog(0) # NoBacklog
      BY NewLogFacts, Zenon
    <2> QED BY <2>1, <2>2, WorldFields, Zenon DEF HasBacklog, Here
  <1>6. /\ o.id = 1 /\ o.off = 0 /\ o.data = <<>> /\ <<>> \in Data
    BY DEF Pt, Data
  <1>7. Agree(o, o)
    BY <1>6, Zenon DEF Agree, Continues
  <1> HIDE DEF o
  <1>8. SlavesOk(World)
    <2> SUFFICES ASSUME NEW m \in Servers, NEW r \in Slaves(World, m) PROVE SlaveOk(World, m, r)
      BY Zenon DEF SlavesOk
    <2>1. r \in Servers /\ World.link[r].phase # "none"
      BY Zenon DEF Slaves
    <2>2. FirstHost[r] # NoOne
      <3>1. NoLink.phase = "none"
        BY Zenon DEF NoLink
      <3>2. FirstHost[r] = NoOne => link[r] = NoLink
        BY <2>1, InitLinks, Zenon
      <3> QED BY <2>1, <3>1, <3>2, WorldFields, Zenon
    <2>3. link[r].answer.type = "none" /\ link[r].phase = "online" /\ srv[r].state = "connected"
      BY <2>1, <2>2, InitLinks, InitServers, AnswersAreAnswers, Zenon
    <2>4. Arriving(World.srv[r], World.link[r])
      BY <2>3, WorldFields, Zenon DEF Arriving
    <2>5. Coming(World.srv[r], World.link[r]) = o
      BY <1>4, <2>1, <2>4, Zenon DEF Point, IsPoint
    <2> QED BY <1>5, <2>3, <2>5, WorldFields, Zenon DEF SlaveOk
  <1>9. Histories(World, 0)
    <2>1. PointsOk(World, 0)
      BY <1>1, <1>4, <1>6, WorldFields DEF PointsOk
    <2>2. Consistent(World)
      BY <1>4, <1>7, Zenon DEF Consistent
    <2>3. Frontier(World)
      BY <1>4, <1>5, <1>6 DEF Frontier
    <2>4. OneMaster(World)
      BY <1>5, BoundsAssumption DEF OneMaster
    <2>5. Private(World)
      BY <1>5, Zenon DEF Private, Alone
    <2> QED BY <2>1, <2>2, <2>3, <2>4, <2>5, Zenon DEF Histories
  <1>10. Inv(World, 0)
    BY <1>2, <1>3, <1>8, <1>9, Zenon DEF Inv
  <1>11. count \in [writes : 0 .. MaxWrites, events : Nat] /\ count.writes = 0
    BY <1>1, Bounds
  <1> QED BY <1>10, <1>11, Zenon DEF IInv


CutAt(D, j, o) == SubSeq(D, 1, Len(D) - (j - (o - 1)))

InPast(D, j, o, d, i) ==
    /\ D \in Data /\ i \in Nat /\ j \in Nat /\ o \in Int /\ d \in Data
    /\ i <= j /\ o > 0 /\ i + 1 <= o /\ j - (o - 1) \in 0 .. Len(D)
    /\ Continues(CutAt(D, j, o), o - 1, d, i)

IsPast(D, j, d, i) == j - i \in 0 .. Len(D) /\ d = SubSeq(D, 1, Len(D) - (j - i))

(* What a prefix of a data set continues is in the past of the data set. *)
LEMMA OlderPast ==
    ASSUME NEW D, NEW j, NEW o, NEW d, NEW i, InPast(D, j, o, d, i)
    PROVE  IsPast(D, j, d, i)
  <1> DEFINE k == Len(D) - (j - (o - 1))
  <1> USE DEF InPast
  <1>1. k \in 0 .. Len(D) /\ Len(D) \in Nat /\ o - 1 \in Nat /\ i <= o - 1 /\ k \in Nat
    BY DataFacts
  <1>0. \A L, l, a, b, c \in Int : (L - (a - b)) - l = b - c => L - l = a - c
    OBVIOUS
  <1> HIDE DEF k
  <1>2. /\ SubSeq(D, 1, k) \in Data /\ Len(SubSeq(D, 1, k)) = k
        /\ \A x \in 1 .. k : SubSeq(D, 1, k)[x] = D[x]
    BY <1>1, Prefixes, Zenon
  <1>3. Continues(SubSeq(D, 1, k), o - 1, d, i)
    BY Zenon DEF k, CutAt
  <1>4. Len(d) \in Nat /\ k - Len(d) = (o - 1) - i
        /\ \A x \in 1 .. Len(d) : x <= k => d[x] = SubSeq(D, 1, k)[x]
    BY <1>2, <1>3, DataFacts, Zenon DEF Continues
  <1>5. \A x \in 1 .. Len(d) : d[x] = D[x]
    <2>1. \A x \in 1 .. Len(d) : x <= k /\ x \in 1 .. k
      BY <1>1, <1>4
    <2> QED BY <1>2, <1>4, <2>1, Zenon
  <1>6. Len(D) - Len(d) = j - i
    <2>1. (Len(D) - (j - (o - 1))) - Len(d) = (o - 1) - i
      BY <1>4, Zenon DEF k
    <2>2. Len(D) \in Int /\ Len(d) \in Int /\ j \in Int /\ o - 1 \in Int /\ i \in Int
      BY <1>1, <1>4
    <2> QED BY <1>0, <2>1, <2>2
  <1>7. Continues(D, j, d, i)
    BY <1>5, <1>6, Zenon DEF Continues
  <1>8. Len(D) - (j - i) \in 0 .. Len(D) /\ d = SubSeq(D, 1, Len(D) - (j - i))
    BY <1>7, SharedPast
  <1> QED BY <1>1, <1>8 DEF IsPast

(* A partial resynchronization that is granted is safe: the data set of the
   point asked from is the one the granting server had there. *)
Granted(s, id, off) == IdAccepted(s, [id |-> id, off |-> off + 1]) /\ InBacklog(s, off + 1)

(* The point a partial resynchronization is granted from is in the past of the granting
   server. *)
LEMMA GrantIsSafe ==
    ASSUME NEW w, NEW n \in Nat, Inv(w, n), NEW m \in Servers, NEW t \in Servers,
           NEW p, Point(w, t, p), Granted(w.srv[m], p.id, p.off)
    PROVE  LET s == w.srv[m] IN
           /\ HasBacklog(w, m) /\ s.offset \in Nat /\ p.off \in Nat /\ p.off <= s.offset
           /\ s.offset - p.off \in 0 .. Len(s.data)
           /\ p.data = SubSeq(s.data, 1, Len(s.data) - (s.offset - p.off))
           /\ \E q : Point(w, m, q) /\ q.id = p.id
  <1> DEFINE s == w.srv[m]
  <1>1. /\ ServerOk(s, m, w.ids, n) /\ w.ids \in Nat /\ PointsOk(w, n) /\ Consistent(w)
    BY InvFacts, Zenon DEF Histories
  <1>2. /\ s.offset \in Nat /\ s.data \in Data /\ s.replid2 \in Nat /\ s.second \in Int
        /\ Len(s.data) \in Nat
    BY <1>1, ServerNumbers, DataFacts, Zenon
  <1>3. Sound(p) /\ p.off \in Nat /\ p.data \in Data /\ p.id \in Nat \ {0}
    BY <1>1, PointsAreSound, Zenon DEF Sound
  <1>4. /\ s.backlog # NoBacklog /\ p.off + 1 <= s.backlog.offset + s.backlog.histlen
        /\ p.id = s.replid \/ (p.id = s.replid2 /\ p.off + 1 <= s.second)
    BY Zenon DEF Granted, InBacklog, IdAccepted
  <1>5. /\ Known(s) /\ s.backlog.offset + s.backlog.histlen = s.offset + 1
        /\ HasSecond(s) => s.offset - (s.second - 1) \in 0 .. Len(s.data) /\ s.second > 0
    BY <1>1, <1>4, Zenon DEF ServerOk, ServerLog
  <1>6. p.off <= s.offset /\ HasBacklog(w, m)
    BY <1>2, <1>3, <1>4, <1>5 DEF HasBacklog
  <1> HIDE DEF s
  <1>7. CASE p.id = s.replid
    <2>1. Point(w, m, Here(s)) /\ Here(s).id = p.id
      BY <1>5, <1>7, Zenon DEF Point, IsPoint, Here, Pt, s
    <2>2. Agree(p, Here(s))
      BY <1>1, <2>1, Zenon DEF Consistent
    <2>3. Continues(s.data, s.offset, p.data, p.off)
      BY <2>2, Zenon DEF Agree, Here, Pt
    <2>4. /\ Len(s.data) - (s.offset - p.off) \in 0 .. Len(s.data)
          /\ p.data = SubSeq(s.data, 1, Len(s.data) - (s.offset - p.off))
      BY <1>2, <1>3, <1>6, <2>3, SharedPast
    <2>5. \A L, i, j \in Nat : L - (i - j) \in 0 .. L /\ j <= i => i - j \in 0 .. L
      OBVIOUS
    <2> QED BY <1>2, <1>3, <1>6, <2>1, <2>4, <2>5, Zenon DEF s
  <1>8. CASE p.id # s.replid
    <2> DEFINE q == Second(s)
    <2>1. p.id = s.replid2 /\ p.off + 1 <= s.second /\ HasSecond(s)
      BY <1>3, <1>4, <1>8, Zenon DEF HasSecond, NoId
    <2>2. Point(w, m, q) /\ q.id = p.id
      BY <2>1, Zenon DEF Point, IsPoint, Second, Pt, s
    <2>3. Agree(p, q)
      BY <1>1, <2>2, Zenon DEF Consistent
    <2>4. s.offset - (s.second - 1) \in 0 .. Len(s.data) /\ s.second > 0
      BY <1>5, <2>1, Zenon
    <2>5. Continues(CutAt(s.data, s.offset, s.second), s.second - 1, p.data, p.off)
      BY <2>3, Zenon DEF Agree, Second, Pt, CutAt
    <2>6. /\ s.offset - p.off \in 0 .. Len(s.data)
          /\ p.data = SubSeq(s.data, 1, Len(s.data) - (s.offset - p.off))
      <3>1. InPast(s.data, s.offset, s.second, p.data, p.off)
        BY <1>2, <1>3, <1>6, <2>1, <2>4, <2>5, Zenon DEF InPast
      <3>2. IsPast(s.data, s.offset, p.data, p.off)
        BY <3>1, OlderPast, Zenon
      <3> QED BY <3>2, Zenon DEF IsPast
    <2> QED BY <1>2, <1>3, <1>6, <2>2, <2>6, Zenon DEF s
  <1> QED BY <1>7, <1>8, Zenon

(* A connected replica that has acknowledged everything has everything; only
   at offset 0 is one that is not connected taken for such a replica. *)
LEMMA CaughtUpHasAll ==
    ASSUME NEW w, NEW n \in Nat, Inv(w, n), NEW m \in Servers, NEW t, CaughtUp(w, m, t)
    PROVE  /\ t \in Servers \ {m}
           /\ \/ w.srv[t].data = w.srv[m].data
              \/ w.srv[m].offset = 0 /\ w.srv[t].state # "connected"
  <1>1. /\ t \in Servers /\ t \in Slaves(w, m)
        /\ \/ w.srv[m].offset = 0
           \/ w.srv[t].state = "connected" /\ w.srv[t].master.off = w.srv[m].offset
    BY Zenon DEF CaughtUp, Slaves
  <1>2. t # m
    BY <1>1, LinkIsNotOwn, Zenon DEF Slaves
  <1>0. SUFFICES ASSUME w.srv[t].state = "connected"
                 PROVE  w.srv[t].data = w.srv[m].data
    BY <1>1, <1>2, Zenon
  <1>3. /\ SlavesOk(w) /\ ServerOk(w.srv[t], t, w.ids, n) /\ LinkOk(w.srv[t], w.link[t])
        /\ w.link[t] \in Links
    BY <1>1, InvFacts, Zenon
  <1> DEFINE v == w.srv[t]
             d == w.link[t].stream
             i == v.offset
             b == v.data
  <1>4. /\ d \in Data /\ w.link[t].answer.type = "none" /\ w.link[t].phase = "online"
        /\ v.master.off = i /\ i \in Nat /\ b \in Data
    <2>1. d \in Data /\ w.link[t].answer.type = "none" /\ w.link[t].phase = "online"
      BY <1>0, <1>3, Zenon DEF LinkOk, Links
    <2>2. v.master # NoMaster
      BY <1>0, <1>3, Zenon DEF ServerOk, ServerRole
    <2>3. v.master = [id |-> v.replid, off |-> i]
      BY <1>3, <2>2, Zenon DEF ServerOk, ServerRole
    <2>4. i \in Nat /\ b \in Data
      BY <1>3 DEF ServerOk, ServerTypes
    <2> QED BY <2>1, <2>3, <2>4
  <1>5. Coming(v, w.link[t]) = Here(w.srv[m])
    BY <1>1, <1>3, <1>4, Zenon DEF SlavesOk, SlaveOk
  <1>6. Coming(v, w.link[t]) = Pt(v.replid, i + Len(d), b \o d)
    BY <1>4, Zenon DEF Coming
  <1>7. i + Len(d) = w.srv[m].offset /\ b \o d = w.srv[m].data
    <2> DEFINE j == i + Len(d)
               e == b \o d
    <2>1. Coming(v, w.link[t]) = Pt(v.replid, j, e)
      BY <1>6, Zenon
    <2> HIDE DEF j, e
    <2>2. j = w.srv[m].offset /\ e = w.srv[m].data
      BY <1>5, <2>1 DEF Here, Pt
    <2> QED BY <2>2, Zenon DEF j, e
  <1>8. w.srv[m].offset = 0 \/ w.srv[m].offset = i
    BY <1>1, <1>4, Zenon
  <1> HIDE DEF d, i, b
  <1>9. Len(d) = 0
    <2>1. Len(d) \in Nat
      BY <1>4, DataFacts
    <2> QED BY <1>4, <1>7, <1>8, <2>1
  <1>10. b \o d = b
    <2>1. d = <<>>
      BY <1>4, <1>9 DEF Data
    <2> QED BY <1>4, <2>1, DataFacts, Zenon
  <1> QED BY <1>7, <1>10, Zenon DEF b

-----------------------------------------------------------------------------
(* What the invariant gives. *)

(* The invariant implies the type invariant and MasterIsMyself. *)
LEMMA HostsAndMasters == IInv => MasterIsMyself
  <1> SUFFICES ASSUME IInv PROVE MasterIsMyself
    BY Zenon
  <1> DEFINE n == count.writes
  <1>1. n \in Nat /\ n <= MaxWrites /\ Inv(World, n)
    BY Bounds DEF IInv
  <1> HIDE DEF n
  <1>2. SlavesOk(World) /\ ids \in Nat
    BY <1>1, WorldFields, Zenon DEF Inv, Shaped
  <1>3. ASSUME NEW s \in Servers
        PROVE  ServerOk(srv[s], s, ids, n) /\ LinkOk(srv[s], link[s])
    BY <1>1, <1>3, InvFacts, WorldFields, Zenon
  <1>4. ASSUME NEW s \in Servers
        PROVE  /\ srv[s].host \in Servers \cup {NoOne}
               /\ srv[s].state \in {"none", "connect", "psync", "transfer", "connected"}
               /\ {srv[s].replid, srv[s].replid2, srv[s].master.id, srv[s].cached.id} \subseteq Ids
               /\ srv[s].replid # NoId
               /\ srv[s].offset \in 0 .. MaxWrites
               /\ srv[s].backlog.histlen \in -1 .. BacklogSize
               /\ HasBacklog(World, s) =>
                     srv[s].backlog.offset + srv[s].backlog.histlen = srv[s].offset + 1
               /\ (srv[s].host = NoOne) = (srv[s].state = "none")
               /\ (srv[s].master # NoMaster) = (srv[s].state = "connected")
               /\ (link[s] = NoLink) = (srv[s].state \in {"none", "connect"})
    <2> DEFINE v == srv[s]
    <2>1. ServerTypes(v, s, ids, n) /\ ServerRole(v) /\ ServerLog(v) /\ LinkOk(v, link[s])
      BY <1>3, Zenon DEF ServerOk
    <2> HIDE DEF v
    <2>2. /\ v.host \in Servers \cup {NoOne} /\ v.replid # NoId /\ v.offset \in 0 .. MaxWrites
          /\ v.state \in {"none", "connect", "psync", "transfer", "connected"}
      BY <1>1, <1>2, <2>1, Bounds DEF ServerTypes, NoId
    <2>3. {v.replid, v.replid2, v.master.id, v.cached.id} \subseteq Ids
      <3>1. v.replid \in Ids /\ v.replid2 \in Ids /\ NoMaster.id \in Ids
        BY <1>2, <2>1 DEF ServerTypes, Ids, NoMaster, NoId
      <3>2. v.master = NoMaster \/ v.master.id = v.replid
        BY <2>1 DEF ServerRole
      <3>3. v.cached = NoMaster \/ v.cached.id = v.replid
        BY <2>1 DEF ServerRole
      <3>4. v.master.id \in Ids /\ v.cached.id \in Ids
        BY <3>1, <3>2, <3>3, Zenon
      <3> QED BY <3>1, <3>4, Zenon
    <2>4. v.backlog.histlen \in -1 .. BacklogSize
      <3>1. CASE v.backlog = NoBacklog
        BY <3>1, BoundsAssumption DEF NoBacklog
      <3>2. CASE v.backlog # NoBacklog
        <4>1. v.backlog.histlen \in 0 .. BacklogSize /\ BacklogSize \in Nat
          BY <2>1, <3>2, BoundsAssumption, Zenon DEF ServerLog
        <4> QED BY <4>1
      <3> QED BY <3>1, <3>2, Zenon
    <2>5. v.backlog # NoBacklog => v.backlog.offset + v.backlog.histlen = v.offset + 1
      BY <2>1, Zenon DEF ServerLog
    <2>6. /\ (v.host = NoOne) = (v.state = "none")
          /\ (v.master # NoMaster) = (v.state = "connected")
      BY <2>1, Zenon DEF ServerRole
    <2>7. (link[s] = NoLink) <=> (v.state \in {"none", "connect"})
      <3>1. v.state \in {"none", "connect"} => link[s] = NoLink
        BY <2>1, Zenon DEF LinkOk
      <3>2. v.state \notin {"none", "connect"} => link[s] # NoLink
        BY <2>1, <2>2, <2>6, NoLinkIsALink, Zenon DEF LinkOk
      <3> QED BY <3>1, <3>2, Zenon
    <2> QED BY <2>2, <2>3, <2>4, <2>5, <2>6, <2>7, WorldFields DEF HasBacklog, v
  <1>5. TypeOK
    BY <1>4, Zenon DEF TypeOK
  <1>6. ASSUME NEW s \in Servers
        PROVE  /\ \A k \in {srv[s].master, srv[s].cached} :
                     k # NoMaster => k = [id |-> srv[s].replid, off |-> srv[s].offset]
               /\ srv[s].master = NoMaster \/ srv[s].cached = NoMaster
               /\ srv[s].state = "connected" => HasBacklog(World, s)
               /\ Slaves(World, s) # {} => HasBacklog(World, s)
    <2>1. ServerRole(srv[s])
      BY <1>3, Zenon DEF ServerOk
    <2>2. Slaves(World, s) # {} => HasBacklog(World, s)
      BY <1>2, Zenon DEF SlavesOk, SlaveOk
    <2> QED BY <2>1, <2>2, WorldFields, Zenon DEF ServerRole, HasBacklog
  <1> QED BY <1>5, <1>6, Zenon DEF MasterIsMyself

(* The invariant implies SlavesGetEverything. *)
LEMMA SlavesAreServed == IInv => SlavesGetEverything
  <1> SUFFICES ASSUME IInv, NEW m \in Servers, NEW r \in Slaves(World, m)
               PROVE  LET x    == link[r].answer
                          base == IF x.type \in {"fullresync", "rdb"} THEN x.rdb.data ELSE srv[r].data
                      IN  /\ link[r].phase \in {"end", "online"} => base \o link[r].stream = srv[m].data
                          /\ (link[r].phase = "online" /\ srv[r].state = "connected") =>
                                /\ srv[r].replid = srv[m].replid
                                /\ srv[r].offset + Len(link[r].stream) = srv[m].offset
    BY Zenon DEF SlavesGetEverything
  <1> DEFINE n == count.writes
             v == srv[r]
             l == link[r]
             x == l.answer
             d == l.stream
  <1>1. n \in Nat /\ Inv(World, n) /\ r \in Servers
    BY Bounds DEF IInv, Slaves
  <1> HIDE DEF n
  <1>2. l.phase \in {"end", "online"} => Coming(v, l) = Here(srv[m])
    BY <1>1, InvFacts, WorldFields, Zenon DEF SlavesOk, SlaveOk
  <1>3. ASSUME l.phase \in {"end", "online"}, x.type \in {"fullresync", "rdb"}
        PROVE  x.rdb.data \o d = srv[m].data
    <2> DEFINE e == x.rdb.data \o d
               i == x.off + Len(d)
    <2>1. Coming(v, l) = Pt(x.id, i, e)
      BY <1>3, Zenon DEF Coming
    <2> HIDE DEF e, i
    <2>2. e = srv[m].data
      BY <1>2, <1>3, <2>1 DEF Pt, Here
    <2> QED BY <2>2, Zenon DEF e
  <1>4. ASSUME l.phase \in {"end", "online"}, x.type \notin {"fullresync", "rdb"}
        PROVE  /\ v.data \o d = srv[m].data
               /\ v.offset + Len(d) = srv[m].offset
               /\ x.type = "none" => v.replid = srv[m].replid
    <2> DEFINE e == v.data \o d
               i == v.offset + Len(d)
               id == IF x.type = "continue" THEN x.id ELSE v.replid
    <2>1. Coming(v, l) = Pt(id, i, e)
      BY <1>4, Zenon DEF Coming
    <2>2. x.type = "none" => id = v.replid
      BY Zenon
    <2> HIDE DEF e, i, id
    <2>3. e = srv[m].data /\ i = srv[m].offset /\ id = srv[m].replid
      BY <1>2, <1>4, <2>1 DEF Pt, Here
    <2> QED BY <2>2, <2>3, Zenon DEF e, i
  <1>5. v.state = "connected" => x.type = "none"
    BY <1>1, InvFacts, WorldFields, Zenon DEF LinkOk
  <1> QED BY <1>3, <1>4, <1>5, Zenon

(* What a server could ask a partial resynchronization with is a point. *)
LEMMA ClaimsArePoints ==
    ASSUME IInv, NEW r \in Servers, NEW c \in Claims(r), c.id # NoId
    PROVE  Point(World, r, c)
  <1> DEFINE n == count.writes
             v == srv[r]
  <1>1. n \in Nat /\ Inv(World, n)
    BY Bounds DEF IInv
  <1> HIDE DEF n
  <1>2. ServerRole(v) /\ ServerTypes(v, r, ids, n)
    BY <1>1, InvFacts, WorldFields, Zenon DEF ServerOk
  <1>3. NoMaster.id = NoId
    BY Zenon DEF NoMaster
  <1>4. CASE c = [id |-> v.cached.id, off |-> v.cached.off, data |-> v.data]
    <2>1. v.cached # NoMaster
      BY <1>3, <1>4, Zenon
    <2>2. v.cached.id = v.replid /\ v.cached.off = v.offset
      BY <1>2, <2>1 DEF ServerRole
    <2>3. Known(v) /\ c = Here(v)
      BY <1>4, <2>1, <2>2, Zenon DEF Known, Here, Pt
    <2> QED BY <2>3, WorldFields, Zenon DEF Point, IsPoint
  <1>5. CASE c = [id |-> v.master.id, off |-> v.master.off, data |-> v.data]
    <2>1. v.master # NoMaster
      BY <1>3, <1>5, Zenon
    <2>2. v.master.id = v.replid /\ v.master.off = v.offset
      BY <1>2, <2>1 DEF ServerRole
    <2>3. Known(v) /\ c = Here(v)
      BY <1>5, <2>1, <2>2, Zenon DEF Known, Here, Pt
    <2> QED BY <2>3, WorldFields DEF Point, IsPoint
  <1>6. ASSUME NEW rdb, c = [id |-> rdb.rsi.id, off |-> rdb.rsi.off, data |-> rdb.data],
               rdb = disk[r] \/ (v.bgsave # <<>> /\ rdb = v.bgsave[1])
        PROVE  Point(World, r, c)
    <2>1. rdb.rsi # NoMaster /\ c = FilePoint(rdb)
      BY <1>3, <1>6, Zenon DEF FilePoint, Pt
    <2> QED BY <1>6, <2>1, WorldFields, Zenon DEF Point, IsPoint
  <1>7. \A i \in DOMAIN v.bgsave : v.bgsave # <<>> /\ v.bgsave[i] = v.bgsave[1]
    BY <1>2 DEF ServerTypes
  <1> QED BY <1>4, <1>5, <1>6, <1>7, Zenon DEF Claims

(* The invariant implies PartialResyncIsSafe. *)
LEMMA GrantsAreSafe == IInv => PartialResyncIsSafe
  <1> SUFFICES ASSUME IInv, NEW m \in Servers, NEW r \in Servers, NEW c \in Claims(r), c.id # NoId,
                      masterTryPartialResynchronization(World, m, [id |-> c.id, off |-> c.off + 1])
               PROVE  c.data = DataAt(m, c.off)
    BY Zenon DEF PartialResyncIsSafe
  <1> DEFINE n == count.writes
  <1>1. n \in Nat /\ Inv(World, n)
    BY Bounds DEF IInv
  <1> HIDE DEF n
  <1>2. Point(World, r, c)
    BY ClaimsArePoints, Zenon
  <1>3. Granted(World.srv[m], c.id, c.off)
    BY Zenon DEF masterTryPartialResynchronization, Granted
  <1>4. c.data = SubSeq(World.srv[m].data, 1,
                        Len(World.srv[m].data) - (World.srv[m].offset - c.off))
    BY <1>1, <1>2, <1>3, GrantIsSafe
  <1> QED BY <1>4, WorldFields, Zenon DEF DataAt


-----------------------------------------------------------------------------
(* What the transformations of a world do. *)

(* Setting fields of a server changes those fields of that server. *)
LEMMA SetEffect ==
    ASSUME NEW w, Shaped(w), NEW s \in Servers, NEW f, DOMAIN f \subseteq Fields,
           NEW w2, w2 = Set(w, s, f)
    PROVE  /\ Shaped(w2)
           /\ w2.link = w.link /\ w2.disk = w.disk /\ w2.ids = w.ids
           /\ \A t \in Servers \ {s} : w2.srv[t] = w.srv[t]
           /\ \A i \in Fields : w2.srv[s][i] = IF i \in DOMAIN f THEN f[i] ELSE w.srv[s][i]
  <1> DEFINE v == [i \in DOMAIN w.srv[s] |-> IF i \in DOMAIN f THEN f[i] ELSE w.srv[s][i]]
  <1>1. w.srv[s] = w.srv[s] /\ DOMAIN w.srv[s] = Fields
    BY Zenon DEF Shaped
  <1>2. DOMAIN v = Fields /\ \A i \in Fields : v[i] = IF i \in DOMAIN f THEN f[i] ELSE w.srv[s][i]
    BY <1>1, Zenon
  <1>3. w2 = [w EXCEPT !.srv[s] = v]
    BY Zenon DEF Set
  <1> HIDE DEF v
  <1>4. w2 = [srv |-> [w.srv EXCEPT ![s] = v], link |-> w.link, disk |-> w.disk, ids |-> w.ids]
    BY <1>3, Zenon DEF Shaped
  <1> QED
    BY <1>2, <1>4 DEF Shaped


(* changeReplicationId() draws an ID that was not drawn before. *)
LEMMA ChangeIdEffect ==
    ASSUME NEW w, Shaped(w), NEW s \in Servers, NEW w2, w2 = changeReplicationId(w, s)
    PROVE  /\ Shaped(w2)
           /\ w2.link = w.link /\ w2.disk = w.disk /\ w2.ids = w.ids + 1
           /\ \A t \in Servers \ {s} : w2.srv[t] = w.srv[t]
           /\ \A i \in Fields \ {"replid"} : w2.srv[s][i] = w.srv[s][i]
           /\ w2.srv[s].replid = w.ids + 1
  <1>1. w2 = [srv |-> [w.srv EXCEPT ![s] = [w.srv[s] EXCEPT !.replid = w.ids + 1]],
              link |-> w.link, disk |-> w.disk, ids |-> w.ids + 1]
    BY Zenon DEF Shaped, changeReplicationId
  <1>2. "replid" \in Fields
    BY Zenon DEF Fields, Core
  <1> QED
    BY <1>1, <1>2 DEF Shaped

(* Changing all connections changes nothing else. *)
LEMMA LinkEffect ==
    ASSUME NEW w, Shaped(w), NEW l, l \in [Servers -> Links], NEW w2, w2 = [w EXCEPT !.link = l]
    PROVE  Shaped(w2) /\ w2.srv = w.srv /\ w2.disk = w.disk /\ w2.ids = w.ids /\ w2.link = l
  <1>1. w2 = [srv |-> w.srv, link |-> l, disk |-> w.disk, ids |-> w.ids]
    BY Zenon DEF Shaped
  <1> QED BY <1>1, Zenon DEF Shaped

Closed(w, w2, S) ==
    \A r \in Servers :
        w2.link[r] = IF r \in S THEN [w.link[r] EXCEPT !.closed = TRUE] ELSE w.link[r]

(* A closed connection is a connection. *)
LEMMA ClosedLinks ==
    ASSUME NEW w, Shaped(w), NEW S
    PROVE  [r \in Servers |-> IF r \in S THEN [w.link[r] EXCEPT !.closed = TRUE] ELSE w.link[r]]
               \in [Servers -> Links]
  <1>1. \A l \in Links : [l EXCEPT !.closed = TRUE] \in Links
    BY Zenon DEF Links
  <1> QED BY <1>1, Zenon DEF Shaped

(* disconnectSlaves() closes the connections of the server's slaves. *)
LEMMA DisconnectEffect ==
    ASSUME NEW w, Shaped(w), NEW m \in Servers, NEW w2, w2 = disconnectSlaves(w, m)
    PROVE  /\ Shaped(w2) /\ w2.srv = w.srv /\ w2.disk = w.disk /\ w2.ids = w.ids
           /\ Closed(w, w2, Slaves(w, m))
  <1> DEFINE l == [r \in Servers |-> IF r \in Slaves(w, m) THEN [w.link[r] EXCEPT !.closed = TRUE]
                                   ELSE w.link[r]]
  <1>1. l \in [Servers -> Links]
    BY ClosedLinks, Zenon
  <1>2. w2 = [w EXCEPT !.link = l]
    BY Zenon DEF disconnectSlaves
  <1> HIDE DEF l
  <1>3. Shaped(w2) /\ w2.srv = w.srv /\ w2.disk = w.disk /\ w2.ids = w.ids /\ w2.link = l
    BY <1>1, <1>2, LinkEffect
  <1> QED BY <1>3, Zenon DEF l, Closed

(* Closing its connection to the master changes nothing else of a replica. *)
LEMMA CloseLinkEffect ==
    ASSUME NEW w, Shaped(w), NEW r \in Servers, NEW w2, w2 = CloseLink(w, r)
    PROVE  /\ Shaped(w2) /\ w2.srv = w.srv /\ w2.disk = w.disk /\ w2.ids = w.ids
           /\ w2.link[r] = NoLink /\ \A t \in Servers \ {r} : w2.link[t] = w.link[t]
  <1>1. w2 = [w EXCEPT !.link = [w.link EXCEPT ![r] = NoLink]]
    BY Zenon DEF CloseLink, Shaped
  <1>2. [w.link EXCEPT ![r] = NoLink] \in [Servers -> Links]
    BY NoLinkIsALink, Zenon DEF Shaped
  <1> QED BY <1>1, <1>2, LinkEffect DEF Shaped

(* Only server s is changed, and of it only the fields F (and its link, if told). *)
Only(w, w2, s, F) ==
    /\ Shaped(w2) /\ w2.disk = w.disk /\ \A t \in Servers \ {s} : w2.srv[t] = w.srv[t]
    /\ \A i \in Fields \ F : w2.srv[s][i] = w.srv[s][i]

(* createReplicationBacklog() creates an empty backlog unless there is one. *)
LEMMA CreateEffect ==
    ASSUME NEW w, Shaped(w), NEW s \in Servers, NEW w2, w2 = createReplicationBacklog(w, s)
    PROVE  /\ Only(w, w2, s, {"backlog"}) /\ w2.link = w.link /\ w2.ids = w.ids
           /\ w2.srv[s].backlog = IF HasBacklog(w, s) THEN w.srv[s].backlog
                                  ELSE [offset |-> w.srv[s].offset + 1, histlen |-> 0]
  <1>1. CASE HasBacklog(w, s)
    BY <1>1, Zenon DEF createReplicationBacklog, Only
  <1>2. CASE ~HasBacklog(w, s)
    <2> DEFINE f == [backlog |-> [offset |-> w.srv[s].offset + 1, histlen |-> 0]]
    <2>1. DOMAIN f = {"backlog"} /\ DOMAIN f \subseteq Fields /\ "backlog" \in Fields
      BY Zenon DEF Fields, Core
    <2>2. f.backlog = [offset |-> w.srv[s].offset + 1, histlen |-> 0]
      BY Zenon
    <2>3. w2 = Set(w, s, f)
      BY <1>2, Zenon DEF createReplicationBacklog
    <2> HIDE DEF f
    <2> QED BY <1>2, <2>1, <2>2, <2>3, SetEffect DEF Only
  <1> QED BY <1>1, <1>2, Zenon

(* replicationCacheMaster() keeps the master's place as the cached master. *)
LEMMA CacheEffect ==
    ASSUME NEW w, Shaped(w), NEW r \in Servers, NEW w2, w2 = replicationCacheMaster(w, r)
    PROVE  /\ Only(w, w2, r, {"cached", "master", "state"}) /\ w2.ids = w.ids
           /\ \A t \in Servers \ {r} : w2.link[t] = w.link[t]
           /\ w2.srv[r].master = NoMaster
           /\ IF w.srv[r].master = NoMaster
              THEN w2.srv[r].cached = w.srv[r].cached /\ w2.srv[r].state = w.srv[r].state
                   /\ w2.link[r] = w.link[r]
              ELSE w2.srv[r].cached = w.srv[r].master /\ w2.srv[r].state = "connect"
                   /\ w2.link[r] = NoLink
  <1>1. CASE w.srv[r].master = NoMaster
    BY <1>1, Zenon DEF replicationCacheMaster, Only
  <1>2. CASE w.srv[r].master # NoMaster
    <2> DEFINE f == [cached |-> w.srv[r].master, master |-> NoMaster, state |-> "connect"]
               w1 == Set(w, r, f)
    <2>1. /\ DOMAIN f = {"cached", "master", "state"} /\ DOMAIN f \subseteq Fields
          /\ {"cached", "master", "state"} \subseteq Fields
          /\ f.cached = w.srv[r].master /\ f.master = NoMaster /\ f.state = "connect"
      BY Zenon DEF Fields, Core
    <2>2. w2 = CloseLink(w1, r)
      BY <1>2, Zenon DEF replicationCacheMaster
    <2> HIDE DEF f
    <2>3. /\ Shaped(w1) /\ w1.link = w.link /\ w1.disk = w.disk /\ w1.ids = w.ids
          /\ \A t \in Servers \ {r} : w1.srv[t] = w.srv[t]
          /\ \A i \in Fields : w1.srv[r][i] = IF i \in DOMAIN f THEN f[i] ELSE w.srv[r][i]
      BY <2>1, SetEffect
    <2> HIDE DEF w1
    <2> QED BY <1>2, <2>1, <2>2, <2>3, CloseLinkEffect DEF Only
  <1> QED BY <1>1, <1>2, Zenon

(* cancelReplicationHandshake() gives up a handshake and nothing else. *)
LEMMA CancelEffect ==
    ASSUME NEW w, Shaped(w), NEW r \in Servers, NEW w2, w2 = cancelReplicationHandshake(w, r)
    PROVE  /\ Only(w, w2, r, {"state"}) /\ w2.ids = w.ids
           /\ \A t \in Servers \ {r} : w2.link[t] = w.link[t]
           /\ IF w.srv[r].state \in {"psync", "transfer"}
              THEN w2.srv[r].state = "connect" /\ w2.link[r] = NoLink
              ELSE w2.srv[r].state = w.srv[r].state /\ w2.link[r] = w.link[r]
  <1>1. CASE w.srv[r].state \notin {"psync", "transfer"}
    BY <1>1, Zenon DEF cancelReplicationHandshake, Only
  <1>2. CASE w.srv[r].state \in {"psync", "transfer"}
    <2> DEFINE f == [state |-> "connect"]
               w1 == Set(w, r, f)
    <2>1. /\ DOMAIN f = {"state"} /\ DOMAIN f \subseteq Fields /\ "state" \in Fields
          /\ f.state = "connect"
      BY Zenon DEF Fields, Core
    <2>2. w2 = CloseLink(w1, r)
      BY <1>2, Zenon DEF cancelReplicationHandshake
    <2> HIDE DEF f
    <2>3. /\ Shaped(w1) /\ w1.link = w.link /\ w1.disk = w.disk /\ w1.ids = w.ids
          /\ \A t \in Servers \ {r} : w1.srv[t] = w.srv[t]
          /\ \A i \in Fields : w1.srv[r][i] = IF i \in DOMAIN f THEN f[i] ELSE w.srv[r][i]
      BY <2>1, SetEffect
    <2> HIDE DEF w1
    <2> QED BY <1>2, <2>1, <2>2, <2>3, CloseLinkEffect DEF Only
  <1> QED BY <1>1, <1>2, Zenon


(* SetEffect, as a statement on the fields that are not set. *)
LEMMA SetOnly ==
    ASSUME NEW w, Shaped(w), NEW s \in Servers, NEW f, NEW F, F \subseteq Fields, DOMAIN f = F
    PROVE  /\ Only(w, Set(w, s, f), s, F)
           /\ Set(w, s, f).link = w.link /\ Set(w, s, f).ids = w.ids
           /\ \A i \in F : Set(w, s, f).srv[s][i] = f[i]
  BY SetEffect DEF Only

(* What replicationSetMaster() does, with all that it calls. *)
LEMMA SetMasterEffect ==
    ASSUME NEW w, Shaped(w), NEW r \in Servers, NEW h, NEW w2, w2 = replicationSetMaster(w, r, h)
    PROVE  LET v == w.srv[r] IN
           /\ Only(w, w2, r, {"host", "state", "master", "cached"}) /\ w2.ids = w.ids
           /\ \A t \in Servers \ {r} : w2.link[t] = w.link[t]
           /\ w2.link[r] = IF v.master # NoMaster \/ v.state \in {"psync", "transfer"}
                           THEN NoLink ELSE w.link[r]
           /\ w2.srv[r].host = h /\ w2.srv[r].state = "connect" /\ w2.srv[r].master = NoMaster
           /\ w2.srv[r].cached = IF v.host = NoOne THEN [id |-> v.replid, off |-> v.offset]
                                 ELSE IF v.master # NoMaster THEN v.master ELSE v.cached
  <1> DEFINE v  == w.srv[r]
             c1 == replicationCacheMaster(w, r)
             c2 == Set(c1, r, [host |-> h])
             c3 == cancelReplicationHandshake(c2, r)
             c4 == replicationCacheMasterUsingMyself(c3, r)
             c5 == IF v.host = NoOne THEN c4 ELSE c3
             L  == \A t \in Servers \ {r} : w2.link[t] = w.link[t]
  <1>1. w2 = Set(c5, r, [state |-> "connect"])
    BY Zenon DEF replicationSetMaster
  <1>2. /\ Only(w, c1, r, {"cached", "master", "state"}) /\ c1.ids = w.ids
        /\ \A t \in Servers \ {r} : c1.link[t] = w.link[t]
        /\ c1.srv[r].master = NoMaster
        /\ IF v.master = NoMaster
           THEN c1.srv[r].cached = v.cached /\ c1.srv[r].state = v.state /\ c1.link[r] = w.link[r]
           ELSE c1.srv[r].cached = v.master /\ c1.srv[r].state = "connect" /\ c1.link[r] = NoLink
    BY CacheEffect
  <1> HIDE DEF c1
  <1>3. /\ Only(c1, c2, r, {"host"}) /\ c2.link = c1.link /\ c2.ids = c1.ids /\ c2.srv[r].host = h
    <2>1. {"host"} \subseteq Fields /\ DOMAIN [host |-> h] = {"host"} /\ [host |-> h].host = h
      BY Zenon DEF Fields, Core
    <2> QED BY <1>2, <2>1, SetOnly DEF Only
  <1> HIDE DEF c2
  <1>4. /\ Only(c2, c3, r, {"state"}) /\ c3.ids = c2.ids
        /\ \A t \in Servers \ {r} : c3.link[t] = c2.link[t]
        /\ IF c2.srv[r].state \in {"psync", "transfer"}
           THEN c3.srv[r].state = "connect" /\ c3.link[r] = NoLink
           ELSE c3.srv[r].state = c2.srv[r].state /\ c3.link[r] = c2.link[r]
    BY <1>3, CancelEffect DEF Only
  <1> HIDE DEF c3
  <1>5. /\ Only(c3, c4, r, {"cached"}) /\ c4.link = c3.link /\ c4.ids = c3.ids
        /\ c4.srv[r].cached = [id |-> c3.srv[r].replid, off |-> c3.srv[r].offset]
    <2> DEFINE f == [cached |-> [id |-> c3.srv[r].replid, off |-> c3.srv[r].offset]]
    <2>1. /\ {"cached"} \subseteq Fields /\ DOMAIN f = {"cached"}
          /\ f.cached = [id |-> c3.srv[r].replid, off |-> c3.srv[r].offset]
      BY Zenon DEF Fields, Core
    <2>2. c4 = Set(c3, r, f)
      BY Zenon DEF replicationCacheMasterUsingMyself
    <2> HIDE DEF f
    <2> QED BY <1>4, <2>1, <2>2, SetOnly DEF Only
  <1> HIDE DEF c4
  <1>6. /\ Only(c5, w2, r, {"state"}) /\ w2.link = c5.link /\ w2.ids = c5.ids
        /\ w2.srv[r].state = "connect"
    <2>1. /\ {"state"} \subseteq Fields /\ DOMAIN [state |-> "connect"] = {"state"}
          /\ [state |-> "connect"].state = "connect"
      BY Zenon DEF Fields, Core
    <2>2. Shaped(c5)
      BY <1>4, <1>5, Zenon DEF Only
    <2> QED BY <1>1, <2>1, <2>2, SetOnly
  <1>7. "replid" \in Fields /\ "offset" \in Fields /\ "host" \in Fields /\ "cached" \in Fields
        /\ "master" \in Fields /\ "state" \in Fields
    BY Zenon DEF Fields, Core
  <1>8. CASE v.host = NoOne
    BY <1>2, <1>3, <1>4, <1>5, <1>6, <1>7, <1>8 DEF Only
  <1>9. CASE v.host # NoOne
    BY <1>2, <1>3, <1>4, <1>6, <1>7, <1>9 DEF Only
  <1> QED BY <1>8, <1>9, Zenon


(* What replicationUnsetMaster() does, with all that it calls. *)
LEMMA UnsetEffect ==
    ASSUME NEW w, Shaped(w), NEW r \in Servers, w.srv[r].host # NoOne, w.link[r].to # r,
           NEW w2, w2 = replicationUnsetMaster(w, r)
    PROVE  LET v == w.srv[r] IN
           /\ Only(w, w2, r, {"host", "state", "master", "cached", "replid", "replid2", "second"})
           /\ w2.ids = w.ids + 1
           /\ \A t \in Servers \ {r} :
                 w2.link[t] = IF t \in Slaves(w, r) THEN [w.link[t] EXCEPT !.closed = TRUE]
                              ELSE w.link[t]
           /\ w2.link[r] = IF v.master # NoMaster \/ v.state \in {"psync", "transfer"}
                           THEN NoLink ELSE w.link[r]
           /\ w2.srv[r].host = NoOne /\ w2.srv[r].state = "none"
           /\ w2.srv[r].master = NoMaster /\ w2.srv[r].cached = NoMaster
           /\ w2.srv[r].replid = w.ids + 1
           /\ w2.srv[r].replid2 = v.replid /\ w2.srv[r].second = v.offset + 1
  <1> DEFINE v  == w.srv[r]
             c1 == Set(w, r, [host |-> NoOne])
             c2 == replicationCacheMaster(c1, r)
             c3 == replicationDiscardCachedMaster(c2, r)
             c4 == cancelReplicationHandshake(c3, r)
             f5 == [replid2 |-> c4.srv[r].replid, second |-> c4.srv[r].offset + 1]
             c5 == Set(c4, r, f5)
             c6 == changeReplicationId(c5, r)
             c7 == disconnectSlaves(c6, r)
  <1>0. /\ "replid" \in Fields /\ "offset" \in Fields /\ "host" \in Fields /\ "cached" \in Fields
        /\ "master" \in Fields /\ "state" \in Fields /\ "replid2" \in Fields /\ "second" \in Fields
    BY Zenon DEF Fields, Core
  <1>1. w2 = Set(c7, r, [state |-> "none"])
    BY Zenon DEF replicationUnsetMaster, shiftReplicationId
  <1>2. /\ Only(w, c1, r, {"host"}) /\ c1.link = w.link /\ c1.ids = w.ids /\ c1.srv[r].host = NoOne
    <2>1. DOMAIN [host |-> NoOne] = {"host"} /\ [host |-> NoOne].host = NoOne
      BY Zenon
    <2> QED BY <1>0, <2>1, SetOnly DEF Only
  <1> HIDE DEF c1
  <1>3. /\ Only(c1, c2, r, {"cached", "master", "state"}) /\ c2.ids = c1.ids
        /\ \A t \in Servers \ {r} : c2.link[t] = c1.link[t]
        /\ c2.srv[r].master = NoMaster
        /\ IF c1.srv[r].master = NoMaster
           THEN c2.srv[r].state = c1.srv[r].state /\ c2.link[r] = c1.link[r]
           ELSE c2.srv[r].state = "connect" /\ c2.link[r] = NoLink
    BY <1>2, CacheEffect DEF Only
  <1> HIDE DEF c2
  <1>4. /\ Only(c2, c3, r, {"cached"}) /\ c3.link = c2.link /\ c3.ids = c2.ids
        /\ c3.srv[r].cached = NoMaster
    <2>1. DOMAIN [cached |-> NoMaster] = {"cached"} /\ [cached |-> NoMaster].cached = NoMaster
      BY Zenon
    <2> QED BY <1>0, <1>3, <2>1, SetOnly DEF Only, replicationDiscardCachedMaster
  <1> HIDE DEF c3
  <1>5. /\ Only(c3, c4, r, {"state"}) /\ c4.ids = c3.ids
        /\ \A t \in Servers \ {r} : c4.link[t] = c3.link[t]
        /\ IF c3.srv[r].state \in {"psync", "transfer"}
           THEN c4.srv[r].state = "connect" /\ c4.link[r] = NoLink
           ELSE c4.srv[r].state = c3.srv[r].state /\ c4.link[r] = c3.link[r]
    BY <1>4, CancelEffect DEF Only
  <1> HIDE DEF c4
  <1>6. /\ Only(c4, c5, r, {"replid2", "second"}) /\ c5.link = c4.link /\ c5.ids = c4.ids
        /\ c5.srv[r].replid2 = c4.srv[r].replid /\ c5.srv[r].second = c4.srv[r].offset + 1
    <2>1. /\ DOMAIN f5 = {"replid2", "second"}
          /\ f5.replid2 = c4.srv[r].replid /\ f5.second = c4.srv[r].offset + 1
      BY Zenon
    <2> HIDE DEF f5
    <2> QED BY <1>0, <1>5, <2>1, SetOnly DEF Only
  <1> HIDE DEF c5
  <1>7. /\ Only(c5, c6, r, {"replid"}) /\ c6.link = c5.link /\ c6.ids = c5.ids + 1
        /\ c6.srv[r].replid = c5.ids + 1
    BY <1>6, ChangeIdEffect DEF Only
  <1> HIDE DEF c6
  <1>8. /\ Shaped(c7) /\ c7.srv = c6.srv /\ c7.disk = c6.disk /\ c7.ids = c6.ids
        /\ Closed(c6, c7, Slaves(c6, r))
    BY <1>7, DisconnectEffect, Zenon DEF Only
  <1> HIDE DEF c7
  <1>9. /\ Only(c7, w2, r, {"state"}) /\ w2.link = c7.link /\ w2.ids = c7.ids
        /\ w2.srv[r].state = "none"
    <2>1. DOMAIN [state |-> "none"] = {"state"} /\ [state |-> "none"].state = "none"
      BY Zenon
    <2> QED BY <1>0, <1>1, <1>8, <2>1, SetOnly
  <1>10. /\ Shaped(w2) /\ w2.disk = w.disk /\ w2.ids = w.ids + 1
         /\ \A t \in Servers \ {r} : w2.srv[t] = w.srv[t] /\ c6.link[t] = w.link[t]
         /\ c6.link[r] = IF v.master # NoMaster \/ v.state \in {"psync", "transfer"}
                         THEN NoLink ELSE w.link[r]
    BY <1>0, <1>2, <1>3, <1>4, <1>5, <1>6, <1>7, <1>8, <1>9 DEF Only
  <1>11. /\ w2.srv[r].host = NoOne /\ w2.srv[r].master = NoMaster /\ w2.srv[r].cached = NoMaster
         /\ w2.srv[r].replid2 = v.replid /\ w2.srv[r].second = v.offset + 1
         /\ w2.srv[r].replid = w.ids + 1
    BY <1>0, <1>2, <1>3, <1>4, <1>5, <1>6, <1>7, <1>8, <1>9 DEF Only
  <1>12. \A i \in Fields \ {"host", "state", "master", "cached", "replid", "replid2", "second"} :
            w2.srv[r][i] = w.srv[r][i]
    BY <1>0, <1>2, <1>3, <1>4, <1>5, <1>6, <1>7, <1>8, <1>9 DEF Only
  <1>13. c6.link[r].to # r /\ r \notin Slaves(c6, r)
    BY <1>10, NoLinkIsALink, BoundsAssumption, Zenon DEF Slaves
  <1>14. \A t \in Servers \ {r} : t \in Slaves(c6, r) <=> t \in Slaves(w, r)
    BY <1>10, Zenon DEF Slaves
  <1>15. /\ w2.link[r] = c6.link[r]
         /\ \A t \in Servers \ {r} :
               w2.link[t] = IF t \in Slaves(w, r) THEN [w.link[t] EXCEPT !.closed = TRUE]
                            ELSE w.link[t]
    <2>1. \A t \in Servers : w2.link[t] = IF t \in Slaves(c6, r) THEN [c6.link[t] EXCEPT !.closed = TRUE]
                                           ELSE c6.link[t]
      BY <1>8, <1>9, Zenon DEF Closed
    <2> QED BY <1>10, <1>13, <1>14, <2>1, Zenon
  <1> QED BY <1>9, <1>10, <1>11, <1>12, <1>15, Zenon DEF Only

(* clearFailoverState() clears the planned failover and nothing else. *)
LEMMA ClearFailoverEffect ==
    ASSUME NEW w, Shaped(w), NEW s \in Servers, NEW w2, w2 = clearFailoverState(w, s)
    PROVE  /\ Only(w, w2, s, {"failover", "target", "force"}) /\ w2.link = w.link /\ w2.ids = w.ids
           /\ w2.srv[s].failover = "no" /\ w2.srv[s].force = FALSE
  <1> DEFINE f == [failover |-> "no", target |-> NoOne, force |-> FALSE]
  <1>1. /\ DOMAIN f = {"failover", "target", "force"}
        /\ {"failover", "target", "force"} \subseteq Fields
        /\ f.failover = "no" /\ f.force = FALSE
    BY Zenon DEF Fields
  <1>2. w2 = Set(w, s, f)
    BY Zenon DEF clearFailoverState
  <1> HIDE DEF f
  <1> QED BY <1>1, <1>2, SetOnly


-----------------------------------------------------------------------------
(* Steps that leave each history as it is, or continue one at its end. *)

From(w, s, p) ==
    \E t \in Servers : \E q :
        (t = s \/ HasBacklog(w, t)) /\ Point(w, t, q) /\ Below(p, q)

(* A point that stays where it is comes from itself. *)
LEMMA FromItself ==
    ASSUME NEW w, NEW n \in Nat, PointsOk(w, n), NEW s \in Servers, NEW p, Point(w, s, p)
    PROVE  From(w, s, p)
  BY PointsAreSound, BelowItself, Zenon DEF From

(* A master that stays one under its ID. *)
StaysMaster(v, v2) ==
    /\ v.host = NoOne /\ v2.replid = v.replid /\ v.offset <= v2.offset
    /\ v.backlog # NoBacklog => v2.backlog # NoBacklog

(* A server that stays alone with its ID. *)
StaysAlone(w, w2, r) ==
    /\ Alone(w.srv[r]) /\ w2.srv[r].replid = w.srv[r].replid
    /\ Arriving(w2.srv[r], w2.link[r]) =>
          LET id == Coming(w2.srv[r], w2.link[r]).id IN
          \/ Arriving(w.srv[r], w.link[r]) /\ id = Coming(w.srv[r], w.link[r]).id
          \/ \E t \in Servers \ {r} : \E q : Point(w, t, q) /\ id = q.id
          \/ id > w.ids

GetsAlone(w, w2, r) ==
    /\ ~HasBacklog(w, r) /\ ~Arriving(w2.srv[r], w2.link[r])
    /\ \A t \in Servers \ {r} : \A q : Point(w, t, q) => q.id # w2.srv[r].replid

(* N: the new end of a history, if there is one. *)
NewEnd(w, w2, n2, N) ==
    /\ \A p, q \in N : p = q
    /\ \A p \in N :
          /\ p.id \in 1 .. w2.ids /\ p.off <= n2
          /\ \A t \in Servers : \A q : Point(w, t, q) /\ q.id = p.id => Below(q, p)
          /\ \A m \in Servers : w2.srv[m].host = NoOne /\ w2.srv[m].replid = p.id =>
                HasBacklog(w2, m) /\ p.off <= w2.srv[m].offset
          /\ \A r, s \in Servers :
                Alone(w2.srv[r]) /\ s # r /\ Point(w2, s, p) => p.id # w2.srv[r].replid

PointsFrom(w, w2, s, N) ==
    \A p : Point(w2, s, p) => Sound(p) /\ (From(w, s, p) \/ p \in N)

MasterKept(w, w2, m, a) ==
    w2.srv[m].host = NoOne =>
        \/ StaysMaster(w.srv[m], w2.srv[m])
        \/ m = a /\ w2.srv[m].replid > w.ids

AloneKept(w, w2, r) ==
    Alone(w2.srv[r]) =>
        /\ w2.link[r].answer.type # "continue"
        /\ StaysAlone(w, w2, r) \/ GetsAlone(w, w2, r)

Numbered(w, n) ==
    \A s \in Servers : w.srv[s].replid \in 1 .. w.ids /\ w.srv[s].offset \in 0 .. n

(* Points that come from earlier points, or from the one new end, keep the histories
   consistent. *)
LEMMA Evolution ==
    ASSUME NEW w, NEW w2, NEW n \in Nat, NEW n2 \in Nat, n <= n2,
           w.ids \in Nat, w2.ids \in Nat, w.ids <= w2.ids, Histories(w, n),
           Numbered(w, n), Numbered(w2, n2),
           NEW a \in Servers, NEW N, NewEnd(w, w2, n2, N),
           \A s \in Servers : PointsFrom(w, w2, s, N),
           \A s \in Servers : MasterKept(w, w2, s, a),
           \A s \in Servers : AloneKept(w, w2, s)
    PROVE  Histories(w2, n2)
  <1>0. /\ \A s \in Servers : /\ w.srv[s].replid \in Nat /\ w.srv[s].replid <= w.ids
                              /\ w.srv[s].offset \in Nat /\ w2.srv[s].offset \in Nat
                              /\ w2.srv[s].replid \in Nat
    BY DEF Numbered
  <1>1. PointsOk(w, n) /\ Consistent(w) /\ Frontier(w) /\ OneMaster(w) /\ Private(w)
    BY Zenon DEF Histories
  <1>2. ASSUME NEW s \in Servers, NEW p, From(w, s, p)
        PROVE  \E t \in Servers : \E q : /\ t = s \/ HasBacklog(w, t)
                                         /\ Point(w, t, q) /\ Below(p, q) /\ Sound(q)
                                         /\ q.id <= w.ids /\ q.id \in Nat \ {0} /\ q.off <= n
    BY <1>1, <1>2, PointsAreSound, Zenon DEF From
  <1>3. PointsOk(w2, n2)
    <2> SUFFICES ASSUME NEW s \in Servers, NEW p, Point(w2, s, p)
                 PROVE  p.id \in 1 .. w2.ids /\ p.off \in 0 .. n2 /\ p.data \in Data
      BY Zenon DEF PointsOk
    <2>1. Sound(p) /\ (From(w, s, p) \/ p \in N)
      BY Zenon DEF PointsFrom
    <2>2. CASE p \in N
      BY <2>1, <2>2 DEF Sound, NewEnd
    <2>3. CASE From(w, s, p)
      <3>1. PICK q : Below(p, q) /\ Sound(q) /\ q.id <= w.ids /\ q.id \in Nat \ {0} /\ q.off <= n
        BY <1>2, <2>3, Zenon
      <3>2. p.id = q.id /\ p.off <= q.off /\ p.off \in Nat /\ q.off \in Nat /\ p.data \in Data
        BY <2>1, <3>1, Zenon DEF Below, Sound
      <3> QED BY <3>1, <3>2
    <2> QED BY <2>1, <2>2, <2>3, Zenon
  <1>4. Consistent(w2)
    <2> SUFFICES ASSUME NEW s \in Servers, NEW t \in Servers, NEW p, NEW q,
                        Point(w2, s, p), Point(w2, t, q), p.id = q.id
                 PROVE  Agree(p, q)
      BY Zenon DEF Consistent
    <2>1. /\ Sound(p) /\ (From(w, s, p) \/ p \in N)
          /\ Sound(q) /\ (From(w, t, q) \/ q \in N)
      BY Zenon DEF PointsFrom
    <2>2. ASSUME NEW x, NEW y, NEW z \in Servers, x \in N, From(w, z, y), x.id = y.id,
                 Sound(x), Sound(y)
          PROVE  Below(y, x)
      <3>1. PICK u, o : u \in Servers /\ Point(w, u, o) /\ Below(y, o) /\ Sound(o)
        BY <1>2, <2>2, Zenon
      <3>2. Below(o, x)
        BY <2>2, <3>1, Zenon DEF Below, NewEnd
      <3> QED BY <2>2, <3>1, <3>2, BelowTransitive, Zenon
    <2>3. CASE p \in N /\ q \in N
      BY <2>1, <2>3, BelowItself, Zenon DEF Below, NewEnd
    <2>4. CASE p \in N /\ From(w, t, q)
      BY <2>1, <2>2, <2>4, BelowItself, BelowBoth, Zenon DEF Below
    <2>5. CASE q \in N /\ From(w, s, p)
      BY <2>1, <2>2, <2>5, Zenon DEF Below
    <2>6. CASE From(w, s, p) /\ From(w, t, q)
      <3>1. PICK u, o : u \in Servers /\ Point(w, u, o) /\ Below(p, o) /\ Sound(o)
        BY <1>2, <2>6, Zenon
      <3>2. PICK y, x : y \in Servers /\ Point(w, y, x) /\ Below(q, x) /\ Sound(x)
        BY <1>2, <2>6, Zenon
      <3>3. Agree(o, x)
        BY <1>1, <3>1, <3>2, Zenon DEF Consistent, Below
      <3> QED BY <2>1, <3>1, <3>2, <3>3, BelowBoth, Zenon
    <2> QED BY <2>1, <2>3, <2>4, <2>5, <2>6, Zenon
  <1>5. Frontier(w2)
    <2> SUFFICES ASSUME NEW m \in Servers, NEW s \in Servers, NEW p,
                        w2.srv[m].host = NoOne, Point(w2, s, p), p.id = w2.srv[m].replid
                 PROVE  HasBacklog(w2, m) /\ p.off <= w2.srv[m].offset
      BY Zenon DEF Frontier
    <2>1. CASE p \in N
      BY <2>1, Zenon DEF NewEnd
    <2>2. CASE From(w, s, p)
      <3>1. PICK t, q : /\ t \in Servers /\ Point(w, t, q) /\ Below(p, q) /\ Sound(q)
                        /\ q.id <= w.ids /\ q.id \in Nat
        BY <1>2, <2>2, Zenon
      <3>2. p.id = q.id /\ p.off <= q.off /\ q.off \in Nat /\ p.off \in Nat
        BY <3>1, Zenon DEF Below, Sound, PointsFrom
      <3>3. StaysMaster(w.srv[m], w2.srv[m])
        <4>1. \A i, k \in Nat : i <= k => ~(i > k)
          OBVIOUS
        <4>2. w2.srv[m].replid \in Nat /\ w2.srv[m].replid <= w.ids
          BY <3>1, <3>2, Zenon
        <4> QED BY <4>1, <4>2, Zenon DEF MasterKept
      <3>4. HasBacklog(w, m) /\ q.off <= w.srv[m].offset
        BY <1>1, <3>1, <3>2, <3>3, Zenon DEF Frontier, StaysMaster
      <3>5. HasBacklog(w2, m) /\ w.srv[m].offset <= w2.srv[m].offset
        BY <3>3, <3>4, Zenon DEF StaysMaster, HasBacklog
      <3>6. w.srv[m].offset \in Nat /\ w2.srv[m].offset \in Nat
        BY <1>0, Zenon
      <3> QED BY <3>2, <3>4, <3>5, <3>6
    <2> QED BY <2>1, <2>2, Zenon DEF PointsFrom
  <1>6. OneMaster(w2)
    <2> SUFFICES ASSUME NEW m \in Servers, NEW o \in Servers, w2.srv[m].host = NoOne,
                        w2.srv[o].host = NoOne, w2.srv[m].replid = w2.srv[o].replid
                 PROVE  m = o
      BY Zenon DEF OneMaster
    <2>1. w.srv[m].replid <= w.ids /\ w.srv[o].replid <= w.ids
          /\ w.srv[m].replid \in Nat /\ w.srv[o].replid \in Nat
      BY <1>0, Zenon
    <2>2. CASE StaysMaster(w.srv[m], w2.srv[m]) /\ StaysMaster(w.srv[o], w2.srv[o])
      BY <1>1, <2>2, Zenon DEF OneMaster, StaysMaster
    <2>3. CASE ~StaysMaster(w.srv[m], w2.srv[m]) \/ ~StaysMaster(w.srv[o], w2.srv[o])
      <3>1. w2.srv[m].replid \in Nat /\ w2.srv[m].replid > w.ids
        BY <1>0, <2>3, Zenon DEF MasterKept
      <3>2. ~StaysMaster(w.srv[m], w2.srv[m]) /\ ~StaysMaster(w.srv[o], w2.srv[o])
        BY <2>1, <3>1 DEF StaysMaster
      <3> QED BY <3>2, Zenon DEF MasterKept
    <2> QED BY <2>2, <2>3, Zenon
  <1>7. Private(w2)
    <2> SUFFICES ASSUME NEW r \in Servers, Alone(w2.srv[r])
                 PROVE  /\ Arriving(w2.srv[r], w2.link[r]) =>
                              Coming(w2.srv[r], w2.link[r]).id # w2.srv[r].replid
                        /\ \A s \in Servers \ {r} : \A p : Point(w2, s, p) => p.id # w2.srv[r].replid
      BY Zenon DEF Private, AloneKept
    <2>1. CASE StaysAlone(w, w2, r)
      <3>1. /\ Alone(w.srv[r]) /\ ~HasBacklog(w, r)
            /\ w2.srv[r].replid = w.srv[r].replid /\ w.srv[r].replid \in 1 .. w.ids
        BY <2>1, Zenon DEF StaysAlone, Alone, HasBacklog, Numbered
      <3>2. /\ Arriving(w.srv[r], w.link[r]) => Coming(w.srv[r], w.link[r]).id # w.srv[r].replid
            /\ \A s \in Servers \ {r} : \A p : Point(w, s, p) => p.id # w.srv[r].replid
        BY <1>1, <3>1, Zenon DEF Private
      <3>3. ASSUME Arriving(w2.srv[r], w2.link[r])
            PROVE  Coming(w2.srv[r], w2.link[r]).id # w2.srv[r].replid
        BY <2>1, <3>1, <3>2, <3>3 DEF StaysAlone
      <3>4. ASSUME NEW s \in Servers \ {r}, NEW p, Point(w2, s, p) PROVE p.id # w2.srv[r].replid
        <4>1. CASE p \in N
          BY <3>4, <4>1, Zenon DEF NewEnd
        <4>2. CASE From(w, s, p)
          <5>1. PICK t, q : /\ t \in Servers /\ (t = s \/ HasBacklog(w, t))
                            /\ Point(w, t, q) /\ Below(p, q)
            BY <4>2, Zenon DEF From
          <5> QED BY <3>1, <3>2, <5>1, Zenon DEF Below
        <4> QED BY <3>4, <4>1, <4>2, Zenon DEF PointsFrom
      <3> QED BY <3>3, <3>4, Zenon
    <2>2. CASE GetsAlone(w, w2, r)
      <3>1. ASSUME NEW s \in Servers \ {r}, NEW p, Point(w2, s, p) PROVE p.id # w2.srv[r].replid
        <4>1. CASE p \in N
          BY <3>1, <4>1 DEF NewEnd
        <4>2. CASE From(w, s, p)
          <5>1. PICK t, q : /\ t \in Servers /\ (t = s \/ HasBacklog(w, t))
                            /\ Point(w, t, q) /\ Below(p, q)
            BY <4>2 DEF From
          <5> QED BY <2>2, <5>1, Zenon DEF Below, GetsAlone
        <4> QED BY <3>1, <4>1, <4>2 DEF PointsFrom
      <3> QED BY <2>2, <3>1, Zenon DEF GetsAlone
    <2> QED BY <2>1, <2>2, Zenon DEF AloneKept
  <1> QED BY <1>3, <1>4, <1>5, <1>6, <1>7, Zenon DEF Histories


-----------------------------------------------------------------------------
(* Servers that a step leaves alone, but for closing their connection. *)

Aside(v, v2) ==
    \/ v2.failover = v.failover /\ v2.target = v.target /\ v2.force = v.force
    \/ v2.failover = "no" /\ v2.force = FALSE

LinkKept(l, l2) == l2 = l \/ (l.to # NoOne /\ l2 = [l EXCEPT !.closed = TRUE])

Untouched(w, w2, s) ==
    /\ \A i \in Core : w2.srv[s][i] = w.srv[s][i]
    /\ LinkKept(w.link[s], w2.link[s]) /\ w2.disk[s] = w.disk[s]

(* A connection that is kept, or closed, carries the same answer and stream. *)
LEMMA LinkKeptFacts ==
    ASSUME NEW l \in Links, NEW l2, LinkKept(l, l2)
    PROVE  /\ l2 \in Links /\ l2.to = l.to /\ l2.phase = l.phase /\ l2.answer = l.answer
           /\ l2.stream = l.stream /\ (~l2.closed => ~l.closed)
           /\ l.to = NoOne => l2 = l
  BY Zenon DEF LinkKept, Links

(* Servers that agree on their core fields have the same points. *)
LEMMA CoreSame ==
    ASSUME NEW v, NEW v2, \A i \in Core : v2[i] = v[i]
    PROVE  /\ v2.host = v.host /\ v2.state = v.state /\ v2.data = v.data /\ v2.replid = v.replid
           /\ v2.replid2 = v.replid2 /\ v2.second = v.second /\ v2.offset = v.offset
           /\ v2.backlog = v.backlog /\ v2.master = v.master /\ v2.cached = v.cached
           /\ v2.initial = v.initial /\ v2.bgsave = v.bgsave
  BY Zenon DEF Core

(* A server that is not touched keeps its points. *)
LEMMA ViewsKept ==
    ASSUME NEW v, NEW v2, \A i \in Core : v2[i] = v[i],
           NEW l \in Links, NEW l2, LinkKept(l, l2)
    PROVE  /\ Known(v2) <=> Known(v)
           /\ Here(v2) = Here(v) /\ Second(v2) = Second(v) /\ (HasSecond(v2) <=> HasSecond(v))
           /\ Arriving(v2, l2) <=> Arriving(v, l)
           /\ Coming(v2, l2) = Coming(v, l)
           /\ Alone(v2) <=> Alone(v)
           /\ \A p, f : IsPoint(p, v2, l2, f) <=> IsPoint(p, v, l, f)
  <1>1. /\ v2.host = v.host /\ v2.state = v.state /\ v2.data = v.data /\ v2.replid = v.replid
        /\ v2.replid2 = v.replid2 /\ v2.second = v.second /\ v2.offset = v.offset
        /\ v2.backlog = v.backlog /\ v2.master = v.master /\ v2.cached = v.cached
        /\ v2.initial = v.initial /\ v2.bgsave = v.bgsave
    BY CoreSame, Zenon
  <1>2. l2.answer = l.answer /\ l2.stream = l.stream
    BY LinkKeptFacts, Zenon
  <1>3. /\ Known(v2) <=> Known(v)
        /\ Here(v2) = Here(v) /\ Second(v2) = Second(v) /\ (HasSecond(v2) <=> HasSecond(v))
        /\ Alone(v2) <=> Alone(v)
    BY <1>1, Zenon DEF Known, Here, Second, HasSecond, Alone
  <1>4. Arriving(v2, l2) <=> Arriving(v, l)
    BY <1>1, <1>2, Zenon DEF Arriving
  <1>5. Coming(v2, l2) = Coming(v, l)
    BY <1>1, <1>2, Zenon DEF Coming
  <1>6. \A p, f : IsPoint(p, v2, l2, f) <=> IsPoint(p, v, l, f)
    BY <1>1, <1>3, <1>4, <1>5, Zenon DEF IsPoint
  <1> QED BY <1>3, <1>4, <1>5, <1>6, Zenon

(* A server that is not touched keeps its part of the invariant. *)
LEMMA UntouchedKeeps ==
    ASSUME NEW w, NEW n \in Nat, Inv(w, n), NEW w2, NEW n2 \in Nat, n <= n2, w2.ids \in Nat,
           w.ids <= w2.ids, NEW s \in Servers, Untouched(w, w2, s)
    PROVE  /\ ServerOk(w2.srv[s], s, w2.ids, n2) /\ LinkOk(w2.srv[s], w2.link[s])
           /\ \A p : Point(w2, s, p) <=> Point(w, s, p)
           /\ HasBacklog(w2, s) <=> HasBacklog(w, s)
           /\ Here(w2.srv[s]) = Here(w.srv[s])
           /\ Alone(w2.srv[s]) <=> Alone(w.srv[s])
           /\ w2.srv[s].replid = w.srv[s].replid /\ w2.srv[s].offset = w.srv[s].offset
           /\ w2.srv[s].host = w.srv[s].host /\ w2.srv[s].state = w.srv[s].state
           /\ w2.link[s].to = w.link[s].to /\ w2.link[s].phase = w.link[s].phase
           /\ w2.link[s].answer = w.link[s].answer
           /\ ~w2.link[s].closed => ~w.link[s].closed
           /\ Coming(w2.srv[s], w2.link[s]) = Coming(w.srv[s], w.link[s])
           /\ Arriving(w2.srv[s], w2.link[s]) <=> Arriving(w.srv[s], w.link[s])
  <1> DEFINE v == w.srv[s]
             v2 == w2.srv[s]
             l == w.link[s]
             l2 == w2.link[s]
  <1>1. ServerOk(v, s, w.ids, n) /\ LinkOk(v, l) /\ l \in Links /\ w.ids \in Nat
    BY InvFacts, Zenon
  <1>2. (\A i \in Core : v2[i] = v[i]) /\ LinkKept(l, l2) /\ w2.disk[s] = w.disk[s]
    BY Zenon DEF Untouched
  <1> HIDE DEF v, v2, l, l2
  <1>3. /\ v2.host = v.host /\ v2.state = v.state /\ v2.data = v.data /\ v2.replid = v.replid
        /\ v2.replid2 = v.replid2 /\ v2.second = v.second /\ v2.offset = v.offset
        /\ v2.backlog = v.backlog /\ v2.master = v.master /\ v2.cached = v.cached
        /\ v2.initial = v.initial /\ v2.bgsave = v.bgsave
    BY <1>2, CoreSame, Zenon
  <1>4. /\ l2 \in Links /\ l2.to = l.to /\ l2.phase = l.phase /\ l2.answer = l.answer
        /\ l2.stream = l.stream /\ (~l2.closed => ~l.closed)
        /\ l.to = NoOne => l2 = l
    BY <1>1, <1>2, LinkKeptFacts, Zenon
  <1>5. /\ Known(v2) <=> Known(v)
        /\ Here(v2) = Here(v) /\ (HasSecond(v2) <=> HasSecond(v))
        /\ Arriving(v2, l2) <=> Arriving(v, l)
        /\ Coming(v2, l2) = Coming(v, l)
        /\ Alone(v2) <=> Alone(v)
        /\ \A p, f : IsPoint(p, v2, l2, f) <=> IsPoint(p, v, l, f)
    BY <1>1, <1>2, ViewsKept, Zenon
  <1>6. ServerOk(v2, s, w2.ids, n2)
    <2>1. v.replid \in 1 .. w2.ids /\ v.replid2 \in 0 .. w2.ids /\ v.offset \in 0 .. n2
      BY <1>1 DEF ServerOk, ServerTypes
    <2>2. ServerTypes(v2, s, w2.ids, n2)
      BY <1>1, <1>3, <2>1, Zenon DEF ServerOk, ServerTypes
    <2>3. ServerRole(v2)
      BY <1>1, <1>3, Zenon DEF ServerOk, ServerRole
    <2>4. ServerLog(v2)
      BY <1>1, <1>3, <1>5, Zenon DEF ServerOk, ServerLog
    <2> QED BY <2>2, <2>3, <2>4, Zenon DEF ServerOk
  <1>7. LinkOk(v2, l2)
    <2>1. v.state \in {"none", "connect"} => l2 = l
      BY <1>1, <1>4, NoLinkIsALink, Zenon DEF LinkOk
    <2> QED BY <1>1, <1>3, <1>4, <2>1 DEF LinkOk
  <1> QED BY <1>2, <1>3, <1>4, <1>5, <1>6, <1>7, Zenon DEF v, v2, l, l2, Point, HasBacklog


(* A connection that is not touched is a slave's after the step only if it was before. *)
LEMMA SlaveKept ==
    ASSUME NEW w, NEW n \in Nat, Inv(w, n), NEW w2, w2.ids \in Nat, w.ids <= w2.ids,
           NEW m \in Servers, NEW r \in Slaves(w2, m), Untouched(w, w2, r)
    PROVE  /\ r \in Slaves(w, m)
           /\ HasBacklog(w2, m) /\ Here(w2.srv[m]) = Here(w.srv[m]) => SlaveOk(w2, m, r)
  <1>0. r \in Servers
    BY Zenon DEF Slaves
  <1>1. /\ w2.link[r].to = w.link[r].to /\ w2.link[r].phase = w.link[r].phase
        /\ w2.link[r].answer = w.link[r].answer
        /\ ~w2.link[r].closed => ~w.link[r].closed
        /\ Coming(w2.srv[r], w2.link[r]) = Coming(w.srv[r], w.link[r])
    BY <1>0, UntouchedKeeps
  <1>2. r \in Slaves(w, m)
    BY <1>1, Zenon DEF Slaves
  <1>3. SlaveOk(w, m, r)
    BY <1>2, Zenon DEF Inv, SlavesOk
  <1> QED BY <1>1, <1>2, <1>3, Zenon DEF SlaveOk

(* A step of server a that at most closes connections of other servers. *)
SlavesStay(w, w2, a) ==
    Slaves(w2, a) # {} => HasBacklog(w2, a) /\ Here(w2.srv[a]) = Here(w.srv[a])

StaysSlave(w, w2, a) ==
    \A m \in Servers \ {a} : a \in Slaves(w2, m) =>
        /\ HasBacklog(w, m)
        /\ w2.link[a].phase \in {"end", "online"} =>
              Coming(w2.srv[a], w2.link[a]) = Here(w.srv[m])
        /\ w2.link[a].phase = "end" => w2.link[a].answer.type \in {"fullresync", "rdb"}

OwnEnd(w, w2, a, N) ==
    /\ N \subseteq {Here(w2.srv[a])}
    /\ \A p \in N : /\ w2.srv[a].host = NoOne => HasBacklog(w2, a)
                    /\ \A t \in Servers : \A q : Point(w, t, q) /\ q.id = p.id => Below(q, p)
                    /\ \A m \in Servers \ {a} : w.srv[m].host = NoOne => p.id # w.srv[m].replid
                    /\ \A r \in Servers \ {a} : Alone(w.srv[r]) => p.id # w.srv[r].replid

OthersStay(w, w2, a) == \A s \in Servers \ {a} : Untouched(w, w2, s)

TargetsOk(w2) == \A s \in Servers : TargetOk(w2.srv[s], s)

(* A step that touches one server keeps the invariant if that server's part is kept. *)
LEMMA StepOfOne ==
    ASSUME NEW w, NEW n \in Nat, Inv(w, n), NEW w2, Shaped(w2), w.ids <= w2.ids,
           NEW a \in Servers, OthersStay(w, w2, a), TargetsOk(w2),
           ServerOk(w2.srv[a], a, w2.ids, n), LinkOk(w2.srv[a], w2.link[a]),
           SlavesStay(w, w2, a), StaysSlave(w, w2, a), NEW N, OwnEnd(w, w2, a, N),
           PointsFrom(w, w2, a, N), MasterKept(w, w2, a, a), AloneKept(w, w2, a)
    PROVE  Inv(w2, n)
  <1>1. Histories(w, n) /\ w.ids \in Nat /\ w2.ids \in Nat
    BY Zenon DEF Inv, Shaped
  <1>2. ASSUME NEW s \in Servers \ {a}
        PROVE  /\ ServerOk(w2.srv[s], s, w2.ids, n) /\ LinkOk(w2.srv[s], w2.link[s])
               /\ \A p : Point(w2, s, p) <=> Point(w, s, p)
               /\ HasBacklog(w2, s) <=> HasBacklog(w, s)
               /\ Here(w2.srv[s]) = Here(w.srv[s])
               /\ Alone(w2.srv[s]) <=> Alone(w.srv[s])
               /\ w2.srv[s].replid = w.srv[s].replid /\ w2.srv[s].offset = w.srv[s].offset
               /\ w2.srv[s].host = w.srv[s].host
               /\ w2.link[s].answer = w.link[s].answer
               /\ Coming(w2.srv[s], w2.link[s]) = Coming(w.srv[s], w.link[s])
               /\ Arriving(w2.srv[s], w2.link[s]) <=> Arriving(w.srv[s], w.link[s])
    <2>1. Untouched(w, w2, s) /\ s \in Servers
      BY Zenon DEF OthersStay
    <2>2. n <= n
      OBVIOUS
    <2> QED BY <1>1, <2>1, <2>2, UntouchedKeeps
  <1>3. SlavesOk(w2)
    <2> SUFFICES ASSUME NEW m \in Servers, NEW r \in Slaves(w2, m)
                 PROVE  SlaveOk(w2, m, r)
      BY Zenon DEF SlavesOk
    <2>0. r \in Servers
      BY Zenon DEF Slaves
    <2>1. CASE r # a
      <3>1. /\ r \in Slaves(w, m)
            /\ HasBacklog(w2, m) /\ Here(w2.srv[m]) = Here(w.srv[m]) => SlaveOk(w2, m, r)
        BY <1>1, <2>0, <2>1, SlaveKept, Zenon DEF OthersStay
      <3>2. HasBacklog(w2, m) /\ Here(w2.srv[m]) = Here(w.srv[m])
        <4>1. CASE m = a
          BY <4>1, Zenon DEF SlavesStay
        <4>2. CASE m # a
          <5>1. HasBacklog(w, m)
            BY <3>1, Zenon DEF Inv, SlavesOk, SlaveOk
          <5> QED BY <1>2, <4>2, <5>1, Zenon
        <4> QED BY <4>1, <4>2, Zenon
      <3> QED BY <3>1, <3>2, Zenon
    <2>2. CASE r = a
      <3>1. m # a
        <4>1. w2.link[a].to = m /\ m # NoOne
          BY <2>2, BoundsAssumption, Zenon DEF Slaves
        <4>2. w2.link[a].to # NoLink.to
          BY <4>1, NoLinkIsALink, Zenon
        <4>3. w2.link[a].to = w2.srv[a].host
          BY <4>2, Zenon DEF LinkOk
        <4> QED BY <4>1, <4>3, Zenon DEF ServerOk, ServerTypes
      <3>2. HasBacklog(w2, m) /\ Here(w2.srv[m]) = Here(w.srv[m])
        BY <1>2, <2>2, <3>1, Zenon DEF StaysSlave
      <3> QED BY <2>2, <3>1, <3>2, Zenon DEF SlaveOk, StaysSlave
    <2> QED BY <2>1, <2>2, Zenon
  <1>4. Numbered(w, n) /\ Numbered(w2, n)
    <2>1. \A s \in Servers : ServerOk(w.srv[s], s, w.ids, n)
      BY InvFacts, Zenon
    <2>2. \A s \in Servers : ServerOk(w2.srv[s], s, w2.ids, n)
      BY <1>2, Zenon
    <2> QED BY <1>1, <2>1, <2>2, ServerNumbers, Zenon DEF Numbered
  <1>5. NewEnd(w, w2, n, N)
    <2>1. ASSUME NEW p \in N
          PROVE  /\ p.id \in 1 .. w2.ids /\ p.off <= n
                 /\ \A t \in Servers : \A q : Point(w, t, q) /\ q.id = p.id => Below(q, p)
                 /\ \A m \in Servers :
                       w2.srv[m].host = NoOne /\ w2.srv[m].replid = p.id =>
                           HasBacklog(w2, m) /\ p.off <= w2.srv[m].offset
                 /\ \A r, s \in Servers :
                       Alone(w2.srv[r]) /\ s # r /\ Point(w2, s, p) => p.id # w2.srv[r].replid
      <3>1. w2.srv[a].replid \in 1 .. w2.ids /\ w2.srv[a].offset \in Nat /\ w2.srv[a].offset <= n
        BY <1>1, ServerNumbers, Zenon
      <3>2. p.id = w2.srv[a].replid /\ p.off = w2.srv[a].offset
        BY DEF OwnEnd, Here, Pt
      <3>3. ASSUME NEW m \in Servers, w2.srv[m].host = NoOne, w2.srv[m].replid = p.id
            PROVE  HasBacklog(w2, m) /\ p.off <= w2.srv[m].offset
        <4>1. m = a
          BY <1>2, <3>3 DEF OwnEnd
        <4> QED BY <3>1, <3>2, <3>3, <4>1 DEF OwnEnd
      <3>4. ASSUME NEW r \in Servers, NEW s \in Servers, Alone(w2.srv[r]), s # r, Point(w2, s, p)
            PROVE  p.id # w2.srv[r].replid
        <4>1. CASE r # a
          BY <1>2, <3>4, <4>1 DEF OwnEnd
        <4>2. CASE r = a
          <5>1. Point(w, s, p)
            BY <1>2, <3>4, <4>2, Zenon
          <5>2. CASE GetsAlone(w, w2, a)
            BY <3>4, <4>2, <5>1, <5>2, Zenon DEF GetsAlone
          <5>3. CASE StaysAlone(w, w2, a)
            <6>1. \A x \in Servers \ {a} : \A y : Point(w, x, y) => y.id # w.srv[a].replid
              BY <1>1, <5>3, Zenon DEF StaysAlone, Histories, Private
            <6> QED BY <3>4, <4>2, <5>1, <5>3, <6>1, Zenon DEF StaysAlone
          <5> QED BY <3>4, <4>2, <5>2, <5>3, Zenon DEF AloneKept
        <4> QED BY <4>1, <4>2, Zenon
      <3>5. \A t \in Servers : \A q : Point(w, t, q) /\ q.id = p.id => Below(q, p)
        BY Zenon DEF OwnEnd
      <3> QED BY <3>1, <3>2, <3>3, <3>4, <3>5, Zenon
    <2>2. \A p, q \in N : p = q
      BY Zenon DEF OwnEnd
    <2> QED BY <2>1, <2>2, Zenon DEF NewEnd
  <1>6. ASSUME NEW s \in Servers PROVE PointsFrom(w, w2, s, N)
    <2>1. CASE s # a
      <3>1. \A p : Point(w2, s, p) <=> Point(w, s, p)
        BY <1>2, <2>1, Zenon
      <3> QED BY <1>1, <3>1, FromItself, PointsAreSound, Zenon DEF Histories, PointsFrom
    <2> QED BY <2>1, Zenon
  <1>7. ASSUME NEW m \in Servers PROVE MasterKept(w, w2, m, a)
    <2>1. CASE m # a
      <3>1. w.srv[m].offset <= w2.srv[m].offset
        BY <1>2, <1>4, <2>1 DEF Numbered
      <3> QED BY <1>2, <2>1, <3>1, Zenon DEF StaysMaster, HasBacklog, MasterKept
    <2> QED BY <2>1, Zenon
  <1>8. ASSUME NEW r \in Servers PROVE AloneKept(w, w2, r)
    <2>1. CASE r # a
      <3> SUFFICES ASSUME Alone(w2.srv[r])
                   PROVE  w2.link[r].answer.type # "continue" /\ StaysAlone(w, w2, r)
        BY Zenon DEF AloneKept
      <3>1. Alone(w.srv[r])
        BY <1>2, <2>1, Zenon
      <3>2. w.link[r].answer.type # "continue"
        BY <1>1, <3>1, Zenon DEF Histories, Private
      <3> QED BY <1>2, <2>1, <3>1, <3>2, Zenon DEF StaysAlone
    <2> QED BY <2>1, Zenon
  <1>9. n <= n
    OBVIOUS
  <1>10. Histories(w2, n)
    BY <1>1, <1>4, <1>5, <1>6, <1>7, <1>8, <1>9, Evolution, Zenon
  <1> QED BY <1>2, <1>3, <1>10, Zenon DEF Inv, TargetsOk


(* A server that keeps its failover's target keeps TargetOk. *)
LEMMA TargetsKept ==
    ASSUME NEW w, NEW n \in Nat, Inv(w, n), NEW w2, NEW a \in Servers,
           \A t \in Servers \ {a} : w2.srv[t] = w.srv[t],
           w2.srv[a].target = w.srv[a].target, w2.srv[a].force = w.srv[a].force
    PROVE  TargetsOk(w2)
  <1>1. \A t \in Servers : TargetOk(w.srv[t], t)
    BY Zenon DEF Inv
  <1>2. TargetOk(w2.srv[a], a)
    BY <1>1, Zenon DEF TargetOk
  <1> QED BY <1>1, <1>2, Zenon DEF TargetsOk

(* A step without a new point needs no new end. *)
LEMMA NoEnd ==
    ASSUME NEW w, NEW w2, NEW a
    PROVE  OwnEnd(w, w2, a, {})
  BY Zenon DEF OwnEnd

(* A server that draws an ID may be its new end. *)
LEMMA FreshEnd ==
    ASSUME NEW w, NEW n \in Nat, Inv(w, n), NEW w2, NEW a \in Servers, HasBacklog(w2, a),
           w2.srv[a].replid \in Nat, w2.srv[a].replid > w.ids
    PROVE  OwnEnd(w, w2, a, {Here(w2.srv[a])})
  <1>1. PointsOk(w, n) /\ w.ids \in Nat
    BY InvFacts, Zenon DEF Histories
  <1>2. Here(w2.srv[a]).id = w2.srv[a].replid
    BY Zenon DEF Here, Pt
  <1>3. ASSUME NEW t \in Servers, NEW q, Point(w, t, q) PROVE q.id # w2.srv[a].replid
    <2>1. q.id \in Nat /\ q.id <= w.ids
      BY <1>1, <1>3, PointsAreSound, Zenon
    <2> QED BY <1>1, <2>1
  <1>4. ASSUME NEW m \in Servers PROVE w2.srv[a].replid # w.srv[m].replid
    <2>1. w.srv[m].replid \in 1 .. w.ids
      BY <1>1, InvFacts, ServerNumbers, Zenon
    <2> QED BY <1>1, <2>1
  <1> QED BY <1>2, <1>3, <1>4, Zenon DEF OwnEnd

(* A point of a server with a backlog may be taken over by another. *)
LEMMA OldPoint ==
    ASSUME NEW w, NEW n \in Nat, Inv(w, n), NEW s \in Servers, NEW t \in Servers, NEW p,
           Point(w, t, p), t = s \/ HasBacklog(w, t)
    PROVE  Sound(p) /\ From(w, s, p)
  <1>1. PointsOk(w, n)
    BY InvFacts, Zenon DEF Histories
  <1> QED BY <1>1, PointsAreSound, BelowItself, Zenon DEF From

(* A server without a connection is nobody's slave. *)
LEMMA NoLinkNoSlave ==
    ASSUME NEW w, NEW w2, NEW a \in Servers, w2.link[a] = NoLink
    PROVE  StaysSlave(w, w2, a) /\ a \notin Slaves(w2, a)
  BY NoLinkIsALink, BoundsAssumption, Zenon DEF StaysSlave, Slaves

(* A slave stays one if its connection leads to the same point. *)
LEMMA StaysSlaveIf ==
    ASSUME NEW w, NEW n \in Nat, Inv(w, n), NEW w2, NEW a \in Servers,
           \A m \in Servers \ {a} : a \in Slaves(w2, m) =>
               /\ a \in Slaves(w, m)
               /\ w2.link[a].phase \in {"end", "online"} =>
                     /\ w.link[a].phase \in {"end", "online"}
                     /\ Coming(w2.srv[a], w2.link[a]) = Coming(w.srv[a], w.link[a])
               /\ w2.link[a].phase = "end" => w2.link[a].answer.type \in {"fullresync", "rdb"}
    PROVE  StaysSlave(w, w2, a)
  <1>1. \A m \in Servers : \A r \in Slaves(w, m) : SlaveOk(w, m, r)
    BY Zenon DEF Inv, SlavesOk
  <1> QED BY <1>1, Zenon DEF StaysSlave, SlaveOk

(* Closing the connections of a server's slaves. *)
LEMMA ClosedStay ==
    ASSUME NEW w, NEW w2, NEW a \in Servers, w2.disk = w.disk,
           \A t \in Servers \ {a} : w2.srv[t] = w.srv[t],
           \A t \in Servers \ {a} :
               w2.link[t] = w.link[t] \/ (t \in Slaves(w, a) /\ w2.link[t] = [w.link[t] EXCEPT !.closed = TRUE])
    PROVE  OthersStay(w, w2, a)
  BY BoundsAssumption, Zenon DEF OthersStay, Untouched, LinkKept, Slaves

(* A server whose slaves' connections were all closed has no slaves. *)
LEMMA ClosedGo ==
    ASSUME NEW w, Shaped(w), NEW w2, NEW a \in Servers, w2.link[a].to # a,
           \A t \in Servers \ {a} :
               w2.link[t] = IF t \in Slaves(w, a) THEN [w.link[t] EXCEPT !.closed = TRUE]
                            ELSE w.link[t]
    PROVE  Slaves(w2, a) = {}
  <1>1. \A l \in Links : [l EXCEPT !.closed = TRUE].closed
    BY Zenon DEF Links
  <1>2. \A t \in Servers : w.link[t] \in Links
    BY Zenon DEF Shaped
  <1> QED BY <1>1, <1>2, Zenon DEF Slaves

(* A history that goes on under a new ID. *)
LEMMA WholePast ==
    ASSUME NEW d \in Data, NEW i \in Nat, NEW id
    PROVE  /\ i - ((i + 1) - 1) \in 0 .. Len(d) /\ i + 1 > 0 /\ i + 1 \in Int
           /\ Pt(id, (i + 1) - 1, SubSeq(d, 1, Len(d) - (i - ((i + 1) - 1)))) = Pt(id, i, d)
  <1>1. Len(d) \in Nat /\ SubSeq(d, 1, Len(d)) = d
    BY DataFacts, Zenon
  <1>2. (i + 1) - 1 = i /\ i - ((i + 1) - 1) = 0 /\ Len(d) - (i - ((i + 1) - 1)) = Len(d)
    BY <1>1
  <1>3. SubSeq(d, 1, Len(d) - (i - ((i + 1) - 1))) = d
    BY <1>1, <1>2, Zenon
  <1>4. i - ((i + 1) - 1) \in 0 .. Len(d) /\ i + 1 > 0 /\ i + 1 \in Int
    BY <1>1
  <1> HIDE DEF Pt
  <1> QED BY <1>2, <1>3, <1>4, Zenon

(* replicationUnsetMaster(): the old ID becomes the second, up to the offset. *)
LEMMA UnsetKeeps ==
    ASSUME NEW w, NEW n \in Nat, Inv(w, n), NEW r \in Servers
    PROVE  Inv(replicationUnsetMaster(w, r), n)
  <1>1. CASE w.srv[r].host = NoOne
    BY <1>1, Zenon DEF replicationUnsetMaster
  <1>2. CASE w.srv[r].host # NoOne
    <2> DEFINE w2 == replicationUnsetMaster(w, r)
               v  == w.srv[r]
               v2 == w2.srv[r]
    <2>1. /\ Shaped(w) /\ w.ids \in Nat /\ ServerOk(v, r, w.ids, n) /\ LinkOk(v, w.link[r])
          /\ w.link[r].to # r
      BY InvFacts, LinkIsNotOwn, Zenon
    <2>2. /\ Only(w, w2, r, {"host", "state", "master", "cached", "replid", "replid2", "second"})
          /\ w2.ids = w.ids + 1
          /\ \A t \in Servers \ {r} :
                w2.link[t] = IF t \in Slaves(w, r) THEN [w.link[t] EXCEPT !.closed = TRUE]
                             ELSE w.link[t]
          /\ w2.link[r] = IF v.master # NoMaster \/ v.state \in {"psync", "transfer"}
                          THEN NoLink ELSE w.link[r]
          /\ v2.host = NoOne /\ v2.state = "none"
          /\ v2.master = NoMaster /\ v2.cached = NoMaster
          /\ v2.replid = w.ids + 1
          /\ v2.replid2 = v.replid /\ v2.second = v.offset + 1
      BY <1>2, <2>1, UnsetEffect
    <2> HIDE DEF w2
    <2>3. w2.link[r] = NoLink
      BY <2>1, <2>2, Zenon DEF LinkOk, ServerOk, ServerTypes, ServerRole
    <2>4. /\ v2.data = v.data /\ v2.offset = v.offset /\ v2.backlog = v.backlog
          /\ v2.initial = v.initial /\ v2.bgsave = v.bgsave
          /\ v2.failover = v.failover /\ v2.target = v.target /\ v2.force = v.force
      BY <2>2, Zenon DEF Only, Fields, Core
    <2>5. Shaped(w2) /\ w2.disk = w.disk /\ \A t \in Servers \ {r} : w2.srv[t] = w.srv[t]
      BY <2>2, Zenon DEF Only
    <2>6. OthersStay(w, w2, r)
      BY <2>2, <2>5, ClosedStay, Zenon
    <2>7. TargetsOk(w2)
      BY <2>4, <2>5, TargetsKept, Zenon
    <2>8. Slaves(w2, r) = {} /\ StaysSlave(w, w2, r)
      <3>1. w2.link[r].to # r
        BY <2>3, NoLinkIsALink, BoundsAssumption, Zenon
      <3> QED BY <2>1, <2>2, <2>3, <3>1, ClosedGo, NoLinkNoSlave, Zenon
    <2> HIDE DEF v, v2
    <2>9. ServerOk(v2, r, w2.ids, n)
      <3>1. /\ v.data \in Data /\ v.replid \in Nat \ {0} /\ v.replid <= w.ids /\ v.offset \in Nat
        BY <2>1, ServerNumbers, Zenon
      <3>2. /\ v.offset - ((v.offset + 1) - 1) \in 0 .. Len(v.data)
            /\ v.offset + 1 > 0 /\ v.offset + 1 \in Int
        BY <3>1, WholePast, Zenon
      <3>3. ServerTypes(v2, r, w2.ids, n)
        <4>1. v2.replid \in 1 .. w2.ids /\ v2.replid2 \in 0 .. w2.ids /\ v2.second \in Int
          BY <2>1, <2>2, <3>1, <3>2
        <4>2. v2.host = NoOne /\ v2.state = "none" /\ v2.master \in Marks /\ v2.cached \in Marks
          BY <2>2, NoLinkIsALink, Zenon
        <4> QED BY <2>1, <2>4, <4>1, <4>2, Zenon DEF ServerOk, ServerTypes
      <3>4. ServerRole(v2)
        BY <2>2, Zenon DEF ServerRole
      <3>5. ServerLog(v2)
        BY <2>1, <2>2, <2>4, <3>1, <3>2, Zenon DEF ServerOk, ServerLog, Known, NoId
      <3> QED BY <3>3, <3>4, <3>5, Zenon DEF ServerOk
    <2>10. LinkOk(v2, w2.link[r])
      BY <2>2, <2>3, Zenon DEF LinkOk
    <2> DEFINE N == IF v.backlog # NoBacklog THEN {Here(v2)} ELSE {}
    <2>11. OwnEnd(w, w2, r, N)
      BY <2>1, <2>2, <2>4, FreshEnd, NoEnd DEF HasBacklog, v2
    <2>12. PointsFrom(w, w2, r, N)
      <3> SUFFICES ASSUME NEW p, Point(w2, r, p), p \notin N
                   PROVE  Point(w, r, p) \/ p \in N
        <4>1. Sound(Here(v2))
          BY <2>9, <2>1, <2>2, ServerNumbers DEF Sound, Here, Pt
        <4> QED BY <4>1, OldPoint, Zenon DEF PointsFrom, N
      <3>1. /\ v2.bgsave = v.bgsave /\ w2.disk[r] = w.disk[r] /\ ~Arriving(v2, w2.link[r])
        BY <2>2, <2>3, <2>4, <2>5, NoLinkIsALink, Zenon DEF Arriving
      <3>2. Known(v2) => v.backlog # NoBacklog
        BY <2>2, <2>4, Zenon DEF Known
      <3>3. HasSecond(v2) => Known(v) /\ Second(v2) = Here(v)
        <4>1. v.data \in Data /\ v.offset \in Nat
          BY <2>1, ServerNumbers, Zenon
        <4>2. Second(v2) = Here(v)
          BY <2>2, <2>4, <4>1, WholePast DEF Second, Here
        <4> QED BY <2>1, <2>4, <4>2, Zenon DEF HasSecond, ServerOk, ServerLog
      <3> QED BY <3>1, <3>2, <3>3, Zenon DEF Point, IsPoint, v, v2
    <2>13. MasterKept(w, w2, r, r)
      BY <2>1, <2>2 DEF MasterKept, v2
    <2>14. AloneKept(w, w2, r)
      BY <2>2, Zenon DEF AloneKept, Alone, v2
    <2>15. SlavesStay(w, w2, r) /\ w.ids <= w2.ids
      BY <2>1, <2>2, <2>8 DEF SlavesStay
    <2> HIDE DEF N
    <2>16. Inv(w2, n)
      BY <2>5, <2>6, <2>7, <2>8, <2>9, <2>10, <2>11, <2>12, <2>13, <2>14, <2>15, StepOfOne, Zenon DEF v2
    <2> QED BY <2>16, Zenon DEF w2
  <1> QED BY <1>1, <1>2, Zenon


(* The state of a planned failover is not in anybody's history. *)
LEMMA AsideKeeps ==
    ASSUME NEW w, NEW n \in Nat, Inv(w, n), NEW s \in Servers, NEW w2,
           Only(w, w2, s, {"failover", "target", "force"}), w2.link = w.link, w2.ids = w.ids,
           TargetOk(w2.srv[s], s)
    PROVE  Inv(w2, n)
  <1>1. Shaped(w2) /\ w2.disk = w.disk /\ \A t \in Servers \ {s} : w2.srv[t] = w.srv[t]
    BY Zenon DEF Only
  <1>2. \A i \in Core : w2.srv[s][i] = w.srv[s][i]
    BY Zenon DEF Only, Fields, Core
  <1>3. \A t \in Servers : Untouched(w, w2, t)
    BY <1>1, <1>2, Zenon DEF Untouched, LinkKept
  <1>4. w.ids \in Nat /\ w2.ids \in Nat /\ w.ids <= w2.ids /\ n <= n
    BY InvFacts
  <1>5. ASSUME NEW t \in Servers
        PROVE  /\ ServerOk(w2.srv[t], t, w2.ids, n) /\ LinkOk(w2.srv[t], w2.link[t])
               /\ \A p : Point(w2, t, p) <=> Point(w, t, p)
               /\ HasBacklog(w2, t) <=> HasBacklog(w, t)
               /\ Here(w2.srv[t]) = Here(w.srv[t])
               /\ Alone(w2.srv[t]) <=> Alone(w.srv[t])
               /\ w2.srv[t].replid = w.srv[t].replid /\ w2.srv[t].offset = w.srv[t].offset
               /\ w2.srv[t].host = w.srv[t].host
               /\ Coming(w2.srv[t], w2.link[t]) = Coming(w.srv[t], w.link[t])
               /\ Arriving(w2.srv[t], w2.link[t]) <=> Arriving(w.srv[t], w.link[t])
    BY <1>3, <1>4, UntouchedKeeps
  <1>6. OthersStay(w, w2, s)
    BY <1>3, Zenon DEF OthersStay
  <1>7. TargetsOk(w2)
    BY <1>1, Zenon DEF Inv, TargetsOk
  <1>8. SlavesStay(w, w2, s) /\ StaysSlave(w, w2, s)
    <2>1. \A m \in Servers : Slaves(w2, m) = Slaves(w, m)
      BY Zenon DEF Slaves
    <2>2. \A m \in Servers : \A r \in Slaves(w, m) : SlaveOk(w, m, r)
      BY Zenon DEF Inv, SlavesOk
    <2> QED BY <1>5, <2>1, <2>2, Zenon DEF SlavesStay, StaysSlave, SlaveOk
  <1>9. PointsFrom(w, w2, s, {}) /\ OwnEnd(w, w2, s, {})
    BY <1>5, OldPoint, NoEnd, Zenon DEF PointsFrom
  <1>10. MasterKept(w, w2, s, s)
    <2>1. w.srv[s].offset \in Nat
      BY <1>4, InvFacts, ServerNumbers, Zenon
    <2>2. w.srv[s].offset <= w2.srv[s].offset
      BY <1>5, <2>1
    <2> QED BY <1>5, <2>2, Zenon DEF MasterKept, StaysMaster, HasBacklog
  <1>11. AloneKept(w, w2, s)
    <2>1. Alone(w.srv[s]) => w.link[s].answer.type # "continue"
      BY InvFacts, Zenon DEF Histories, Private
    <2> QED BY <1>5, <2>1, Zenon DEF AloneKept, StaysAlone
  <1> QED BY <1>1, <1>4, <1>5, <1>6, <1>7, <1>8, <1>9, <1>10, <1>11, StepOfOne

(* clearFailoverState() keeps the invariant. *)
LEMMA ClearFailoverKeeps ==
    ASSUME NEW w, NEW n \in Nat, Inv(w, n), NEW s \in Servers
    PROVE  Inv(clearFailoverState(w, s), n)
  <1> DEFINE w2 == clearFailoverState(w, s)
  <1>1. /\ Only(w, w2, s, {"failover", "target", "force"}) /\ w2.link = w.link /\ w2.ids = w.ids
        /\ w2.srv[s].failover = "no" /\ w2.srv[s].force = FALSE
    BY InvFacts, ClearFailoverEffect, Zenon
  <1> HIDE DEF w2
  <1>2. TargetOk(w2.srv[s], s)
    BY <1>1, Zenon DEF TargetOk
  <1>3. Inv(w2, n)
    BY <1>1, <1>2, AsideKeeps, Zenon
  <1> QED BY <1>3 DEF w2

(* A server that stays where it is keeps its slaves. *)
LEMMA SlavesStayIf ==
    ASSUME NEW w, NEW n \in Nat, Inv(w, n), NEW w2, Shaped(w2), w.ids <= w2.ids,
           NEW a \in Servers, OthersStay(w, w2, a), w2.link[a].to # a,
           HasBacklog(w, a) => HasBacklog(w2, a), Here(w2.srv[a]) = Here(w.srv[a])
    PROVE  SlavesStay(w, w2, a)
  <1> SUFFICES ASSUME NEW r \in Slaves(w2, a) PROVE HasBacklog(w, a)
    BY Zenon DEF SlavesStay
  <1>1. r \in Servers \ {a} /\ Untouched(w, w2, r)
    BY Zenon DEF Slaves, OthersStay
  <1>2. w2.ids \in Nat
    BY Zenon DEF Shaped
  <1>3. r \in Slaves(w, a)
    BY <1>1, <1>2, SlaveKept, Zenon
  <1> QED BY <1>3, Zenon DEF Inv, SlavesOk, SlaveOk

(* The place of a server that may tell it is a point. *)
LEMMA PlaceIsKnown ==
    ASSUME NEW w, NEW n \in Nat, Inv(w, n), NEW r \in Servers, Known(w.srv[r])
    PROVE  Point(w, r, Here(w.srv[r])) /\ Here(w.srv[r]).id = w.srv[r].replid
  BY Zenon DEF Point, IsPoint, Here, Pt

(* A master without a backlog is alone with its ID. *)
LEMMA NobodyKnows ==
    ASSUME NEW w, NEW n \in Nat, Inv(w, n), NEW r \in Servers, w.srv[r].host = NoOne,
           ~HasBacklog(w, r)
    PROVE  /\ \A t \in Servers : \A q : Point(w, t, q) => q.id # w.srv[r].replid
           /\ \A m \in Servers \ {r} : w.srv[m].host = NoOne => w.srv[r].replid # w.srv[m].replid
           /\ \A t \in Servers \ {r} : Alone(w.srv[t]) => w.srv[r].replid # w.srv[t].replid
  <1>1. Frontier(w) /\ OneMaster(w)
    BY InvFacts, Zenon DEF Histories
  <1>2. \A t \in Servers : \A q : Point(w, t, q) => q.id # w.srv[r].replid
    BY <1>1, Zenon DEF Frontier
  <1>3. \A m \in Servers \ {r} : w.srv[m].host = NoOne => w.srv[r].replid # w.srv[m].replid
    BY <1>1, Zenon DEF OneMaster
  <1>4. \A t \in Servers \ {r} : Alone(w.srv[t]) => w.srv[r].replid # w.srv[t].replid
    BY <1>2, PlaceIsKnown DEF Alone, Known
  <1> QED BY <1>2, <1>3, <1>4, Zenon

(* replicationSetMaster(): a former master caches its own place. *)
LEMMA SetMasterKeeps ==
    ASSUME NEW w, NEW n \in Nat, Inv(w, n), NEW r \in Servers, NEW h \in Servers \ {r}
    PROVE  Inv(replicationSetMaster(w, r, h), n)
  <1> DEFINE w2 == replicationSetMaster(w, r, h)
             v  == w.srv[r]
             v2 == w2.srv[r]
  <1>1. /\ Shaped(w) /\ w.ids \in Nat /\ ServerOk(v, r, w.ids, n) /\ LinkOk(v, w.link[r])
    BY InvFacts, Zenon
  <1>2. /\ Only(w, w2, r, {"host", "state", "master", "cached"}) /\ w2.ids = w.ids
        /\ \A t \in Servers \ {r} : w2.link[t] = w.link[t]
        /\ w2.link[r] = IF v.master # NoMaster \/ v.state \in {"psync", "transfer"}
                        THEN NoLink ELSE w.link[r]
        /\ v2.host = h /\ v2.state = "connect" /\ v2.master = NoMaster
        /\ v2.cached = IF v.host = NoOne THEN [id |-> v.replid, off |-> v.offset]
                       ELSE IF v.master # NoMaster THEN v.master ELSE v.cached
    BY <1>1, SetMasterEffect
  <1> HIDE DEF w2
  <1>3. w2.link[r] = NoLink
    BY <1>1, <1>2, Zenon DEF LinkOk, ServerOk, ServerTypes, ServerRole
  <1>4. /\ v2.data = v.data /\ v2.offset = v.offset /\ v2.backlog = v.backlog
        /\ v2.replid = v.replid /\ v2.replid2 = v.replid2 /\ v2.second = v.second
        /\ v2.initial = v.initial /\ v2.bgsave = v.bgsave
        /\ v2.failover = v.failover /\ v2.target = v.target /\ v2.force = v.force
    BY <1>2, Zenon DEF Only, Fields, Core
  <1>5. Shaped(w2) /\ w2.disk = w.disk /\ \A t \in Servers \ {r} : w2.srv[t] = w.srv[t]
    BY <1>2, Zenon DEF Only
  <1>6. OthersStay(w, w2, r)
    BY <1>2, <1>5, ClosedStay, Zenon
  <1>7. TargetsOk(w2)
    BY <1>4, <1>5, TargetsKept, Zenon
  <1>8. w.ids <= w2.ids
    BY <1>1, <1>2
  <1>9. SlavesStay(w, w2, r) /\ StaysSlave(w, w2, r)
    <2>1. w2.link[r].to # r
      BY <1>3, NoLinkIsALink, BoundsAssumption, Zenon
    <2>2. HasBacklog(w2, r) <=> HasBacklog(w, r)
      BY <1>4, Zenon DEF HasBacklog
    <2>3. Here(w2.srv[r]) = Here(w.srv[r])
      BY <1>4, Zenon DEF Here
    <2> QED BY <1>3, <1>5, <1>6, <1>8, <2>1, <2>2, <2>3, SlavesStayIf, NoLinkNoSlave, Zenon
  <1>10. /\ v.replid \in Nat \ {0} /\ v.offset \in Nat /\ v.data \in Data
         /\ [id |-> v.replid, off |-> v.offset] \in Marks
         /\ [id |-> v.replid, off |-> v.offset] # NoMaster
    BY <1>1, ServerNumbers DEF Marks, NoMaster, NoId
  <1> HIDE DEF v, v2
  <1>11. Known(v2) <=> (Known(v) \/ v.host = NoOne)
    BY <1>1, <1>2, <1>10, BoundsAssumption, Zenon DEF Known
  <1>12. ServerOk(v2, r, w2.ids, n)
    <2>1. ServerTypes(v2, r, w2.ids, n)
      BY <1>1, <1>2, <1>4, <1>10, NoLinkIsALink DEF ServerOk, ServerTypes
    <2>2. ServerRole(v2)
      BY <1>1, <1>2, <1>4, BoundsAssumption DEF ServerOk, ServerTypes, ServerRole
    <2>3. ServerLog(v2)
      BY <1>1, <1>4, <1>11, Zenon DEF ServerOk, ServerLog, HasSecond
    <2> QED BY <2>1, <2>2, <2>3, Zenon DEF ServerOk
  <1>13. LinkOk(v2, w2.link[r])
    BY <1>2, <1>3, Zenon DEF LinkOk
  <1>14. /\ Here(v2) = Here(v) /\ Second(v2) = Second(v) /\ (HasSecond(v2) <=> HasSecond(v))
         /\ ~Arriving(v2, w2.link[r]) /\ w2.link[r].answer.type = "none"
         /\ Here(v2).id = v.replid /\ Sound(Here(v2))
    BY <1>2, <1>3, <1>4, <1>10, NoLinkIsALink, Zenon DEF Here, Second, HasSecond, Arriving, Sound, Pt
  <1> DEFINE N == IF v.host = NoOne /\ v.backlog = NoBacklog THEN {Here(v2)} ELSE {}
  <1>15. OwnEnd(w, w2, r, N)
    <2>1. CASE v.host = NoOne /\ v.backlog = NoBacklog
      <3>1. /\ \A t \in Servers : \A q : Point(w, t, q) => q.id # v.replid
            /\ \A m \in Servers \ {r} : w.srv[m].host = NoOne => v.replid # w.srv[m].replid
            /\ \A t \in Servers \ {r} : Alone(w.srv[t]) => v.replid # w.srv[t].replid
        BY <2>1, NobodyKnows, Zenon DEF HasBacklog, v
      <3>2. w2.srv[r].host # NoOne /\ N = {Here(v2)}
        BY <1>2, <2>1, BoundsAssumption, Zenon DEF v2
      <3> QED BY <1>14, <3>1, <3>2, Zenon DEF OwnEnd, v2
    <2>2. CASE ~(v.host = NoOne /\ v.backlog = NoBacklog)
      BY <2>2, NoEnd, Zenon
    <2> QED BY <2>1, <2>2, Zenon
  <1>16. PointsFrom(w, w2, r, N)
    <2> SUFFICES ASSUME NEW p, Point(w2, r, p), p \notin N
                 PROVE  Point(w, r, p)
      BY <1>14, OldPoint, Zenon DEF PointsFrom, N
    <2>1. Known(v2) /\ p = Here(v2) => Known(v)
      BY <1>11, Zenon DEF Known
    <2> QED BY <1>4, <1>5, <1>14, <2>1, Zenon DEF Point, IsPoint, v, v2
  <1>17. MasterKept(w, w2, r, r)
    BY <1>2, BoundsAssumption, Zenon DEF MasterKept, v2
  <1>18. AloneKept(w, w2, r)
    <2> SUFFICES ASSUME Alone(v2)
                 PROVE  StaysAlone(w, w2, r) \/ GetsAlone(w, w2, r)
      BY <1>14, Zenon DEF AloneKept, v2
    <2>1. CASE v.host = NoOne
      <3>1. \A t \in Servers : \A q : Point(w, t, q) => q.id # v.replid
        BY <1>4, <2>1, NobodyKnows, Zenon DEF HasBacklog, v, Alone
      <3> QED BY <1>4, <1>14, <3>1, Zenon DEF GetsAlone, HasBacklog, Alone, v, v2
    <2>2. CASE v.host # NoOne
      <3>1. Alone(v)
        BY <1>1, <1>2, <1>4, <2>2, Zenon DEF Alone, ServerOk, ServerRole
      <3> QED BY <1>4, <1>14, <3>1, Zenon DEF StaysAlone, v, v2
    <2> QED BY <2>1, <2>2, Zenon
  <1> HIDE DEF N
  <1>19. Inv(w2, n)
    BY <1>5, <1>6, <1>7, <1>8, <1>9, <1>12, <1>13, <1>15, <1>16, <1>17, <1>18, StepOfOne DEF v2
  <1> QED BY <1>19, Zenon DEF w2
=============================================================================
