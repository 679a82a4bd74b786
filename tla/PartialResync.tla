--------------------------- MODULE PartialResync ---------------------------
(***************************************************************************)
(* Replication between servers (replication.c): the replication IDs and    *)
(* offsets, the backlog, PSYNC, full synchronization, REPLICAOF, FAILOVER, *)
(* and what an RDB file keeps of them over a restart (rdb.c, server.c).    *)
(*                                                                         *)
(* A server's data set is the sequence of the writes it was built from and *)
(* a write is one byte of the stream, so two servers agree exactly when    *)
(* their sequences are equal.  The connection of a replica to its master   *)
(* is a request, its answer and the stream behind it; either end may lose  *)
(* it.                                                                     *)
(* RDB files are loaded in one step: clients get -LOADING meanwhile.       *)
(***************************************************************************)
EXTENDS Integers, Sequences, FiniteSets

CONSTANTS Servers,       \* the servers
          FirstHost,     \* the "replicaof" line each is first started with
          NoOne,         \* masterhost == NULL
          BacklogSize,   \* repl-backlog-size, in writes
          MaxWrites,     \* bound on the clients' writes
          MaxEvents      \* bound on REPLICAOF, FAILOVER and SAVE commands, lost
                         \* connections, failed saves and loads, and restarts, together

ASSUME BoundsAssumption ==
    /\ NoOne \notin Servers /\ IsFiniteSet(Servers)
    /\ FirstHost \in [Servers -> Servers \cup {NoOne}] /\ \A s \in Servers : FirstHost[s] # s
    /\ \A s, t \in Servers : FirstHost[s] = NoOne /\ FirstHost[t] = NoOne => s = t
    /\ BacklogSize \in Nat \ {0}
    /\ {MaxWrites, MaxEvents} \subseteq Nat

VARIABLES srv,      \* the servers' memory
          link,     \* each server's connection to its master
          disk,     \* each server's dump.rdb
          ids,      \* replication IDs drawn so far, server by server
          count     \* what the bounds have used up

vars == <<srv, link, disk, ids, count>>

-----------------------------------------------------------------------------
(* Data.  Replication IDs are numbers; a new random ID is a number nobody has. *)

NoId      == 0
NoBacklog == [offset |-> 0, histlen |-> -1]
NoMaster  == [id |-> NoId, off |-> -1]
NoRdb     == [data |-> <<>>, rsi |-> NoMaster]

\* The answer to PSYNC that the replica has not read yet: +FULLRESYNC with the
\* RDB file behind it, that file once the line has been read ("rdb"), +CONTINUE
\* or an error.
Answer(type, id, off, rdb) == [type |-> type, id |-> id, off |-> off, rdb |-> rdb]
NoAnswer               == Answer("none", NoId, -1, NoRdb)
ReplFull(id, off, rdb) == Answer("fullresync", id, off, rdb)
ReplContinue(id)       == Answer("continue", id, -1, NoRdb)
ReplError              == Answer("error", NoId, -1, NoRdb)

\* stream is what has been written to the connection behind the answer.
NoLink == [to |-> NoOne, phase |-> "none", answer |-> NoAnswer, stream |-> <<>>,
           closed |-> FALSE]

\* A server at startup, before loadDataFromDisk.
initServer(id, host) ==
    [host |-> host, state |-> IF host = NoOne THEN "none" ELSE "connect",
     data |-> <<>>, replid |-> id, replid2 |-> NoId, second |-> -1, offset |-> 0,
     backlog |-> NoBacklog, master |-> NoMaster, cached |-> NoMaster,
     initial |-> NoMaster, bgsave |-> <<>>,
     failover |-> "no", target |-> NoOne, force |-> FALSE]

\* The steps below transform a world: all the state but the counters.
World == [srv |-> srv, link |-> link, disk |-> disk, ids |-> ids]

Set(w, s, fields) ==
    [w EXCEPT !.srv[s] = [i \in DOMAIN @ |-> IF i \in DOMAIN fields THEN fields[i] ELSE @[i]]]

-----------------------------------------------------------------------------
(* Replication IDs and the backlog. *)

changeReplicationId(w, s) ==
    [w EXCEPT !.ids = @ + 1, !.srv[s].replid = w.ids + 1]

clearReplicationId2(w, s) == Set(w, s, [replid2 |-> NoId, second |-> -1])

shiftReplicationId(w, s) ==
    changeReplicationId(Set(w, s, [replid2 |-> w.srv[s].replid,
                                   second  |-> w.srv[s].offset + 1]), s)

HasBacklog(w, s) == w.srv[s].backlog # NoBacklog

createReplicationBacklog(w, s) ==
    IF HasBacklog(w, s) THEN w
    ELSE Set(w, s, [backlog |-> [offset |-> w.srv[s].offset + 1, histlen |-> 0]])

freeReplicationBacklog(w, s) == Set(w, s, [backlog |-> NoBacklog])

\* server.slaves: the connections that sent SYNC or PSYNC and were accepted.
Slaves(w, m) == {r \in Servers : /\ w.link[r].to = m
                                 /\ w.link[r].phase # "none"
                                 /\ ~w.link[r].closed}

\* What was already written to the socket is still delivered.
disconnectSlaves(w, m) ==
    [w EXCEPT !.link = [r \in Servers |->
        IF r \in Slaves(w, m) THEN [w.link[r] EXCEPT !.closed = TRUE] ELSE w.link[r]]]

createReplicationBacklogIfNeeded(w, m) ==
    IF (\E r \in Servers : Slaves(w, m) = {r}) /\ ~HasBacklog(w, m)
    THEN createReplicationBacklog(
            clearReplicationId2(changeReplicationId(w, m), m), m)
    ELSE w

\* The write goes to the backlog, which is then trimmed, and to the slaves
\* whose snapshot has been started.  Without a backlog (and without AOF) the
\* offset stays.
feedReplicationBuffer(w, m, x) ==
    LET s    == w.srv[m]
        kept == IF s.backlog.histlen + 1 > BacklogSize THEN BacklogSize
                ELSE s.backlog.histlen + 1
    IN  IF ~HasBacklog(w, m) THEN w
        ELSE [w EXCEPT
                !.srv[m].offset  = @ + 1,
                !.srv[m].backlog = [offset |-> s.offset + 1 - kept + 1, histlen |-> kept],
                !.link = [r \in Servers |->
                    IF r \in Slaves(w, m) /\ w.link[r].phase # "start"
                    THEN [w.link[r] EXCEPT !.stream = Append(@, x)]
                    ELSE w.link[r]]]

\* The last n writes of the data set, which the backlog holds.
LastWrites(data, n) == SubSeq(data, Len(data) - n + 1, Len(data))

-----------------------------------------------------------------------------
(* The master's side of a synchronization. *)

Send(w, r, phase, answer, stream) ==
    [w EXCEPT !.link[r] = [@ EXCEPT !.phase = phase, !.answer = answer, !.stream = stream]]

IdAccepted(s, req) ==
    \/ req.id = s.replid
    \/ req.id = s.replid2 /\ req.off <= s.second

InBacklog(s, off) ==
    /\ s.backlog # NoBacklog
    /\ s.backlog.offset <= off
    /\ off <= s.backlog.offset + s.backlog.histlen

masterTryPartialResynchronization(w, m, req) ==
    IdAccepted(w.srv[m], req) /\ InBacklog(w.srv[m], req.off)

\* What a snapshot records of the replication: rdbPopulateSaveInfo.
rdbPopulateSaveInfo(s) ==
    IF \/ s.host = NoOne /\ s.backlog # NoBacklog
       \/ s.master # NoMaster
       \/ s.cached # NoMaster
    THEN [id |-> s.replid, off |-> s.offset]
    ELSE NoMaster

Snapshot(s) == [data |-> s.data, rsi |-> rdbPopulateSaveInfo(s)]

Waiting(w, m, phase) == {r \in Slaves(w, m) : w.link[r].phase = phase}

\* Mutant: the writes since the BGSAVE was started are not copied.
copyReplicaOutputBuffer_rdbOnly(w, r) == <<>>

\* What a slave is to be sent after the RDB file.
copyReplicaOutputBuffer(w, r) == w.link[r].stream

\* BGSAVE for the slaves that wait for one.  Without replication information
\* there is no snapshot and the slaves are dropped.
startBgsaveForReplication(w, m) ==
    LET s   == w.srv[m]
        for == Waiting(w, m, "start")
    IN  IF rdbPopulateSaveInfo(s) = NoMaster
        THEN [w EXCEPT !.link = [r \in Servers |->
                 IF r \in for THEN [w.link[r] EXCEPT !.closed = TRUE] ELSE w.link[r]]]
        ELSE [w EXCEPT !.srv[m].bgsave = <<Snapshot(s)>>,
                !.link = [r \in Servers |->
                    IF r \in for
                    THEN [w.link[r] EXCEPT !.phase = "end",
                              !.answer = ReplFull(s.replid, s.offset, Snapshot(s))]
                    ELSE w.link[r]]]

\* A slave that needs a full resynchronization joins the BGSAVE that runs for
\* another one, waits for the one that runs for nobody, or starts one.
FullResync(w, m, r) ==
    LET w1     == createReplicationBacklogIfNeeded(Send(w, r, "start", NoAnswer, <<>>), m)
        others == Waiting(w1, m, "end")
        slave  == CHOOSE o \in others : TRUE
        sent   == w1.link[slave].answer
    IN  CASE w1.srv[m].bgsave = <<>> -> startBgsaveForReplication(w1, m)
          [] w1.srv[m].bgsave # <<>> /\ others # {} ->
                Send(w1, r, "end", ReplFull(w1.srv[m].replid, sent.off, sent.rdb),
                     copyReplicaOutputBuffer(w1, slave))
          [] OTHER -> w1

replicationDiscardCachedMaster(w, s) == Set(w, s, [cached |-> NoMaster])

-----------------------------------------------------------------------------
(* The replica's side. *)

CloseLink(w, r) == [w EXCEPT !.link[r] = NoLink]

\* freeClient of the master, which caches it.
replicationCacheMaster(w, r) ==
    IF w.srv[r].master = NoMaster THEN w
    ELSE CloseLink(Set(w, r, [cached |-> w.srv[r].master, master |-> NoMaster,
                              state |-> "connect"]), r)

cancelReplicationHandshake(w, r) ==
    IF w.srv[r].state \in {"psync", "transfer"}
    THEN CloseLink(Set(w, r, [state |-> "connect"]), r)
    ELSE w

replicationCacheMasterUsingMyself(w, s) ==
    Set(w, s, [cached |-> [id |-> w.srv[s].replid, off |-> w.srv[s].offset]])

replicationSetMaster(w, r, h) ==
    LET wasMaster == w.srv[r].host = NoOne
        w1 == cancelReplicationHandshake(
                  Set(replicationCacheMaster(w, r), r, [host |-> h]), r)
        w2 == IF wasMaster THEN replicationCacheMasterUsingMyself(w1, r) ELSE w1
    IN  Set(w2, r, [state |-> "connect"])

replicationUnsetMaster(w, r) ==
    LET w1 == cancelReplicationHandshake(replicationDiscardCachedMaster(
                  replicationCacheMaster(Set(w, r, [host |-> NoOne]), r), r), r)
    IN  IF w.srv[r].host = NoOne THEN w
        ELSE Set(disconnectSlaves(shiftReplicationId(w1, r), r), r, [state |-> "none"])

clearFailoverState(w, s) ==
    Set(w, s, [failover |-> "no", target |-> NoOne, force |-> FALSE])

abortFailover(w, s) ==
    CASE w.srv[s].failover = "no" -> w
      [] w.srv[s].failover = "progress" ->
            clearFailoverState(replicationUnsetMaster(w, s), s)
      [] OTHER -> clearFailoverState(w, s)

\* The reply to PSYNC settles a planned failover.
FailoverAnswered(w, r) ==
    IF w.srv[r].failover = "progress" THEN clearFailoverState(w, r) ELSE w

replicationAttachToNewMaster(w, r) ==
    freeReplicationBacklog(disconnectSlaves(replicationDiscardCachedMaster(w, r), r), r)

replicationCreateMasterClient(w, r) == Set(w, r, [master |-> w.srv[r].initial])

replicationResurrectCachedMaster(w, r) ==
    Set(w, r, [master |-> w.srv[r].cached, cached |-> NoMaster, state |-> "connected"])

\* Mutant: the cached master keeps the ID it was cached with.
PsyncContinue_oldMasterId(w, r, id) ==
    LET s  == w.srv[r]
        w1 == IF id = s.cached.id THEN w
              ELSE disconnectSlaves(
                      Set(w, r, [replid2 |-> s.cached.id, second |-> s.offset + 1,
                                 replid |-> id]), r)
    IN  createReplicationBacklog(replicationResurrectCachedMaster(w1, r), r)

\* +CONTINUE <id>.
PsyncContinue(w, r, id) ==
    LET s  == w.srv[r]
        w1 == IF id = s.cached.id THEN w
              ELSE disconnectSlaves(
                      Set(w, r, [replid2 |-> s.cached.id, second |-> s.offset + 1,
                                 replid |-> id, cached |-> [s.cached EXCEPT !.id = id]]), r)
    IN  createReplicationBacklog(replicationResurrectCachedMaster(w1, r), r)

\* The BGSAVE child failed or was killed: its slaves are dropped.
BgsaveFailed(w, s) ==
    [Set(w, s, [bgsave |-> <<>>]) EXCEPT !.link = [r \in Servers |->
        IF r \in Waiting(w, s, "end") THEN [w.link[r] EXCEPT !.closed = TRUE]
        ELSE w.link[r]]]

\* readSyncBulkPayload once the file has arrived: kill the own child and load
\* the file through a file that replaces dump.rdb, or from the socket, over the
\* old data set or, with SWAPDB, beside it.
Loaded(w, r, rdb, how) ==
    LET w1 == replicationCreateMasterClient(
                 Set(replicationAttachToNewMaster(BgsaveFailed(w, r), r), r,
                     [data |-> rdb.data]), r)
        w2 == Set(w1, r, [state |-> "connected", replid |-> w1.srv[r].master.id,
                          offset |-> w1.srv[r].master.off])
        w3 == createReplicationBacklog(clearReplicationId2(w2, r), r)
    IN  IF how = "disk"
        THEN [w3 EXCEPT !.disk[r] = rdb]
        ELSE w3

\* The file could not be made dump.rdb, or the load failed half way.
LoadFailed(w, r, how) ==
    LET killed   == BgsaveFailed(w, r)
        attached == replicationAttachToNewMaster(killed, r)
    IN  cancelReplicationHandshake(
            CASE how = "swapdb" -> killed
              [] how = "disk"   -> attached
              [] how = "socket" -> Set(attached, r, [data |-> <<>>]), r)

\* The stream: executed, passed on to the own backlog and slaves.
ApplyWrite(w, r, x) ==
    feedReplicationBuffer(
        Set(w, r, [data   |-> Append(w.srv[r].data, x),
                   master |-> [w.srv[r].master EXCEPT !.off = @ + 1]]), r, x)

-----------------------------------------------------------------------------
(* The steps. *)

Become(w) == /\ srv' = w.srv /\ link' = w.link /\ disk' = w.disk /\ ids' = w.ids

Count(what) == count' = [count EXCEPT ![what] = @ + 1]

\* A client's write to a master.  FAILOVER pauses writes.
Write(m) ==
    LET x == count.writes + 1
    IN  /\ count.writes < MaxWrites
        /\ srv[m].host = NoOne
        /\ srv[m].failover = "no"
        /\ Become(feedReplicationBuffer(
                Set(World, m, [data |-> Append(srv[m].data, x)]), m, x))
        /\ Count("writes")

\* A server, its master, and so on up: REPLICAOF is not used to close a circle.
Upstream(s) ==
    LET up[n \in 0 .. Cardinality(Servers)] ==
            IF n = 0 THEN {s}
            ELSE up[n - 1] \cup ({srv[x].host : x \in up[n - 1]} \ {NoOne})
    IN  up[Cardinality(Servers)]

\* REPLICAOF.
replicaofCommand(r, h) ==
    /\ count.events < MaxEvents
    /\ srv[r].failover = "no"
    /\ h \notin {r, srv[r].host}
    /\ h # NoOne => r \notin Upstream(h)
    /\ Become(IF h = NoOne THEN replicationUnsetMaster(World, r)
              ELSE replicationSetMaster(World, r, h))
    /\ Count("events")

\* FAILOVER [TO target TIMEOUT t FORCE].
failoverCommand(m, t, force) ==
    /\ count.events < MaxEvents
    /\ srv[m].failover = "no"
    /\ srv[m].host = NoOne
    /\ Slaves(World, m) # {}
    /\ force => t # NoOne
    /\ t # NoOne => t \in Waiting(World, m, "online")
    /\ Become(Set(World, m, [failover |-> "waiting", target |-> t, force |-> force]))
    /\ Count("events")

failoverAbort(m) ==
    /\ count.events < MaxEvents
    /\ srv[m].failover # "no"
    /\ Become(abortFailover(World, m))
    /\ Count("events")

\* Mutant: any slave that is online will do.
CaughtUp_online(w, m, r) ==
    r \in Waiting(w, m, "online") /\ w.srv[r].state = "connected"

\* The slave's repl_ack_off is the master's offset.  It is 0 until the first
\* REPLCONF ACK, which a replica sends once it is connected; then the ACKs have
\* told the master that all of the stream was applied.
CaughtUp(w, m, r) ==
    /\ r \in Slaves(w, m)
    /\ \/ w.srv[m].offset = 0
       \/ /\ w.srv[r].state = "connected"
          /\ w.srv[r].master.off = w.srv[m].offset

FailOverTo(w, m, t) ==
    replicationSetMaster(Set(w, m, [failover |-> "progress", target |-> t]), m, t)

updateFailoverStatus(m) ==
    /\ srv[m].failover = "waiting"
    /\ \/ \E t \in Servers :
            /\ srv[m].target \in {NoOne, t}
            /\ CaughtUp(World, m, t)
            /\ Become(FailOverTo(World, m, t))
       \/ /\ srv[m].force                       \* the timeout has passed
          /\ Become(FailOverTo(World, m, srv[m].target))
       \/ /\ ~srv[m].force
          /\ Become(abortFailover(World, m))
    /\ UNCHANGED count

\* Mutant: no replica accepts PSYNC.
Away_anyReplica(s) == s.failover # "no" \/ s.host # NoOne

\* The master answers -NOMASTERLINK.
Away(s) == s.failover # "no" \/ (s.host # NoOne /\ s.state # "connected")

\* The handshake from connectWithMaster to the PSYNC request (the writing half
\* of slaveTryPartialResynchronization), and PSYNC at the master.  The request
\* depends only on what an answer, REPLICAOF or a restart would change.  A
\* replica that is told -NOMASTERLINK is back where it was, and tries again.
syncCommand(r) ==
    LET m    == srv[r].host
        req  == [id |-> srv[r].cached.id, off |-> srv[r].cached.off + 1]
        asks == srv[r].failover = "progress"
        mine == req.id = srv[m].replid
        w0   == [Set(World, r, [state |-> "psync", initial |-> NoMaster]) EXCEPT
                    !.link[r] = [NoLink EXCEPT !.to = m]]
        w    == IF asks /\ srv[m].host # NoOne /\ mine
                THEN replicationUnsetMaster(w0, m) ELSE w0
        s    == w.srv[m]
        more == s.offset - req.off + 1
    IN  /\ srv[r].state = "connect"
        /\ Away(s) => asks
        /\ Become(
             IF Away(s) \/ (asks /\ (srv[m].host = NoOne \/ ~mine))
             THEN Send(w, r, "none", ReplError, <<>>)
             ELSE IF masterTryPartialResynchronization(w, m, req)
             THEN Send(w, r, "online", ReplContinue(s.replid), LastWrites(s.data, more))
             ELSE FullResync(w, m, r))
        /\ UNCHANGED count

\* replicationCron starts the BGSAVE that slaves wait for.
replicationStartPendingFork(m) ==
    /\ srv[m].bgsave = <<>>
    /\ Waiting(World, m, "start") # {}
    /\ Become(startBgsaveForReplication(World, m))
    /\ UNCHANGED count

\* SAVE, or the save of a shutdown.
saveCommand(s) ==
    /\ count.events < MaxEvents
    /\ srv[s].bgsave = <<>>
    /\ Become([World EXCEPT !.disk[s] = Snapshot(srv[s])])
    /\ Count("events")

\* The BGSAVE child is done: the file is in place and goes out to the slaves,
\* or it failed.
updateSlavesWaitingBgsave(s) ==
    /\ srv[s].bgsave # <<>>
    /\ \/ /\ Become([Set(World, s, [bgsave |-> <<>>]) EXCEPT
                  !.disk[s] = srv[s].bgsave[1],
                  !.link = [r \in Servers |->
                      IF r \in Waiting(World, s, "end")
                      THEN [link[r] EXCEPT !.phase = "online"] ELSE link[r]]])
          /\ UNCHANGED count
       \/ /\ count.events < MaxEvents
          /\ Become(BgsaveFailed(World, s))
          /\ Count("events")

\* The next thing the master sent: the answer to PSYNC (the reading half of
\* slaveTryPartialResynchronization, then syncWithMaster), the snapshot, or
\* the stream.
Receive(r) ==
    LET x    == link[r].answer
        read == [World EXCEPT !.link[r].answer = NoAnswer]
    IN  \/ /\ x.type = "continue"
           /\ Become(PsyncContinue(FailoverAnswered(read, r), r, x.id))
           /\ UNCHANGED count
        \/ /\ x.type = "fullresync"
           /\ Become(Set(FailoverAnswered([World EXCEPT !.link[r].answer.type = "rdb"], r), r,
                 [state |-> "transfer", initial |-> [id |-> x.id, off |-> x.off]]))
           /\ UNCHANGED count
        \/ /\ x.type = "error"
           /\ Become(abortFailover(read, r))
           /\ UNCHANGED count
        \/ /\ x.type = "rdb" /\ link[r].phase = "online"
           /\ \E how \in {"disk", "socket"} : Become(Loaded(read, r, x.rdb, how))
           /\ UNCHANGED count
        \/ /\ x.type = "rdb" /\ link[r].phase = "online"
           /\ count.events < MaxEvents
           /\ \E how \in {"disk", "socket", "swapdb"} : Become(LoadFailed(read, r, how))
           /\ Count("events")
        \/ /\ x.type = "none" /\ link[r].stream # <<>>
           /\ Become(ApplyWrite([World EXCEPT !.link[r].stream = Tail(@)], r,
                                Head(link[r].stream)))
           /\ UNCHANGED count

\* The replica finds its connection closed, broken or timed out.  A planned
\* failover whose PSYNC gets no answer is tried again or given up.
LinkLost(r) ==
    LET lost == cancelReplicationHandshake(replicationCacheMaster(World, r), r)
    IN  /\ link[r] # NoLink
        /\ \/ link[r].closed /\ UNCHANGED count
           \/ ~link[r].closed /\ count.events < MaxEvents /\ Count("events")
        /\ \/ Become(lost)
           \/ /\ srv[r].state = "psync" /\ srv[r].failover = "progress"
              /\ Become(abortFailover(World, r))

\* Mutant: the replication ID outlives the backlog.
FreeBacklog_keepsId(m) ==
    /\ srv[m].host = NoOne
    /\ HasBacklog(World, m)
    /\ Slaves(World, m) = {}
    /\ Become(freeReplicationBacklog(World, m))
    /\ UNCHANGED count

\* replicationCron: a master without slaves gives its backlog back.
FreeBacklog(m) ==
    /\ srv[m].host = NoOne
    /\ HasBacklog(World, m)
    /\ Slaves(World, m) = {}
    /\ Become(freeReplicationBacklog(
           clearReplicationId2(changeReplicationId(World, m), m), m))
    /\ UNCHANGED count

\* loadDataFromDisk, without AOF.
loadDataFromDisk(w, s) ==
    LET rsi == w.disk[s].rsi
        w1  == Set(w, s, [data |-> w.disk[s].data])
        w2  == Set(w1, s, [replid |-> rsi.id, offset |-> rsi.off])
        w3  == Set(w1, s, [replid2 |-> rsi.id, second |-> rsi.off + 1, offset |-> rsi.off])
    IN  CASE rsi = NoMaster -> w1
          [] rsi # NoMaster /\ w.srv[s].host # NoOne ->
                replicationCacheMasterUsingMyself(w2, s)
          [] OTHER -> createReplicationBacklog(w3, s)

\* A crash and the start of a new process.  Its configuration file may know of
\* the last REPLICAOF (CONFIG REWRITE) or not, and knows of no failover.
Restart(s) ==
    /\ count.events < MaxEvents
    /\ \E h \in {NoOne, IF srv[s].failover = "no" THEN srv[s].host ELSE NoOne} :
        LET w == [World EXCEPT
                    !.ids = @ + 1,
                    !.srv[s] = initServer(ids + 1, h),
                    !.link = [r \in Servers |->
                        CASE r = s -> NoLink
                          [] r # s /\ link[r].to = s -> [link[r] EXCEPT !.closed = TRUE]
                          [] OTHER -> link[r]]]
        IN  Become(loadDataFromDisk(w, s))
    /\ Count("events")

\* Every server is in sync with the master it was first configured with: the
\* root has drawn an ID when its first slave came, and that is everybody's.
\* The snapshots for the first synchronizations are still on disk.
Init ==
    /\ srv = [s \in Servers |->
          LET up == [initServer(1, FirstHost[s]) EXCEPT
                        !.backlog = [offset |-> 1, histlen |-> 0]]
          IN  IF FirstHost[s] = NoOne THEN up
              ELSE [up EXCEPT !.state = "connected", !.master = [id |-> 1, off |-> 0]]]
    /\ link = [s \in Servers |->
          IF FirstHost[s] = NoOne THEN NoLink
          ELSE [NoLink EXCEPT !.to = FirstHost[s], !.phase = "online"]]
    /\ disk = [s \in Servers |-> [data |-> <<>>, rsi |-> [id |-> 1, off |-> 0]]]
    /\ ids = 1
    /\ count = [writes |-> 0, events |-> 0]

Step(s) ==
    \/ Write(s)
    \/ \E h \in Servers \cup {NoOne} : replicaofCommand(s, h)
    \/ \E t \in Servers \cup {NoOne}, force \in BOOLEAN : failoverCommand(s, t, force)
    \/ failoverAbort(s)
    \/ updateFailoverStatus(s)
    \/ syncCommand(s)
    \/ replicationStartPendingFork(s)
    \/ saveCommand(s)
    \/ updateSlavesWaitingBgsave(s)
    \/ Receive(s)
    \/ LinkLost(s)
    \/ FreeBacklog(s)
    \/ Restart(s)

Next == \E s \in Servers : Step(s)

Spec == Init /\ [][Next]_vars

\* What a server does by itself: the event loop reads its sockets, reaps its
\* child, and runs replicationCron every second.
Own(s) ==
    \/ syncCommand(s)
    \/ Receive(s)
    \/ LinkLost(s)
    \/ updateSlavesWaitingBgsave(s)
    \/ replicationStartPendingFork(s)
    \/ updateFailoverStatus(s)

\* It has something of this to do, faults and clients apart.
Busy(s) ==
    \/ srv[s].state = "connect" /\ (Away(srv[srv[s].host]) => srv[s].failover = "progress")
    \/ link[s].answer.type \in {"continue", "fullresync", "error"}
    \/ link[s].answer.type = "rdb" /\ link[s].phase = "online"
    \/ link[s].answer.type = "none" /\ link[s].stream # <<>>
    \/ link[s].closed
    \/ srv[s].bgsave # <<>>
    \/ Waiting(World, s, "start") # {}
    \/ srv[s].failover = "waiting"

\* A server that has something to do goes on doing it.  (The weak fairness of
\* Own, with the condition it is enabled under written out.)  FAILOVER is given
\* a TIMEOUT.
Fairness == \A s \in Servers : []<>~Busy(s) \/ []<><<Own(s)>>_vars

FairSpec == Spec /\ Fairness

-----------------------------------------------------------------------------
(* Properties. *)

Ids == 0 .. ids

\* Type invariant of the servers, connections and files.
TypeOK ==
    /\ \A s \in Servers :
        /\ srv[s].host \in Servers \cup {NoOne}
        /\ srv[s].state \in {"none", "connect", "psync", "transfer", "connected"}
        /\ {srv[s].replid, srv[s].replid2, srv[s].master.id, srv[s].cached.id} \subseteq Ids
        /\ srv[s].replid # NoId
        /\ srv[s].offset \in 0 .. MaxWrites
        /\ srv[s].backlog.histlen \in -1 .. BacklogSize
        /\ HasBacklog(World, s) =>
              srv[s].backlog.offset + srv[s].backlog.histlen = srv[s].offset + 1
        /\ (srv[s].host = NoOne) = (srv[s].state = "none")
        /\ (srv[s].master # NoMaster) = (srv[s].state = "connected")
        /\ (link[s] = NoLink) = (srv[s].state \in {"none", "connect"})

\* The (ID, offset) a server would ask a partial resynchronization with, and
\* the data set it has then; its snapshot, if it restarted as a replica.
Claims(s) ==
    {[id |-> srv[s].cached.id, off |-> srv[s].cached.off, data |-> srv[s].data]} \cup
    {[id |-> srv[s].master.id, off |-> srv[s].master.off, data |-> srv[s].data]} \cup
    {[id |-> rdb.rsi.id, off |-> rdb.rsi.off, data |-> rdb.data] :
        rdb \in {disk[s]} \cup {srv[s].bgsave[i] : i \in DOMAIN srv[s].bgsave}}

\* The data set a server had when its offset was off, as far as its backlog goes.
DataAt(s, off) == SubSeq(srv[s].data, 1, Len(srv[s].data) - (srv[s].offset - off))

\* A partial resynchronization is only granted to a server whose data set is
\* exactly what the granting one had at that offset: after any sequence of
\* REPLICAOF, FAILOVER, restarts, freed backlogs and lost connections, what
\* masterTryPartialResynchronization accepts (the ID, or the second ID up to
\* its offset, and the backlog's range) denotes the same history.
PartialResyncIsSafe ==
    \A m, r \in Servers : \A c \in Claims(r) :
        (c.id # NoId /\ masterTryPartialResynchronization(
                            World, m, [id |-> c.id, off |-> c.off + 1]))
            => c.data = DataAt(m, c.off)

\* A slave that will have loaded and applied all that was sent to it has the
\* data set of its master: the snapshot it was given, the one it joined, or
\* its own data set, followed by the stream it is fed, leave nothing out and
\* apply nothing twice. Its offset will be its master's too, in the master's
\* history: WAIT, FAILOVER and a later PSYNC count in it.
SlavesGetEverything ==
    \A m \in Servers : \A r \in Slaves(World, m) :
        LET x    == link[r].answer
            base == IF x.type \in {"fullresync", "rdb"} THEN x.rdb.data ELSE srv[r].data
        IN  /\ link[r].phase \in {"end", "online"} => base \o link[r].stream = srv[m].data
            /\ (link[r].phase = "online" /\ srv[r].state = "connected") =>
                  /\ srv[r].replid = srv[m].replid
                  /\ srv[r].offset + Len(link[r].stream) = srv[m].offset

\* The master of a replica, connected or cached, is at the replica's own ID
\* and offset, so a snapshot may record the latter (rdbPopulateSaveInfo: "the
\* offset in the cached master is valid"); at most one of them exists
\* (serverAssert of replicationCacheMaster); and a connected replica has a
\* backlog, which ends at its own offset (TypeOK), to serve others from after
\* a promotion.
MasterIsMyself ==
    /\ TypeOK
    /\ \A s \in Servers :
        /\ \A k \in {srv[s].master, srv[s].cached} :
              k # NoMaster => k = [id |-> srv[s].replid, off |-> srv[s].offset]
        /\ srv[s].master = NoMaster \/ srv[s].cached = NoMaster
        /\ srv[s].state = "connected" => HasBacklog(World, s)
        /\ Slaves(World, s) # {} => HasBacklog(World, s)

\* FAILOVER without FORCE hands over to a replica that has every write: when
\* updateFailoverStatus turns the master into a replica of its target, their
\* data sets are equal.  The one exception is a master at offset 0, which has
\* not counted a write: the repl_ack_off of every slave is its offset then, and
\* it may hand over to one that has not even loaded the snapshot.
FailoverLosesNothing ==
    [][\A m \in Servers :
        (srv[m].failover = "waiting" /\ srv'[m].failover = "progress" /\ ~srv[m].force)
        => LET t == srv'[m].target
           IN  \/ srv'[t].data = srv'[m].data
               \/ srv[m].offset = 0 /\ srv[t].state # "connected"]_vars

\* When commands and faults stop, every replica ends up connected and with its
\* master's data set, whatever state they left it in: no refused or lost
\* request, half-done synchronization or planned failover leaves it behind.
ReplicasCatchUp ==
    <>[](\A r \in Servers : srv[r].host # NoOne =>
            /\ srv[r].state = "connected"
            /\ srv[r].data = srv[srv[r].host].data)
=============================================================================
