--------------------------- MODULE BlockedClients ---------------------------
(***************************************************************************)
(* Clients blocked on keys: blocked.c, timeout.c and the parts of the      *)
(* event loop that drive them (processInputBuffer, processCommand,         *)
(* blockedBeforeSleep).  BLPOP, BLMOVE and XREADGROUP block their client   *)
(* for a set of keys; a command that creates, feeds, deletes or overwrites *)
(* a key signals it; after every command, and before every sleep, the      *)
(* signalled keys are served by executing the blocked commands again.      *)
(*                                                                         *)
(* Everything here runs on the main thread.  What interleaves is the       *)
(* order in which the sockets become readable, time passes, keys expire,   *)
(* clients disconnect and the server is paused, against the phases of the  *)
(* event loop: loop is the phase, server.current the client whose input buffer  *)
(* is being processed, server.l and server.rest the iteration of           *)
(* handleClientsBlockedOnKeys.                                             *)
(*                                                                         *)
(* Data: a value is its type and its number of elements (for a stream the  *)
(* entries its one group has not delivered).  A time is No, Passed or      *)
(* Future, relative to now, so the clock needs no bound.                   *)
(***************************************************************************)
EXTENDS Integers, Sequences, FiniteSets, SequencesExt

CONSTANTS
    Clients,        \* connections
    Keys,           \* keys of the one database
    Commands,       \* the commands a client may send
    InitialData,    \* the data sets a behaviour may start from
    NoOne,          \* no client
    MaxCommands     \* bound: commands sent in a behaviour

VARIABLES
    loop,           \* "events", "keys" or "unblocked": where the event loop is
    sent,           \* commands sent so far (bound)
    server          \* struct redisServer and its clients, see Init

vars == <<loop, sent, server>>

-----------------------------------------------------------------------------
(* Values and clients.                                                     *)

None == [t |-> "none", n |-> 0]

No == 0        \* c->bstate.timeout == 0: block forever
Passed == 1    \* a time before now
Future == 2    \* a time after now

NoCommand == [op |-> "none"]

\* cmd is c->argv; pending is CLIENT_PENDING_COMMAND; in_table is
\* CLIENT_IN_TO_TABLE; CLIENT_UNBLOCKED is membership of unblocked_clients.
\* owed and due are history: the replies the client still waits for, and
\* the time at which the command it first blocked with must be answered.
createClient ==
    [cmd |-> NoCommand, inbuf |-> <<>>, pending |-> FALSE,
     btype |-> "NONE", keys |-> {}, timeout |-> No, in_table |-> FALSE,
     unblock_on_nokey |-> FALSE, owed |-> 0, due |-> No]

Blocked(w, c) == w.cl[c].btype # "NONE"

\* History: the clients that wait on keys, in the order they began to.
Waits(w, c) == [w EXCEPT !.arrivals = IF Contains(@, c) THEN @ ELSE Append(@, c)]
Waited(w, c) == [w EXCEPT !.arrivals = Remove(@, c)]

addReply(w, c) == Waited([w EXCEPT !.cl[c].owed = @ - 1], c)

-----------------------------------------------------------------------------
(* timeout.c.                                                              *)

addClientToTimeoutTable(w, c) ==
    LET entry == <<w.cl[c].timeout, c>>
    IN  IF w.cl[c].timeout = No \/ entry \in w.timeout_table THEN w
        ELSE [w EXCEPT !.timeout_table = @ \cup {entry},
                       !.cl[c].in_table = TRUE]

removeClientFromTimeoutTable(w, c) ==
    IF ~w.cl[c].in_table THEN w
    ELSE [w EXCEPT !.timeout_table = @ \ {<<w.cl[c].timeout, c>>},
                   !.cl[c].in_table = FALSE]

-----------------------------------------------------------------------------
(* Blocking and unblocking.                                                *)

blockClient(w, c, btype) ==
    addClientToTimeoutTable([w EXCEPT !.cl[c].btype = btype], c)

queueClientForReprocessing(w, c) ==
    IF Contains(w.unblocked_clients, c) THEN w
    ELSE [w EXCEPT !.unblocked_clients = Append(@, c)]

\* Mutants of blockForKeys: a re-executed command gets a new timeout; a client
\* is put at the head of a key's list.
blockForKeys_newTimeout(w, c, btype, keys, timeout, nokey, reexecuting) ==
    LET ks == ToSet(keys)
        v == [w EXCEPT !.cl[c].timeout = timeout,
                       !.cl[c].due = IF reexecuting THEN @ ELSE timeout,
                       !.cl[c].keys = ks,
                       !.cl[c].unblock_on_nokey = nokey,
                       !.cl[c].pending = TRUE,
                       !.blocking_keys =
                           [k \in Keys |-> IF k \in ks THEN Append(@[k], c) ELSE @[k]],
                       !.unblock_on_nokey =
                           [k \in Keys |-> IF nokey /\ k \in ks THEN @[k] + 1 ELSE @[k]]]
    IN  blockClient(Waits(v, c), c, btype)

blockForKeys_head(w, c, btype, keys, timeout, nokey, reexecuting) ==
    LET ks == ToSet(keys)
        v == [w EXCEPT !.cl[c].timeout = IF reexecuting THEN @ ELSE timeout,
                       !.cl[c].due = IF reexecuting THEN @ ELSE timeout,
                       !.cl[c].keys = ks,
                       !.cl[c].unblock_on_nokey = nokey,
                       !.cl[c].pending = TRUE,
                       !.blocking_keys =
                           [k \in Keys |-> IF k \in ks THEN <<c>> \o @[k] ELSE @[k]],
                       !.unblock_on_nokey =
                           [k \in Keys |-> IF nokey /\ k \in ks THEN @[k] + 1 ELSE @[k]]]
    IN  blockClient(Waits(v, c), c, btype)

\* The keys a client blocks for, both sides; a re-executed command keeps the
\* timeout it blocked with first.
blockForKeys(w, c, btype, keys, timeout, nokey, reexecuting) ==
    LET ks == ToSet(keys)
        v == [w EXCEPT !.cl[c].timeout = IF reexecuting THEN @ ELSE timeout,
                       !.cl[c].due = IF reexecuting THEN @ ELSE timeout,
                       !.cl[c].keys = ks,
                       !.cl[c].unblock_on_nokey = nokey,
                       !.cl[c].pending = TRUE,
                       !.blocking_keys =
                           [k \in Keys |-> IF k \in ks THEN Append(@[k], c) ELSE @[k]],
                       !.unblock_on_nokey =
                           [k \in Keys |-> IF nokey /\ k \in ks THEN @[k] + 1 ELSE @[k]]]
    IN  blockClient(Waits(v, c), c, btype)

blockPostponeClient(w, c) ==
    LET v == [w EXCEPT !.cl[c].timeout = No, !.cl[c].due = No]
    IN  [blockClient(Waited(v, c), c, "POSTPONE") EXCEPT
            !.postponed_clients = Append(@, c), !.cl[c].pending = TRUE]

\* Mutant: the count goes only with the last client of the key.
releaseBlockedEntry_noCount(w, c, k) ==
    LET left == Remove(w.blocking_keys[k], c)
    IN  [w EXCEPT !.blocking_keys[k] = left,
                  !.unblock_on_nokey[k] = IF left = <<>> THEN 0 ELSE @,
                  !.cl[c].keys = @ \ {k}]

\* One key of a client: out of the key's list, and the count of the clients
\* that want to know of its deletion.
releaseBlockedEntry(w, c, k) ==
    LET left == Remove(w.blocking_keys[k], c)
    IN  [w EXCEPT
            !.blocking_keys[k] = left,
            !.unblock_on_nokey[k] = IF left = <<>> THEN 0
                                    ELSE IF w.cl[c].unblock_on_nokey THEN @ - 1
                                    ELSE @,
            !.cl[c].keys = @ \ {k}]

unblockClientWaitingData(w, c) ==
    FoldLeft(LAMBDA v, k : releaseBlockedEntry(v, c, k), w, SetToSeq(w.cl[c].keys))

unblockClient(w, c, requeue) ==
    LET v == IF w.cl[c].btype = "POSTPONE"
             THEN [w EXCEPT !.postponed_clients = Remove(@, c)]
             ELSE unblockClientWaitingData(w, c)
        u == removeClientFromTimeoutTable(
                [v EXCEPT !.cl[c].btype = "NONE",
                          !.cl[c].unblock_on_nokey = FALSE], c)
    IN  IF requeue THEN queueClientForReprocessing(u, c) ELSE u

\* Mutant: the command stays pending after its timeout has been answered.
unblockClientOnTimeout_pending(w, c) == unblockClient(addReply(w, c), c, TRUE)

\* unblockClientOnTimeout and unblockClientOnError differ in their wording.
unblockClientOnTimeout(w, c) ==
    unblockClient([addReply(w, c) EXCEPT !.cl[c].pending = FALSE], c, TRUE)

blockedClientMayTimeout(w, c) == w.cl[c].btype \in {"LIST", "STREAM"}

checkBlockedClientTimeout(w, c) ==
    IF Blocked(w, c) /\ w.cl[c].timeout = Passed
    THEN unblockClientOnTimeout(w, c) ELSE w

\* Every entry of the table whose time has passed, in the table's order.
handleBlockedClientsTimeout(w) ==
    LET expired == {c \in Clients : <<Passed, c>> \in w.timeout_table}
        one(v, c) == [checkBlockedClientTimeout([v EXCEPT !.cl[c].in_table = FALSE], c)
                      EXCEPT !.timeout_table = @ \ {<<Passed, c>>}]
    IN  FoldLeft(one, w, SetToSeq(expired))

-----------------------------------------------------------------------------
(* Signals: the dictionary db->ready_keys holds the keys of ready_keys and *)
(* of the part of l that is still to be served.                            *)

getBlockedTypeByType(t) ==
    CASE t = "list" -> "LIST" [] t = "stream" -> "STREAM" [] OTHER -> "NONE"

\* Mutant: a deleted key is not signalled.
signalKeyAsReadyLogic_added(w, k, t, deleted) ==
    LET b == getBlockedTypeByType(t)
    IN  IF \/ b = "NONE" \/ deleted
           \/ \A c \in Clients : w.cl[c].btype # b
           \/ w.blocking_keys[k] = <<>>
           \/ Contains(w.ready_keys \o w.l, k)
        THEN w
        ELSE [w EXCEPT !.ready_keys = Append(@, k)]

signalKeyAsReadyLogic(w, k, t, deleted) ==
    LET b == getBlockedTypeByType(t)
    IN  IF \/ b = "NONE"
           \/ \A c \in Clients : w.cl[c].btype # b
           \/ deleted /\ w.unblock_on_nokey[k] = 0
           \/ ~deleted /\ w.blocking_keys[k] = <<>>
           \/ Contains(w.ready_keys \o w.l, k)
        THEN w
        ELSE [w EXCEPT !.ready_keys = Append(@, k)]

dbAdd(w, k, v) == signalKeyAsReadyLogic([w EXCEPT !.db[k] = v], k, v.t, FALSE)

dbDelete(w, k) == signalKeyAsReadyLogic([w EXCEPT !.db[k] = None], k, w.db[k].t, TRUE)

\* setKey: a missing key is added, an existing one overwritten.
setKey(w, k, v) ==
    IF w.db[k] = None THEN dbAdd(w, k, v)
    ELSE signalKeyAsReadyLogic([w EXCEPT !.db[k] = v], k, w.db[k].t, TRUE)

-----------------------------------------------------------------------------
(* Commands.  Call is call(): the command's effect, or its client blocked. *)
(* deny is CLIENT_DENY_BLOCKING, set inside EXEC; a wrong type, a missing  *)
(* group and a nil reply leave the data alone.                             *)

One(t) == [t |-> t, n |-> 1]

Has(w, k, t) == w.db[k].t = t

\* listTypePop and listElementsRemoved: the last element takes the key.
Pop(w, k) ==
    IF w.db[k].n = 1 THEN dbDelete(w, k) ELSE [w EXCEPT !.db[k].n = @ - 1]

Push(w, k) ==
    IF w.db[k] = None THEN dbAdd(w, k, One("list"))
    ELSE IF Has(w, k, "list") THEN [w EXCEPT !.db[k].n = @ + 1]
    ELSE w

getTimeout(cmd) == IF cmd.timeout THEN Future ELSE No

blockingPopGenericCommand(w, c, cmd, deny, reexecuting) ==
    LET present == SelectSeq(cmd.keys, LAMBDA k : w.db[k] # None)
    IN  IF present # <<>>
        THEN IF Has(w, Head(present), "list") THEN Pop(w, Head(present)) ELSE w
        ELSE IF deny THEN w
        ELSE blockForKeys(w, c, "LIST", cmd.keys, getTimeout(cmd), FALSE, reexecuting)

blmoveGenericCommand(w, c, cmd, deny, reexecuting) ==
    LET src == cmd.keys[1]
        dst == cmd.keys[2]
    IN  IF w.db[src] = None
        THEN IF deny THEN w
             ELSE blockForKeys(w, c, "LIST", <<src>>, getTimeout(cmd), FALSE, reexecuting)
        ELSE IF Has(w, src, "list") /\ (w.db[dst] = None \/ Has(w, dst, "list"))
        THEN Pop(Push(w, dst), src)
        ELSE w

\* XREADGROUP with ">" and COUNT 1: one entry of every stream that has one.
xreadCommand(w, c, cmd, deny, reexecuting) ==
    LET ks == ToSet(cmd.keys)
        some == {k \in ks : w.db[k].n > 0}
    IN  IF \E k \in ks : ~Has(w, k, "stream") THEN w
        ELSE IF some # {}
        THEN [w EXCEPT !.db = [k \in Keys |-> IF k \in some THEN [@[k] EXCEPT !.n = @ - 1]
                                              ELSE @[k]]]
        ELSE IF deny THEN w
        ELSE blockForKeys(w, c, "STREAM", cmd.keys, getTimeout(cmd), TRUE, reexecuting)

xaddCommand(w, k) ==
    IF Has(w, k, "stream")
    THEN signalKeyAsReadyLogic([w EXCEPT !.db[k].n = @ + 1], k, "stream", FALSE)
    ELSE w

\* XGROUP CREATE key group $ MKSTREAM
xgroupCommand(w, k) ==
    IF w.db[k] = None THEN dbAdd(w, k, [t |-> "stream", n |-> 0]) ELSE w

clientUnblock(w, target) ==
    IF Blocked(w, target) /\ blockedClientMayTimeout(w, target)
    THEN unblockClientOnTimeout(w, target) ELSE w

Call1(w, c, cmd, deny, reexecuting) ==
    CASE cmd.op = "BLPOP" -> blockingPopGenericCommand(w, c, cmd, deny, reexecuting)
      [] cmd.op = "BLMOVE" -> blmoveGenericCommand(w, c, cmd, deny, reexecuting)
      [] cmd.op = "XREADGROUP" -> xreadCommand(w, c, cmd, deny, reexecuting)
      [] cmd.op = "RPUSH" -> Push(w, cmd.key)
      [] cmd.op = "XADD" -> xaddCommand(w, cmd.key)
      [] cmd.op = "XGROUP" -> xgroupCommand(w, cmd.key)
      [] cmd.op = "DEL" -> IF w.db[cmd.key] = None THEN w ELSE dbDelete(w, cmd.key)
      [] cmd.op = "SET" -> setKey(w, cmd.key, One("str"))
      [] cmd.op = "SORT" -> setKey(w, cmd.key, One("list"))  \* SORT ... STORE key
      [] cmd.op = "UNBLOCK" -> clientUnblock(w, cmd.target)
      [] cmd.op = "PAUSE" -> [w EXCEPT !.paused = TRUE]

call(w, c, cmd, reexecuting) ==
    IF cmd.op = "EXEC"
    THEN FoldLeft(LAMBDA v, q : Call1(v, c, q, TRUE, FALSE), w, cmd.cmds)
    ELSE Call1(w, c, cmd, FALSE, reexecuting)

\* CMD_WRITE or CMD_MAY_REPLICATE, of an EXEC also by what it holds.
isMayReplicate(cmd) ==
    IF cmd.op = "EXEC" THEN \E i \in DOMAIN cmd.cmds : cmd.cmds[i].op \notin {"UNBLOCK", "PAUSE"}
    ELSE cmd.op \notin {"UNBLOCK", "PAUSE"}

\* processCommand and commandProcessed of the command in c->argv: postponed
\* while the server is paused, otherwise called, then answered unless it
\* blocked its client.
processCommand(w, c, reexecuting) ==
    LET cmd == w.cl[c].cmd
        v == IF w.paused /\ isMayReplicate(cmd) THEN blockPostponeClient(w, c)
             ELSE call(w, c, cmd, reexecuting)
    IN  IF Blocked(v, c) THEN v ELSE [addReply(v, c) EXCEPT !.cl[c].cmd = NoCommand]

\* Mutant: a client that was served is not queued for its input.
unblockClientOnKey_noQueue(w, c, k) ==
    LET v == unblockClient(releaseBlockedEntry(w, c, k), c, FALSE)
    IN  processCommand([v EXCEPT !.cl[c].pending = FALSE], c, TRUE)

\* A key became ready for a client: unblocked for all its keys, its command
\* executed again, and queued for its input unless it blocked again.
unblockClientOnKey(w, c, k) ==
    LET v == unblockClient(releaseBlockedEntry(w, c, k), c, FALSE)
        u == processCommand([v EXCEPT !.cl[c].pending = FALSE], c, TRUE)
    IN  IF Blocked(u, c) THEN u ELSE queueClientForReprocessing(u, c)

-----------------------------------------------------------------------------
(* handleClientsBlockedOnKeys, one client at a time: l is the list of keys *)
(* it took from ready_keys, rest the clients of the key it serves that are *)
(* still to visit.  It takes ready_keys again until nothing is left.       *)

Idle(w) == w.l = <<>> /\ w.rest = <<>>

handleClientsBlockedOnKeys(w) ==
    IF Idle(w) THEN [w EXCEPT !.l = w.ready_keys, !.ready_keys = <<>>] ELSE w

takeReadyKey(w) ==
    LET k == Head(w.l)
    IN  [w EXCEPT !.l = Tail(@),
                  !.rest = [i \in DOMAIN w.blocking_keys[k] |-> <<k, w.blocking_keys[k][i]>>]]

handleClientBlockedOnKey(w) ==
    LET k == Head(w.rest)[1]
        c == Head(w.rest)[2]
        v == [w EXCEPT !.rest = Tail(@)]
    IN  IF \/ w.db[k] # None /\ w.cl[c].btype = getBlockedTypeByType(w.db[k].t)
           \/ w.cl[c].unblock_on_nokey
        THEN unblockClientOnKey(v, c, k)
        ELSE v

Postponed(w, c) == w.cl[c].btype = "POSTPONE"

\* A command executed outside handleClientsBlockedOnKeys is followed by it.
executeCommand(w, c) ==
    LET v == processCommand(w, c, FALSE)
    IN  IF Postponed(v, c) THEN v ELSE handleClientsBlockedOnKeys(v)

-----------------------------------------------------------------------------
(* The event loop.                                                         *)

Init ==
    /\ loop = "events"
    /\ sent = 0
    /\ \E db \in InitialData :
       server = [db |-> db,
                 cl |-> [c \in Clients |-> createClient],
                 paused |-> FALSE,
                 blocking_keys |-> [k \in Keys |-> <<>>],
                 unblock_on_nokey |-> [k \in Keys |-> 0],
                 timeout_table |-> {},
                 unblocked_clients |-> <<>>,
                 postponed_clients |-> <<>>,
                 ready_keys |-> <<>>, l |-> <<>>, rest |-> <<>>,
                 current |-> NoOne,
                 arrivals |-> <<>>]

AtRest == Idle(server) /\ server.current = NoOne
WaitsForEvents == loop = "events" /\ AtRest

\* What blockedBeforeSleep would find to do.
WorkToDo ==
    \/ server.ready_keys # <<>> \/ server.unblocked_clients # <<>>
    \/ \E e \in server.timeout_table : e[1] = Passed

\* processInputBuffer goes on with the client's next command.
MayProcess(w, c) ==
    /\ ~Blocked(w, c) /\ ~Contains(w.unblocked_clients, c) /\ ~w.cl[c].pending
    /\ w.cl[c].inbuf # <<>>

\* A socket is readable: its command is in the buffer, the buffer is processed.
readQueryFromClient ==
    /\ WaitsForEvents /\ sent < MaxCommands
    /\ \E c \in Clients, cmd \in Commands :
          server' = [server EXCEPT !.cl[c].inbuf = Append(@, cmd),
                                   !.cl[c].owed = @ + 1,
                                   !.current = c]
    /\ sent' = sent + 1
    /\ UNCHANGED loop

processInputBuffer ==
    /\ Idle(server) /\ server.current # NoOne
    /\ LET c == server.current
       IN  server' = IF MayProcess(server, c)
                     THEN executeCommand(
                            [server EXCEPT !.cl[c].cmd = Head(server.cl[c].inbuf),
                                           !.cl[c].inbuf = Tail(@)], c)
                     ELSE [server EXCEPT !.current = NoOne]
    /\ UNCHANGED <<loop, sent>>

ServeKey ==
    /\ server.rest = <<>> /\ server.l # <<>>
    /\ server' = handleClientsBlockedOnKeys(takeReadyKey(server))
    /\ UNCHANGED <<loop, sent>>

ServeClient ==
    /\ server.rest # <<>>
    /\ server' = handleClientsBlockedOnKeys(handleClientBlockedOnKey(server))
    /\ UNCHANGED <<loop, sent>>

\* blockedBeforeSleep: expired timeouts, ready keys, unblocked clients.  A pass
\* that has none of them changes nothing and is left out.
blockedBeforeSleep ==
    /\ WaitsForEvents
    /\ WorkToDo
    /\ server' = handleClientsBlockedOnKeys(handleBlockedClientsTimeout(server))
    /\ loop' = "keys"
    /\ UNCHANGED sent

KeysServed ==
    /\ loop = "keys" /\ AtRest
    /\ loop' = "unblocked"
    /\ UNCHANGED <<sent, server>>

processUnblockedClients ==
    /\ loop = "unblocked" /\ AtRest
    /\ IF server.unblocked_clients = <<>>
       THEN loop' = "events" /\ UNCHANGED server
       ELSE LET c == Head(server.unblocked_clients)
                v == [server EXCEPT !.unblocked_clients = Tail(@),
                                    !.cl[c].pending = FALSE, !.current = c]
            IN  /\ server' = IF Blocked(v, c)
                             THEN [server EXCEPT !.unblocked_clients = Tail(@)]
                             ELSE IF server.cl[c].pending THEN executeCommand(v, c)
                             ELSE [v EXCEPT !.cl[c].cmd = NoCommand]
                /\ UNCHANGED loop
    /\ UNCHANGED sent

\* Time passes: what was in the future is now past.
Tick ==
    /\ WaitsForEvents
    /\ LET past(t) == IF t = Future THEN Passed ELSE t
       IN  server' = [server EXCEPT
              !.cl = [c \in Clients |-> [@[c] EXCEPT !.timeout = past(@), !.due = past(@)]],
              !.timeout_table = {<<past(e[1]), e[2]>> : e \in @}]
    /\ server' # server
    /\ UNCHANGED <<loop, sent>>

\* activeExpireCycle, in serverCron: no command runs, the key is served at the
\* next command or before the next sleep.
activeExpireCycle ==
    /\ WaitsForEvents /\ ~server.paused
    /\ \E k \in Keys : /\ server.db[k] # None
                       /\ server' = dbDelete(server, k)
    /\ UNCHANGED <<loop, sent>>

\* freeClient; the identifier is free for a new connection.
freeClient ==
    /\ WaitsForEvents
    /\ \E c \in Clients :
          LET v == IF Blocked(server, c) THEN unblockClient(server, c, TRUE) ELSE server
          IN  /\ server.cl[c] # createClient
              /\ server' = Waited([v EXCEPT !.unblocked_clients = Remove(@, c),
                                            !.cl[c] = createClient], c)
    /\ UNCHANGED <<loop, sent>>

\* Mutant: only the first postponed client goes on.
unpauseActions_first ==
    /\ WaitsForEvents /\ server.paused
    /\ LET v == [server EXCEPT !.paused = FALSE]
       IN  server' = IF v.postponed_clients = <<>> THEN v
                     ELSE unblockClient(v, Head(v.postponed_clients), TRUE)
    /\ UNCHANGED <<loop, sent>>

\* CLIENT UNPAUSE or the end of the pause: unblockPostponedClients.
unpauseActions ==
    /\ WaitsForEvents /\ server.paused
    /\ server' = FoldLeft(LAMBDA v, c : unblockClient(v, c, TRUE),
                          [server EXCEPT !.paused = FALSE], server.postponed_clients)
    /\ UNCHANGED <<loop, sent>>

LoopStep ==
    \/ processInputBuffer \/ ServeKey \/ ServeClient
    \/ KeysServed \/ processUnblockedClients

Next ==
    \/ readQueryFromClient \/ LoopStep \/ blockedBeforeSleep
    \/ Tick \/ activeExpireCycle \/ freeClient \/ unpauseActions

\* Weak fairness: the main thread keeps running, time passes, and every pause
\* ends.  It is WF_vars(A) of each action with ENABLED A written out as A's
\* guard, which TLC evaluates faster.
Fairness ==
    /\ []<>WaitsForEvents \/ []<><<LoopStep>>_vars
    /\ []<>~(WaitsForEvents /\ WorkToDo) \/ []<><<blockedBeforeSleep>>_vars
    /\ []<>~(WaitsForEvents /\ \E c \in Clients : server.cl[c].timeout = Future)
          \/ []<><<Tick>>_vars
    /\ []<>~(WaitsForEvents /\ server.paused) \/ []<><<unpauseActions>>_vars

Spec == Init /\ [][Next]_vars /\ Fairness

-----------------------------------------------------------------------------
(* Properties.                                                             *)

\* Types of the state; a client is in a blocking state, has a pending command
\* or waits in its buffer only for commands it sent.
TypeOK ==
    /\ loop \in {"events", "keys", "unblocked"} /\ sent \in 0..MaxCommands
    /\ \A k \in Keys : /\ server.db[k].t \in {"none", "str", "list", "stream"}
                       /\ server.db[k].n \in Nat
                       /\ (server.db[k].t = "none") = (server.db[k] = None)
                       /\ server.db[k].t = "list" => server.db[k].n > 0
    /\ \A c \in Clients :
          /\ server.cl[c].btype \in {"NONE", "LIST", "STREAM", "POSTPONE"}
          /\ server.cl[c].keys \subseteq Keys
          /\ server.cl[c].pending => server.cl[c].cmd # NoCommand
          /\ {server.cl[c].timeout, server.cl[c].due} \subseteq {No, Passed, Future}

\* The tables agree (blockForKeys, releaseBlockedEntry, the timeout table):
\* a client is in the list of a key, once, exactly when it is blocked for that
\* key; a key's count of clients that want to know of its deletion is their
\* number; the timeout table holds the clients blocked with a timeout, each
\* under its own; the postponed clients are those of CLIENT PAUSE; and the
\* clients handleClientsBlockedOnKeys has yet to visit are still in the list
\* it iterates. The state has its types besides.
TablesAgree ==
    LET cl == server.cl IN
    /\ TypeOK
    /\ \A k \in Keys :
          LET q == server.blocking_keys[k] IN
          /\ \A c \in Clients : Cardinality({i \in DOMAIN q : q[i] = c})
                                    = IF k \in cl[c].keys THEN 1 ELSE 0
          /\ server.unblock_on_nokey[k] =
                Cardinality({c \in Clients : k \in cl[c].keys /\ cl[c].unblock_on_nokey})
    /\ server.timeout_table =
          {<<cl[c].timeout, c>> : c \in {d \in Clients : Blocked(server, d) /\ cl[d].timeout # No}}
    /\ \A c \in Clients :
          /\ cl[c].in_table = (Blocked(server, c) /\ cl[c].timeout # No)
          /\ (cl[c].keys # {}) = blockedClientMayTimeout(server, c)
          /\ Postponed(server, c) = Contains(server.postponed_clients, c)
    /\ \A i \in DOMAIN server.rest :
          Contains(server.blocking_keys[server.rest[i][1]], server.rest[i][2])

\* No wakeup is lost (signalKeyAsReady, handleClientsBlockedOnKeys): when the
\* loop goes to sleep no client is blocked on a key it could be served from,
\* and none in XREADGROUP on a key that is no stream any more.
NoLostWakeup ==
    WaitsForEvents /\ server.ready_keys = <<>> =>
        \A c \in Clients : \A k \in server.cl[c].keys :
            IF server.cl[c].btype = "LIST" THEN ~Has(server, k, "list")
            ELSE server.db[k] = [t |-> "stream", n |-> 0]

\* Every command is answered once: what a client is owed is what is in its
\* buffer and the command it is blocked or postponed with, whichever of a
\* push, a timeout, CLIENT UNBLOCK or the end of a pause answers it first.
OneReplyEach ==
    \A c \in Clients :
        server.cl[c].owed = Len(server.cl[c].inbuf) + IF server.cl[c].pending THEN 1 ELSE 0

\* A blocked command keeps the timeout it was sent with, however often it is
\* executed again (blockForKeys "we need to retain the client's original
\* timeout"): after blockedBeforeSleep no client is blocked past it.
TimeoutsKept ==
    loop # "events" =>
        \A c \in Clients : blockedClientMayTimeout(server, c) => server.cl[c].due # Passed

\* No input is forgotten (queueClientForReprocessing): a client that is not
\* blocked and has a command to execute is being processed or is queued.
NoForgottenInput ==
    \A c \in Clients :
        /\ ~Blocked(server, c)
        /\ server.cl[c].pending \/ server.cl[c].inbuf # <<>>
        => server.current = c \/ Contains(server.unblocked_clients, c)

\* The clients waiting for lists are in the list of each key in the order in
\* which they began to wait ("serve clients using a FIFO behavior").
ListsAreFair ==
    \A k \in Keys :
        LET lists == SelectSeq(server.blocking_keys[k],
                               LAMBDA c : server.cl[c].btype = "LIST")
        IN  lists = SelectSeq(server.arrivals, LAMBDA c : Contains(lists, c))

\* A client blocked with a timeout, or by a pause, is unblocked in the end.
EventuallyUnblocked ==
    \A c \in Clients :
        (Blocked(server, c) /\ (server.cl[c].timeout # No \/ Postponed(server, c)))
            ~> ~Blocked(server, c)
=============================================================================
