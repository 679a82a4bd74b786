----------------------------- MODULE IoThreads -----------------------------
(***************************************************************************)
(* The main thread and the I/O threads (iothread.c, eventnotifier.c and    *)
(* the functions of networking.c and server.c they share): how clients are *)
(* handed from one to the other through lists under a mutex, when a thread *)
(* wakes the other up and when it relies on it to look, how the main       *)
(* thread pauses an I/O thread to work on its clients, and how clients are *)
(* closed from both sides.                                                 *)
(*                                                                         *)
(* A step is what a thread does between two accesses to what it shares: a  *)
(* list under its mutex, an atomic variable, a notifier. What a thread does*)
(* with a client it owns is part of such a step, and io[t].cur and         *)
(* main.cur tell whose data a thread is using between steps.               *)
(***************************************************************************)
EXTENDS Integers, Sequences, FiniteSets

CONSTANTS
    Clients,      \* connections, each used once
    Threads,      \* I/O threads, 1 .. io_threads_num - 1
    Commands,     \* what clients may send
    MaxPending,   \* IO_THREAD_MAX_PENDING_CLIENTS
    FsyncAlways,  \* appendfsync always
    NoClient,
    MaxEvents,    \* bound: requests, ends of connections and timers
    MaxPartial    \* bound: writes that the socket does not take whole

Main == 0         \* IOTHREAD_MAIN_THREAD_ID
NoLoop == -1      \* conn->el == NULL
EOF == [op |-> "eof"]

(* listSearchKey and listUnlinkNode on a list of distinct clients. *)
Contains(s, e) == \E i \in DOMAIN s : s[i] = e
Remove(s, e) ==
    LET at == CHOOSE i \in DOMAIN s : s[i] = e
    IN  IF Contains(s, e) THEN [i \in 1 .. Len(s) - 1 |-> s[IF i < at THEN i ELSE i + 1]] ELSE s

ASSUME IoThreadsAssumption ==
    /\ Cardinality(Threads) \in Nat \ {0} /\ Threads = 1 .. Cardinality(Threads)
    /\ MaxPending \in Nat \ {0} /\ FsyncAlways \in BOOLEAN
    /\ {MaxEvents, MaxPartial} \subseteq Nat
    /\ NoClient \notin Clients

VARIABLES
    cl,      \* the clients
    q,       \* the lists of clients, by I/O thread
    bell,    \* the event notifiers, by I/O thread
    main,    \* the main thread
    io,      \* the I/O threads
    sock,    \* what a client has sent and nobody has read
    left     \* what the bounds leave

vars == <<cl, q, bell, main, io, sock, left>>

\* rw is CLIENT_IO_READ_ENABLED and CLIENT_IO_WRITE_ENABLED, ioclose
\* CLIENT_IO_CLOSE_ASAP, close CLIENT_CLOSE_ASAP, after CLIENT_CLOSE_AFTER_REPLY,
\* pendw CLIENT_PENDING_WRITE, pubsub CLIENT_PUBSUB; el is the connection's
\* event loop and wh its write handler. got is what was read and not executed
\* (CLIENT_IO_PENDING_COMMAND: not empty), reply what was not written, "dirty"
\* if it answers a write that is not in the AOF yet.
createClient ==
    [state |-> "new", tid |-> Main, running |-> Main, rw |-> TRUE,
     el |-> NoLoop, wh |-> FALSE, ioclose |-> FALSE, close |-> FALSE,
     pendw |-> FALSE, pubsub |-> FALSE, after |-> FALSE, got |-> <<>>, reply |-> "none"]

\* Of the main thread: to_io (mainThreadPendingClientsToIOThreads), pending
\* (mainThreadPendingClients), processing (mainThreadProcessingClients). Of
\* the I/O thread: inbox (pending_clients), handling (processing_clients),
\* to_main (pending_clients_to_main_thread), clients.
NoClients == [to_io |-> <<>>, pending |-> <<>>, processing |-> <<>>,
              inbox |-> <<>>, handling |-> <<>>, to_main |-> <<>>, clients |-> <<>>]

\* pc is where the thread is; fired the events aeApiPoll returned; wait that
\* it may sleep; t, round, found the loop of processClientsOfAllIOThreads; job
\* and arg what the I/O threads of range are paused for; ret, back
\* and after where a function returns to.
Init ==
    /\ cl = [c \in Clients |-> createClient]
    /\ q = [t \in Threads |-> NoClients]
    /\ bell = [t \in Threads |-> [main |-> FALSE, io |-> FALSE]]
    /\ main = [pc |-> "poll", running |-> FALSE, wait |-> TRUE, fired |-> {},
               t |-> 1, round |-> 1, found |-> FALSE, cur |-> NoClient,
               ret |-> "events", check |-> FALSE,
               job |-> "none", arg |-> NoClient, range |-> {}]
    /\ io = [t \in Threads |->
               [pc |-> "poll", running |-> FALSE, wait |-> TRUE, fired |-> {},
                cur |-> NoClient, ret |-> "events", back |-> "events", after |-> "poll",
                paused |-> "UNPAUSED"]]
    /\ sock = [c \in Clients |-> <<>>]
    /\ left = [events |-> MaxEvents, partial |-> MaxPartial]

-----------------------------------------------------------------------------
(* Clients. *)

Open(c) == cl[c].state = "open"

\* io_threads_clients_num.
Assigned(t) == Cardinality({c \in Clients : Open(c) /\ cl[c].tid = t})
Fewest(t) == \A u \in Threads :
                 Assigned(t) < Assigned(u) \/ (Assigned(t) = Assigned(u) /\ t <= u)

\* isClientMustHandledByMainThread.
MustBeInMain(r) == r.close \/ r.pubsub

\* prepareClientToWrite and the reply.
addReply(r, kind) ==
    IF r.close \/ r.after THEN r
    ELSE [r EXCEPT !.reply = IF "dirty" \in {@, kind} THEN "dirty" ELSE "clean",
                   !.pendw = @ \/ (r.running = Main /\ r.reply = "none")]

\* writeToClient, and the write handler for what the socket did not take: all
\* of the reply is written, or a part. installed is handler_installed.
writeToClient(r, whole, installed) ==
    IF ~r.rw THEN r
    ELSE IF whole THEN [r EXCEPT !.reply = "none", !.wh = @ /\ ~installed]
    ELSE [r EXCEPT !.wh = TRUE]

\* What is left is to close it (CLIENT_CLOSE_AFTER_REPLY): freeClientAsync.
Closing(r) == r.after /\ r.rw /\ r.reply = "none"

\* The same in the main thread, with freeClientAsync.
MainWrites(r, whole, installed) ==
    LET w == writeToClient(r, whole, installed) IN [w EXCEPT !.close = @ \/ Closing(w)]

\* The socket may take less than the whole reply.
Partly(r, whole) ==
    /\ whole \/ (left.partial > 0 /\ r.reply # "none" /\ r.rw)
    /\ left' = [left EXCEPT !.partial = IF whole THEN @ ELSE @ - 1]

Freed == [createClient EXCEPT !.state = "gone"]

Unbound(r) == [r EXCEPT !.el = NoLoop, !.wh = FALSE]

\* freeClientAsync on a client of an I/O thread, before
\* enqueuePendingClientsToMainThread.
IoClosed(r) == [Unbound(r) EXCEPT !.ioclose = TRUE]

\* keepClientInMainThread, once the connection is in no event loop.
keepClientInMainThread(r) ==
    [r EXCEPT !.tid = Main, !.running = Main, !.el = Main, !.wh = FALSE, !.rw = TRUE]

\* assignClientToIOThread with enqueuePendingClienstToIOThreads.
assignClientToIOThread(c) == \E t \in Threads :
    /\ Fewest(t)
    /\ cl' = [cl EXCEPT ![c] = [Unbound(@) EXCEPT !.state = "open", !.tid = t, !.running = t,
                                                  !.rw = FALSE, !.pendw = FALSE]]
    /\ q' = [q EXCEPT ![t].to_io = <<c>> \o @]

-----------------------------------------------------------------------------
(* What both threads do with the lists. *)

\* sendPendingClientsToMainThreadIfNeeded, under the mutex.
Sent(l) == [l EXCEPT !.pending = @ \o l.to_main, !.to_main = <<>>]

\* Mutant: clients that wait are sent together with the one still in use.
Moved_andSent(l, c) ==
    LET all == Append(l.to_main, c)
        rest == [l EXCEPT !.clients = Remove(@, c)]
    IN  IF Len(all) < MaxPending THEN [rest EXCEPT !.to_main = all]
        ELSE [rest EXCEPT !.to_main = <<>>, !.pending = @ \o all]

\* enqueuePendingClientsToMainThread, after it.
Moved(l, c) == [l EXCEPT !.clients = Remove(@, c), !.to_main = Append(@, c)]

\* sendPendingClientsToIOThreads and sendPendingClientsToIOThreadIfNeeded, under
\* the mutex.
Given(l) == [l EXCEPT !.inbox = @ \o l.to_io, !.to_io = <<>>]

-----------------------------------------------------------------------------
(* The main thread: the event loop. *)

At(pc) == main.pc = pc
Goto(pc) == main' = [main EXCEPT !.pc = pc]

MainReady ==
    {<<"bell", t>> : t \in {u \in Threads : bell[u].main}} \cup
    {<<"accept", c>> : c \in {d \in Clients : cl[d].state = "new"}} \cup
    {<<"read", c>> : c \in {d \in Clients : cl[d].el = Main /\ sock[d] # <<>>}} \cup
    {<<"write", c>> : c \in {d \in Clients : cl[d].el = Main /\ cl[d].wh}}

\* aeApiPoll returns and afterSleep sets server.running.
afterSleep ==
    /\ At("poll")
    /\ main' = [main EXCEPT !.pc = "events", !.running = TRUE, !.fired = MainReady]
    /\ UNCHANGED <<cl, q, bell, io, sock>>

MainPolls == (main.wait => MainReady # {}) /\ afterSleep /\ UNCHANGED left

\* A timer of a thread is due.
Tick == left.events > 0 /\ left' = [left EXCEPT !.events = @ - 1]
MainTimer == main.wait /\ MainReady = {} /\ afterSleep /\ Tick

\* handleClientsFromIOThread.
handleClientsFromIOThread(t) ==
    /\ bell' = [bell EXCEPT ![t].main = FALSE]
    /\ main' = [main EXCEPT !.fired = @ \ {<<"bell", t>>}, !.pc = "join", !.t = t,
                            !.ret = "events"]
    /\ UNCHANGED <<cl, q, sock, left>>

\* clientAcceptHandler.
Accept(c) ==
    /\ assignClientToIOThread(c)
    /\ main' = [main EXCEPT !.fired = @ \ {<<"accept", c>>}]
    /\ UNCHANGED <<bell, sock, left>>

\* What a read(2) of the socket returns, and what it leaves: the end of the
\* connection is read alone.
Requests(s) == SelectSeq(s, LAMBDA r : r # EOF)
Rest(s) == SelectSeq(s, LAMBDA r : r = EOF)

\* The client with the requests that were read.
Received(r, data) == [r EXCEPT !.got = @ \o Requests(data)]

\* readQueryFromClient in the main thread, up to the commands. A closed
\* connection is freed by beforeNextClient.
MainRead(c) ==
    LET valid == cl[c].el = Main /\ cl[c].rw
        eof == sock[c] = <<EOF>>
    IN  /\ IF ~valid THEN UNCHANGED <<cl, sock>>
           ELSE /\ cl' = [cl EXCEPT ![c] = IF eof THEN Freed
                                           ELSE Received(@, sock[c])]
                /\ sock' = [sock EXCEPT ![c] = IF eof THEN <<>> ELSE Rest(@)]
        /\ main' = [main EXCEPT !.fired = @ \ {<<"read", c>>},
                                !.pc = IF valid /\ ~eof THEN "exec" ELSE @,
                                !.ret = IF valid /\ ~eof THEN "read" ELSE @,
                                !.cur = IF valid /\ ~eof THEN c ELSE @]
        /\ UNCHANGED <<q, bell, left>>

\* sendReplyToClient.
MainWrite(c) == \E whole \in BOOLEAN :
    /\ Partly(cl[c], whole)
    /\ cl' = IF cl[c].el = Main /\ cl[c].wh
             THEN [cl EXCEPT ![c] = MainWrites(@, whole, TRUE)] ELSE cl
    /\ main' = [main EXCEPT !.fired = @ \ {<<"write", c>>}]
    /\ UNCHANGED <<q, bell, sock>>

\* The events of one poll, in any order.
MainEvent == At("events") /\ \E e \in main.fired :
    /\ \/ e[1] = "bell" /\ handleClientsFromIOThread(e[2])
       \/ e[1] = "accept" /\ Accept(e[2])
       \/ e[1] = "read" /\ MainRead(e[2])
       \/ e[1] = "write" /\ MainWrite(e[2])
    /\ UNCHANGED io

-----------------------------------------------------------------------------
(* The main thread: processClientsFromIOThread(main.t). *)

Joined == q[main.t].processing \o q[main.t].pending

\* What follows processClientsFromIOThread: the next event; or, in beforeSleep,
\* the next I/O thread, then the same again with server.running cleared if
\* there was no client at all, then the writes.
AfterThread(found) ==
    IF main.ret = "events" THEN [pc |-> "events", t |-> main.t]
    ELSE IF main.t + 1 \in Threads THEN [pc |-> "join", t |-> main.t + 1]
    ELSE IF main.round = 1 /\ ~found THEN [pc |-> "idle", t |-> 1]
    ELSE [pc |-> "writes", t |-> 1]

Return(found) ==
    main' = [main EXCEPT !.pc = AfterThread(found).pc, !.t = AfterThread(found).t,
                         !.found = found, !.cur = NoClient]

JoinPending ==
    LET found == main.found \/ (main.ret = "before" /\ main.round = 1 /\ Joined # <<>>) IN
    /\ At("join")
    /\ q' = [q EXCEPT ![main.t].processing = Joined, ![main.t].pending = <<>>]
    /\ IF Joined = <<>> THEN Return(found)
       ELSE main' = [main EXCEPT !.pc = "loop", !.found = found]
    /\ UNCHANGED <<cl, bell, io, sock, left>>

\* Mutant: beforeSleep does not look again.
Idle_noLook ==
    /\ At("idle")
    /\ main' = [main EXCEPT !.pc = "writes", !.t = 1, !.round = 2, !.running = FALSE]
    /\ UNCHANGED <<cl, q, bell, io, sock, left>>

\* beforeSleep clears server.running and looks at the lists again.
Idle ==
    /\ At("idle")
    /\ main' = [main EXCEPT !.pc = "join", !.t = 1, !.round = 2, !.running = FALSE]
    /\ UNCHANGED <<cl, q, bell, io, sock, left>>

\* pauseIOThreadsRange up to the wait.
PauseFor(job, c, range) ==
    /\ main' = [main EXCEPT !.pc = "pause", !.job = job, !.arg = c, !.range = range]
    /\ io' = [t \in Threads |-> IF t \in range THEN [io[t] EXCEPT !.paused = "PAUSING"] ELSE io[t]]
    /\ bell' = [t \in Threads |-> IF t \in range THEN [bell[t] EXCEPT !.io = TRUE] ELSE bell[t]]

\* One round of the loop: the client at the head becomes main's, or is freed
\* (it is in no event loop then).
NextClient ==
    LET c == Head(q[main.t].processing) IN
    /\ At("loop") /\ q[main.t].processing # <<>>
    /\ q' = [q EXCEPT ![main.t].processing = Tail(@)]
    /\ cl' = [cl EXCEPT ![c] = IF @.ioclose THEN Freed ELSE [@ EXCEPT !.running = Main]]
    /\ main' = IF cl[c].ioclose THEN main ELSE [main EXCEPT !.pc = "exec", !.cur = c]
    /\ UNCHANGED <<bell, io, sock, left>>

EndOfLoop ==
    /\ At("loop") /\ q[main.t].processing = <<>>
    /\ main' = [main EXCEPT !.pc = "send", !.check = FALSE]
    /\ UNCHANGED <<cl, q, bell, io, sock, left>>

-----------------------------------------------------------------------------
(* The main thread: commands. *)

Replied(c, kind) == addReply([cl[c] EXCEPT !.got = Tail(@)], kind)

\* A command on main.cur's own account.
ExecPlain(c, op) ==
    /\ op \in {"get", "set", "subscribe", "unsubscribe", "quit"}
    /\ cl' = [cl EXCEPT ![c] =
                 [Replied(c, IF op = "set" /\ FsyncAlways THEN "dirty" ELSE "clean")
                     EXCEPT !.pubsub = op = "subscribe" \/ (@ /\ op # "unsubscribe"),
                            !.after = op = "quit"]]
    /\ UNCHANGED <<bell, main, io>>

\* PUBLISH writes into the reply of every subscriber.
ExecPublish(c, op) ==
    /\ op = "publish"
    /\ cl' = [d \in Clients |->
                 LET r == IF d = c THEN Replied(c, "clean") ELSE cl[d]
                 IN  IF r.pubsub THEN addReply(r, "clean") ELSE r]
    /\ UNCHANGED <<bell, main, io>>

\* CLIENT KILL frees another client (freeClient), a change of the ACL closes
\* it at a safe time (freeClientAsync). If an I/O thread runs it, that one is
\* paused.
ExecOther(c, op, d) ==
    /\ op \in {"kill", "close"} /\ d \in Clients \ {c} /\ Open(d)
    /\ IF cl[d].running # Main
       THEN /\ cl' = [cl EXCEPT ![c] = Replied(c, "clean")]
            /\ PauseFor(op, d, {cl[d].tid})
       ELSE /\ cl' = [cl EXCEPT ![c] = Replied(c, "clean"),
                                ![d] = IF op = "kill" THEN Freed ELSE [@ EXCEPT !.close = TRUE]]
            /\ UNCHANGED <<bell, main, io>>

\* Itself: CLIENT_CLOSE_AFTER_REPLY, which call() sets for
\* CLIENT_CLOSE_AFTER_COMMAND.
ExecSelf(c, op, d) ==
    /\ op \in {"kill", "close"} /\ d = c
    /\ cl' = [cl EXCEPT ![c] = [Replied(c, "clean") EXCEPT !.after = TRUE]]
    /\ UNCHANGED <<bell, main, io>>

ExecNoSuchClient(c, op, d) ==
    /\ op \in {"kill", "close"} /\ ~(d \in Clients /\ Open(d))
    /\ cl' = [cl EXCEPT ![c] = Replied(c, "clean")]
    /\ UNCHANGED <<bell, main, io>>

\* CLIENT LIST reads the data of all clients (getAllClientsInfoString).
ExecList(c, op) ==
    /\ op = "list"
    /\ cl' = [cl EXCEPT ![c] = Replied(c, "clean")]
    /\ PauseFor("list", NoClient, Threads)

\* processInputBuffer goes on to the next command.
HasCommand(c) == cl[c].got # <<>> /\ ~cl[c].after /\ ~cl[c].close

\* processPendingCommandAndInputBuffer and processInputBuffer, command by
\* command.
ExecCommand ==
    LET c == main.cur
        op == Head(cl[c].got).op
        d == Head(cl[c].got).of
    IN  /\ At("exec") /\ HasCommand(c)
        /\ \/ ExecPlain(c, op) \/ ExecPublish(c, op) \/ ExecList(c, op)
           \/ ExecOther(c, op, d) \/ ExecSelf(c, op, d) \/ ExecNoSuchClient(c, op, d)
        /\ UNCHANGED <<q, sock, left>>

\* Mutant: the clients that the main thread has taken are forgotten.
ListOf_notProcessing(l, c) ==
    IF Contains(l.clients, c) THEN "clients"
    ELSE IF Contains(l.inbox, c) THEN "inbox"
    ELSE IF Contains(l.to_main, c) THEN "to_main"
    ELSE IF Contains(l.pending, c) THEN "pending"
    ELSE IF Contains(l.to_io, c) THEN "to_io"
    ELSE "none"

\* Where fetchClientFromIOThread finds a client.
ListOf(l, c) ==
    IF Contains(l.clients, c) THEN "clients"
    ELSE IF Contains(l.inbox, c) THEN "inbox"
    ELSE IF Contains(l.to_main, c) THEN "to_main"
    ELSE IF Contains(l.pending, c) THEN "pending"
    ELSE IF Contains(l.processing, c) THEN "processing"
    ELSE IF Contains(l.to_io, c) THEN "to_io"
    ELSE "none"

\* fetchClientFromIOThread removes the client from the list it is in.
Fetched(l, c) ==
    IF ListOf(l, c) = "none" THEN l ELSE [l EXCEPT ![ListOf(l, c)] = Remove(@, c)]

\* sendPendingClientsToMainThreadIfNeeded(t, 1) has something to send.
Full(l) == Len(l.to_main) >= MaxPending

\* freeClientAsync, while its I/O thread is paused: c is on its way to the main
\* thread, or will be sent there by the I/O thread when it gets it.
CloseInIO(c, t) ==
    LET l == q[t]
        transfer == ~cl[c].ioclose /\ Contains(l.clients, c)
    IN  /\ cl' = IF cl[c].ioclose THEN cl
                 ELSE [cl EXCEPT ![c] = IF transfer THEN [IoClosed(@) EXCEPT !.rw = FALSE]
                                        ELSE IoClosed(@)]
        /\ q' = IF ~transfer THEN q
                ELSE [q EXCEPT ![t] = Moved(IF Full(l) THEN Sent(l) ELSE l, c)]
        /\ bell' = [bell EXCEPT ![t].main = @ \/ (/\ transfer /\ Full(l)
                                                  /\ l.pending = <<>> /\ ~main.running)]

\* What the I/O threads of main.range are paused for: to take a client away
\* and free it, to keep it, to close it, to read the data of all clients.
Job(c) ==
    \/ /\ main.job = "kill"
       /\ q' = [q EXCEPT ![cl[c].tid] = Fetched(@, c)]
       /\ cl' = [cl EXCEPT ![c] = Freed]
       /\ UNCHANGED bell
    \/ /\ main.job = "keep"
       /\ cl' = [cl EXCEPT ![c] = keepClientInMainThread(@)]
       /\ UNCHANGED <<q, bell>>
    \/ main.job = "close" /\ CloseInIO(c, cl[c].tid)
    \/ main.job = "list" /\ UNCHANGED <<cl, q, bell>>

\* All are paused: the job is done and resumeIOThreadsRange begins.
WhilePaused ==
    /\ At("pause") /\ \A t \in main.range : io[t].paused = "PAUSED"
    /\ Job(main.arg)
    /\ io' = [t \in Threads |-> IF t \in main.range THEN [io[t] EXCEPT !.paused = "RESUMING"]
                                ELSE io[t]]
    /\ Goto("resume")
    /\ UNCHANGED <<sock, left>>

Resumed ==
    /\ At("resume") /\ \A u \in main.range : io[u].paused = "UNPAUSED"
    /\ main' = [main EXCEPT !.pc = IF main.job = "keep" THEN "loop" ELSE "exec",
                            !.cur = IF main.job = "keep" THEN NoClient ELSE @,
                            !.job = "none", !.arg = NoClient, !.range = {}]
    /\ UNCHANGED <<cl, q, bell, io, sock, left>>

\* Mutant: what an I/O thread did not finish to write is not looked at.
putClientInPendingWriteQueue_not(r) == r

\* A reply that an I/O thread did not finish to write.
putClientInPendingWriteQueue(r) == [r EXCEPT !.pendw = @ \/ r.reply # "none"]

\* The commands of main.cur are done. If the main thread read them, the client is
\* freed by beforeNextClient if it is to be closed. One of an I/O thread is kept,
\* which takes it out of the event loop of that thread, or handed back.
Finish ==
    LET c == main.cur
        t == cl[c].tid
        r == putClientInPendingWriteQueue(cl[c])
    IN  /\ At("exec") /\ ~HasCommand(c)
        /\ \/ /\ main.ret = "read"
              /\ cl' = [cl EXCEPT ![c] = IF @.close THEN Freed ELSE @]
              /\ main' = [main EXCEPT !.pc = "events", !.ret = "events", !.cur = NoClient]
              /\ UNCHANGED <<q, bell, io>>
           \/ /\ main.ret # "read" /\ MustBeInMain(r)
              /\ cl' = [cl EXCEPT ![c] = r]
              /\ PauseFor("keep", c, {t})
              /\ UNCHANGED q
           \/ /\ main.ret # "read" /\ ~MustBeInMain(r)
              /\ cl' = [cl EXCEPT ![c] = [r EXCEPT !.pendw = FALSE, !.running = t]]
              /\ q' = [q EXCEPT ![t].to_io = <<c>> \o @]
              /\ main' = [main EXCEPT !.pc = "send", !.check = TRUE, !.cur = NoClient]
              /\ UNCHANGED <<bell, io>>
        /\ UNCHANGED <<sock, left>>

\* After sendPendingClientsToIOThreadIfNeeded(t, main.check).
AfterSend == IF main.check THEN Goto("loop") ELSE Return(main.found)

\* sendPendingClientsToIOThreadIfNeeded.
SendIfNeeded ==
    LET l == q[main.t]
        none == \/ l.to_io = <<>> \/ FsyncAlways
                \/ main.check /\ Len(l.to_io) < MaxPending
    IN  /\ At("send")
        /\ q' = IF none THEN q ELSE [q EXCEPT ![main.t] = Given(@)]
        /\ IF none \/ l.inbox # <<>> THEN AfterSend ELSE Goto("ring")
        /\ UNCHANGED <<cl, bell, io, sock, left>>

\* Its notification, if the I/O thread does not run.
RingIfNotRunning ==
    /\ At("ring")
    /\ bell' = [bell EXCEPT ![main.t].io = @ \/ ~io[main.t].running]
    /\ AfterSend
    /\ UNCHANGED <<cl, q, io, sock, left>>

-----------------------------------------------------------------------------
(* The main thread: beforeSleep. *)

\* flushAppendOnlyFile, then processClientsOfAllIOThreads.
beforeSleep ==
    /\ At("events") /\ main.fired = {}
    /\ cl' = [c \in Clients |-> [cl[c] EXCEPT !.reply = IF @ = "dirty" THEN "clean" ELSE @]]
    /\ main' = [main EXCEPT !.pc = "join", !.t = 1, !.round = 1, !.found = FALSE,
                            !.ret = "before"]
    /\ UNCHANGED <<q, bell, io, sock, left>>

\* One client of handleClientsWithPendingWrites: it is written to by an I/O
\* thread if possible, else by the main thread.
PendingWrite(c) ==
    LET r == [cl[c] EXCEPT !.pendw = FALSE] IN
    \/ /\ ~r.close /\ ~r.after /\ ~MustBeInMain(r)
       /\ assignClientToIOThread(c)
       /\ UNCHANGED left
    \/ /\ r.close
       /\ cl' = [cl EXCEPT ![c] = r]
       /\ UNCHANGED <<q, left>>
    \/ /\ ~r.close /\ (r.after \/ MustBeInMain(r))
       /\ \E whole \in BOOLEAN :
             Partly(cl[c], whole) /\ cl' = [cl EXCEPT ![c] = MainWrites(r, whole, FALSE)]
       /\ UNCHANGED q

\* All of them, in any order.
handleClientsWithPendingWrites ==
    /\ At("writes")
    /\ \/ \E c \in Clients : cl[c].pendw /\ PendingWrite(c) /\ UNCHANGED main
       \/ /\ \A c \in Clients : ~cl[c].pendw
          /\ main' = [main EXCEPT !.pc = "sendall", !.t = 1]
          /\ UNCHANGED <<cl, q, left>>
    /\ UNCHANGED <<bell, io, sock>>

\* sendPendingClientsToIOThreads, thread by thread.
sendPendingClientsToIOThreads ==
    /\ At("sendall")
    /\ q' = [q EXCEPT ![main.t] = Given(@)]
    /\ Goto(IF q[main.t].to_io = <<>> THEN "sent" ELSE "ringall")
    /\ UNCHANGED <<cl, bell, io, sock, left>>

\* Its notification.
RingAlways ==
    /\ At("ringall")
    /\ bell' = [bell EXCEPT ![main.t].io = TRUE]
    /\ Goto("sent")
    /\ UNCHANGED <<cl, q, io, sock, left>>

\* After the last thread: freeClientsInAsyncFreeQueue, and poll again.
SentAll ==
    /\ At("sent")
    /\ IF main.t + 1 \in Threads
       THEN main' = [main EXCEPT !.pc = "sendall", !.t = @ + 1] /\ UNCHANGED cl
       ELSE /\ main' = [main EXCEPT !.pc = "poll", !.wait = ~main.found, !.t = 1,
                                    !.round = 1, !.found = FALSE, !.ret = "events"]
            /\ cl' = [c \in Clients |-> IF cl[c].close THEN Freed ELSE cl[c]]
    /\ UNCHANGED <<q, bell, io, sock, left>>

-----------------------------------------------------------------------------
(* I/O thread t. *)

IoAt(t, pc) == io[t].pc = pc
IoGoto(t, pc) == io' = [io EXCEPT ![t].pc = pc]

IoReady(t) ==
    (IF bell[t].io THEN {<<"bell", t>>} ELSE {}) \cup
    {<<"read", c>> : c \in {d \in Clients : cl[d].el = t /\ sock[d] # <<>>}} \cup
    {<<"write", c>> : c \in {d \in Clients : cl[d].el = t /\ cl[d].wh}}

IOThreadAfterSleep(t) ==
    /\ IoAt(t, "poll")
    /\ io' = [io EXCEPT ![t].pc = "events", ![t].running = TRUE, ![t].fired = IoReady(t)]
    /\ UNCHANGED <<cl, q, bell, main, sock, left>>

IoPolls(t) == (io[t].wait => IoReady(t) # {}) /\ IOThreadAfterSleep(t)

\* handleClientsFromMainThread.
handleClientsFromMainThread(t) ==
    /\ <<"bell", t>> \in io[t].fired
    /\ bell' = [bell EXCEPT ![t].io = FALSE]
    /\ io' = [io EXCEPT ![t].fired = @ \ {<<"bell", t>>}, ![t].pc = "join", ![t].ret = "events"]
    /\ UNCHANGED <<cl, q, sock, left>>

\* A handler calls enqueuePendingClientsToMainThread for c, and returns to back.
Enqueue(t, c, back) ==
    [io[t] EXCEPT !.pc = "enqueue", !.cur = c, !.back = back]

\* readQueryFromClient: data that is not for it (anymore) stays in the socket.
\* A whole command goes to the main thread, and so does the end of the
\* connection.
IoRead(t, c) ==
    LET reads == cl[c].el = t /\ cl[c].rw
        eof == sock[c] = <<EOF>>
    IN  /\ <<"read", c>> \in io[t].fired
        /\ IF ~reads THEN UNCHANGED <<cl, sock>>
           ELSE /\ cl' = [cl EXCEPT ![c] = IF eof THEN IoClosed(@)
                                           ELSE Received(@, sock[c])]
                /\ sock' = [sock EXCEPT ![c] = IF eof THEN <<>> ELSE Rest(@)]
        /\ io' = [io EXCEPT ![t] =
                    [IF reads /\ (eof \/ ~cl[c].after) THEN Enqueue(t, c, "events") ELSE io[t]
                        EXCEPT !.fired = @ \ {<<"read", c>>}]]
        /\ UNCHANGED <<q, bell, left>>

\* sendReplyToClient.
IoWrite(t, c) == \E whole \in BOOLEAN :
    LET w == writeToClient(cl[c], whole, TRUE)
        valid == cl[c].el = t /\ cl[c].wh
    IN  /\ <<"write", c>> \in io[t].fired
        /\ Partly(cl[c], whole)
        /\ cl' = IF ~valid THEN cl ELSE [cl EXCEPT ![c] = IF Closing(w) THEN IoClosed(w) ELSE w]
        /\ io' = [io EXCEPT ![t] =
                    [IF valid /\ Closing(w) THEN Enqueue(t, c, "events") ELSE io[t]
                        EXCEPT !.fired = @ \ {<<"write", c>>}]]
        /\ UNCHANGED <<q, bell, sock>>

IoEvent(t) ==
    /\ IoAt(t, "events")
    /\ \/ handleClientsFromMainThread(t)
       \/ \E c \in Clients : IoRead(t, c) \/ IoWrite(t, c)
    /\ UNCHANGED main

-----------------------------------------------------------------------------
(* I/O thread t: enqueuePendingClientsToMainThread(io[t].cur). *)

\* Clients that wait are sent first; this one is still in use.
SendBefore(t) ==
    /\ IoAt(t, "enqueue")
    /\ Contains(q[t].clients, io[t].cur) /\ Full(q[t])
    /\ q' = [q EXCEPT ![t] = Sent(@)]
    /\ io' = [io EXCEPT ![t].pc = IF q[t].pending = <<>> THEN "ring" ELSE "enqueue",
                        ![t].after = "enqueue"]
    /\ UNCHANGED <<cl, bell, main, sock, left>>

enqueuePendingClientsToMainThread(t) ==
    LET c == io[t].cur
        listed == Contains(q[t].clients, c)
    IN  /\ IoAt(t, "enqueue") /\ ~(listed /\ Full(q[t]))
        /\ q' = IF listed THEN [q EXCEPT ![t] = Moved(@, c)] ELSE q
        /\ cl' = IF listed THEN [cl EXCEPT ![c].rw = FALSE] ELSE cl
        /\ IoGoto(t, "enqueued")
        /\ UNCHANGED <<bell, main, sock, left>>

\* The rest of the handler, which uses the client.
HandlerEnds(t) ==
    /\ IoAt(t, "enqueued")
    /\ io' = [io EXCEPT ![t].pc = io[t].back, ![t].cur = NoClient]
    /\ UNCHANGED <<cl, q, bell, main, sock, left>>

\* The notification of sendPendingClientsToMainThreadIfNeeded.
IoRing(t) ==
    /\ IoAt(t, "ring")
    /\ bell' = [bell EXCEPT ![t].main = @ \/ ~main.running]
    /\ IoGoto(t, io[t].after)
    /\ UNCHANGED <<cl, q, main, sock, left>>

-----------------------------------------------------------------------------
(* I/O thread t: processClientsFromMainThread, IOThreadCron and               *)
(* IOThreadBeforeSleep.                                                      *)

IoJoin(t) ==
    LET all == q[t].handling \o q[t].inbox IN
    /\ IoAt(t, "join")
    /\ q' = [q EXCEPT ![t].handling = all, ![t].inbox = <<>>]
    /\ io' = [io EXCEPT ![t].pc = "link",
                        ![t].wait = IF io[t].ret = "first" THEN all = <<>> ELSE @]
    /\ UNCHANGED <<cl, bell, main, sock, left>>

\* One client: it is bound to the event loop, and its reply is written.
Link(t) ==
    LET c == Head(q[t].handling)
        r == [cl[c] EXCEPT !.rw = TRUE, !.el = t]
    IN  /\ IoAt(t, "link") /\ q[t].handling # <<>>
        /\ q' = [q EXCEPT ![t].handling = Tail(@), ![t].clients = Append(@, c)]
        /\ \/ /\ cl[c].ioclose
              /\ cl' = [cl EXCEPT ![c] = Unbound(@)]
              /\ io' = [io EXCEPT ![t] = Enqueue(t, c, "link")]
              /\ UNCHANGED left
           \/ /\ ~cl[c].ioclose
              /\ \E whole \in BOOLEAN :
                    LET w == IF r.reply = "none" THEN r ELSE writeToClient(r, whole, FALSE)
                        closed == r.reply # "none" /\ Closing(w)
                    IN  /\ Partly(r, whole)
                        /\ cl' = [cl EXCEPT ![c] = IF closed THEN IoClosed(w) ELSE w]
                        /\ io' = IF closed THEN [io EXCEPT ![t] = Enqueue(t, c, "link")] ELSE io
        /\ UNCHANGED <<bell, main, sock>>

\* All clients are linked. IOThreadBeforeSleep clears running before it looks
\* again, if there was none.
Linked(t) ==
    /\ IoAt(t, "link") /\ q[t].handling = <<>>
    /\ io' = [io EXCEPT ![t] =
                CASE @.ret = "events" -> [@ EXCEPT !.pc = "events"]
                  [] @.ret = "first" /\ @.wait ->
                        [@ EXCEPT !.pc = "join", !.ret = "again", !.running = FALSE]
                  [] OTHER -> [@ EXCEPT !.pc = "pause", !.ret = "events"]]
    /\ UNCHANGED <<cl, q, bell, main, sock, left>>

\* The timer of IOThreadCron is due, after the events or while it sleeps.
IOThreadCron(t) ==
    /\ \/ IoAt(t, "events") /\ io[t].fired = {}
       \/ IoAt(t, "poll") /\ io[t].wait /\ IoReady(t) = {}
    /\ Tick
    /\ io' = [io EXCEPT ![t].pc = "cron", ![t].running = TRUE]
    /\ UNCHANGED <<cl, q, bell, main, sock>>

\* IOThreadClientsCron: CLIENTS_CRON_MIN_ITERATIONS clients at least, so all of
\* them here.
IOThreadClientsCron(t) ==
    /\ IoAt(t, "cron")
    /\ io' = [io EXCEPT ![t] = IF q[t].clients = <<>>
                               THEN [@ EXCEPT !.pc = "join", !.ret = "first"]
                               ELSE Enqueue(t, Head(q[t].clients), "cron")]
    /\ UNCHANGED <<cl, q, bell, main, sock, left>>

IOThreadBeforeSleep(t) ==
    /\ IoAt(t, "events") /\ io[t].fired = {}
    /\ io' = [io EXCEPT ![t].pc = "join", ![t].ret = "first"]
    /\ UNCHANGED <<cl, q, bell, main, sock, left>>

handlePauseAndResume(t) ==
    /\ \/ /\ IoAt(t, "pause") /\ io[t].paused = "PAUSING"
          /\ io' = [io EXCEPT ![t].paused = "PAUSED", ![t].pc = "paused"]
       \/ /\ IoAt(t, "pause") /\ io[t].paused # "PAUSING"
          /\ IoGoto(t, "send")
       \/ /\ IoAt(t, "paused") /\ io[t].paused = "RESUMING"
          /\ io' = [io EXCEPT ![t].paused = "UNPAUSED", ![t].pc = "send"]
    /\ UNCHANGED <<cl, q, bell, main, sock, left>>

\* sendPendingClientsToMainThreadIfNeeded(t, 0), and poll again.
SendAll(t) ==
    LET l == q[t] IN
    /\ IoAt(t, "send")
    /\ q' = [q EXCEPT ![t] = Sent(@)]
    /\ io' = [io EXCEPT ![t].pc = IF l.to_main # <<>> /\ l.pending = <<>> THEN "ring" ELSE "poll",
                        ![t].after = "poll"]
    /\ UNCHANGED <<cl, bell, main, sock, left>>

-----------------------------------------------------------------------------
(* The clients. *)

Request(c) ==
    /\ cl[c].state \in {"new", "open"} /\ left.events > 0
    /\ ~Contains(sock[c], EOF)
    /\ \E r \in Commands \cup {EOF} : sock' = [sock EXCEPT ![c] = Append(@, r)]
    /\ left' = [left EXCEPT !.events = @ - 1]
    /\ UNCHANGED <<cl, q, bell, main, io>>

-----------------------------------------------------------------------------

MainStep ==
    \/ MainPolls \/ MainEvent \/ JoinPending \/ Idle \/ NextClient \/ EndOfLoop
    \/ ExecCommand \/ WhilePaused \/ Resumed \/ Finish \/ SendIfNeeded
    \/ RingIfNotRunning \/ beforeSleep \/ handleClientsWithPendingWrites
    \/ sendPendingClientsToIOThreads \/ RingAlways \/ SentAll

IoStep(t) ==
    \/ IoPolls(t) \/ IoEvent(t) \/ SendBefore(t) \/ enqueuePendingClientsToMainThread(t)
    \/ HandlerEnds(t) \/ IoRing(t) \/ IoJoin(t) \/ Link(t) \/ Linked(t)
    \/ IOThreadClientsCron(t) \/ IOThreadBeforeSleep(t) \/ handlePauseAndResume(t)
    \/ SendAll(t)

Next ==
    \/ MainStep \/ MainTimer
    \/ \E t \in Threads : IoStep(t) \/ IOThreadCron(t)
    \/ \E c \in Clients : Request(c)

\* The threads run, without any help of a timer; clients need not do anything.
Fairness == WF_vars(MainStep) /\ \A t \in Threads : WF_vars(IoStep(t))

Spec == Init /\ [][Next]_vars
FairSpec == Spec /\ Fairness

-----------------------------------------------------------------------------
(* What the threads rely on. *)

\* The lists of thread t that the main thread owns, or that a client is in on
\* its way.
Waiting(t) == q[t].to_io \o q[t].pending \o q[t].processing \o q[t].inbox
Everywhere(t) == Waiting(t) \o q[t].handling \o q[t].to_main \o q[t].clients

\* "Client only can be in one client list" (fetchClientFromIOThread): a client
\* of an I/O thread is in exactly one of the lists of that thread, unless the
\* main thread executes its commands, and in none once it is freed or kept by
\* the main thread. So no hand-over, pause or close loses a client or leaves a
\* pointer to a freed one.
InOneList ==
    \A c \in Clients : \A t \in Threads :
        LET all == Everywhere(t)
        IN  IF Open(c) /\ cl[c].tid = t /\ main.cur # c
            THEN \E i \in DOMAIN all : \A j \in DOMAIN all : all[j] = c <=> j = i
            ELSE ~Contains(all, c)

\* No client is used by two threads: the one an I/O thread works on is not on
\* its way to or in the main thread; one that waits to be taken can be neither
\* read nor written and has no pending close; one the main thread runs has no
\* enabled handler in an I/O thread; and an I/O thread that is paused has
\* nothing in hand (the assertions of processClientsFromIOThread and
\* processClientsFromMainThread, and the comments of handlePauseAndResume and
\* enqueuePendingClientsToMainThread).
NoDataRace ==
    /\ \A t \in Threads : io[t].cur # NoClient =>
          /\ cl[io[t].cur].running = t /\ io[t].cur # main.cur
          /\ ~Contains(Waiting(t), io[t].cur)
    /\ \A t \in Threads : \A i \in DOMAIN Waiting(t) :
          LET c == Waiting(t)[i] IN ~cl[c].rw /\ ~cl[c].close
    /\ \A c \in Clients : cl[c].running = Main /\ cl[c].el \in Threads => ~cl[c].rw
    /\ \A t \in Threads : io[t].paused \in {"PAUSED", "RESUMING"} =>
          io[t].cur = NoClient /\ io[t].fired = {} /\ q[t].handling = <<>>

\* A thread that sleeps has nothing to do, or is about to be woken up: clients
\* handed over without a notification, because the other one was running or
\* had clients to look at, are seen before it sleeps
\* (sendPendingClientsToMainThreadIfNeeded, sendPendingClientsToIOThreadIfNeeded,
\* beforeSleep, IOThreadBeforeSleep).
SleepersHaveNothingToDo ==
    \A t \in Threads :
        /\ At("poll") /\ main.wait /\ ~bell[t].main =>
              q[t].to_io = <<>> /\ (q[t].pending = <<>> \/ IoAt(t, "ring"))
        /\ IoAt(t, "poll") /\ io[t].wait /\ ~bell[t].io =>
              /\ q[t].to_main = <<>> /\ io[t].paused = "UNPAUSED"
              /\ q[t].inbox = <<>> \/ (main.t = t /\ main.pc \in {"ring", "ringall"})

\* What a client sent is read, executed and answered, or the client is closed,
\* whatever the hand-overs, the pauses and the partial writes on the way and
\* without the help of a timer.
RequestsAreAnswered ==
    \A c \in Clients :
        (sock[c] # <<>> /\ cl[c].state \in {"new", "open"}) ~>
            (cl[c].state = "gone" \/ (sock[c] = <<>> /\ cl[c].got = <<>> /\ cl[c].reply = "none"))

\* With appendfsync always, an answer to a write is not sent before the write
\* is in the AOF (beforeSleep, sendPendingClientsToIOThreadIfNeeded).
AnswersAreDurable ==
    [][\A c \in Clients : cl[c].reply = "dirty" /\ cl'[c].reply = "none" => cl'[c].state = "gone"]_vars
=============================================================================
