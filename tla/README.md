# A TLA+ development for Rain-Call

Rain-Call is a fork of Redis 8.8 with a second Lua runtime: the command
`RAIN.FALL` runs a Lua source in a Moonquakes virtual machine inside the server,
and `RAIN.CALL` lets that source run Redis commands, in process or over TCP.
This directory holds specifications of the parts of the system where order,
nesting, failures and shared state decide whether it is correct, the
configurations that model-check them, and proofs of the main results. Paths
below are relative to the repository.

## The system

One thread, the main thread, runs all commands; with `io-threads` above one,
others read requests and write replies for it. A client's command goes through
`processCommand` (checks and gates), `call` (execution, statistics,
propagation) and, for commands that run other commands, `call` again: EXEC, the
EVAL family, module commands through `RM_Call`, and RAIN.FALL through
`RAIN.CALL`. What a command changed is collected in `server.also_propagate` and
fed to the append only file (AOF) and to the replicas when the outermost command
ends. A command that finds nothing to pop blocks its client, and later commands
that fill the key wake it. Between commands the server expires keys, rehashes
tables, flushes and syncs its files, talks to replicas and cluster peers.

| Part | State | Operations | What makes it hard |
|---|---|---|---|
| Transactions and WATCH (`src/multi.c`) | queue and flags of each client, watched keys on the client's and on the key's side | MULTI, EXEC, DISCARD, WATCH, UNWATCH, RESET, touching of keys | keys that expire between two commands, lists changed while they are walked, flags kept in several places |
| Execution and propagation (`src/server.c`, `script.c`, `module.c`, `db.c`) | nesting depth, pending operations, `server.dirty`, `replication_allowed` | `call`, `alsoPropagate`, end of a unit, implicit DELs, gates | nesting of different kinds of commands, exactly-once propagation, streams cut at any point |
| RAIN host (`src/rainfall.c`, `src/raincall_inprocess.c`, `utils/raincall/raincall.c`) | Lua state, backends, installed and default state, caller | RAIN.FALL, RAIN.CALL, RAIN.CONNECT, install | process-wide variables shared by nested scripts, partial failures, a blocking socket in an event loop |
| RAIN replies (the same files) | a reply under conversion | four conversions | nested errors, holes in tables, two protocols |
| Blocked clients (`src/blocked.c`, `timeout.c`) | waiters of each key, ready keys, timeouts, postponed and unblocked clients | block, signal, serve, time out, unblock, pause, re-execution | several reasons to unblock one client, lists that change during the walk |
| AOF files (`src/aof.c`, `bio.c`) | manifest, base, incremental and history files, buffers, offsets | append, flush, fsync, rewrite, finish, load, CONFIG SET | crashes and power losses between any two file operations |
| Replication (`src/replication.c`) | replication IDs, offsets, backlog, cached masters | PSYNC, full synchronization, REPLICAOF, FAILOVER, restart | reconnection to a server with another history |
| Cluster failover (`src/cluster_legacy.c`) | epochs, votes, roles and slots as every node sees them, nodes.conf | PING, PONG, UPDATE, election, takeover, restart | lost and late messages, crashes after a vote |
| I/O threads (`src/iothread.c`, `networking.c`, `ae.c`) | lists of clients under mutexes, notifiers, two running flags, pauses | handing a client over and back, reading, executing, writing, closing from both sides | threads that skip a notification because the other one seems awake, clients in use by two threads |
| Hash tables and SCAN (`src/dict.c`, `kvstore.c`) | two tables, rehash index, resize policy, cursor | add, find, unlink, resize, rehash step, scan | a scan across growing and shrinking tables |

The remaining parts are listed in `PROJECT.json` with the reason they are not
modelled.

The parts meet at a few points, and each module keeps the side of the interface
its properties need. `Multi` decides whether a transaction runs and
`ExecutionUnit` what running it sends to the AOF and the replicas.
`ExecutionUnit` shows that each stream, cut anywhere, reproduces a state
between two units; `AofFiles` takes a unit as one write and shows which writes
of the stream a disk still has; `PartialResync` takes it as one byte of the
stream and shows which writes a replica has. `BlockedClients` re-executes
commands at the points where `call` has finished a unit. `AofFiles` is the
composition of the server with its background thread, its child process and the
disk; `PartialResync` and `ClusterFailover` are compositions of servers with
their connections; `IoThreads` is the composition of the main thread with the
I/O threads, and shows that the other modules may take what a client sends as
read, executed and answered by one thread.

## Modules

| Module | Models | Checked by | Proofs |
|---|---|---|---|
| `Multi` | `src/multi.c` with the keyspace operations it depends on | `MCMulti` | `MultiProofs` |
| `ExecutionUnit` | `call()` and propagation for all five ways to nest commands | `MCExecutionUnit` | `ExecutionUnitProofs` |
| `RainHost` | RAIN.FALL, RAIN.CALL and RAIN.CONNECT | `MCRainHost` | `RainHostProofs` |
| `RainReply` | replies from Redis to Lua and back | `MCRainReply` | none: recursive operators |
| `BlockedClients` | `src/blocked.c`, `src/timeout.c` and the event loop around them | `MCBlockedClients` | none |
| `AofFiles` | the files of the AOF and all that writes them | `MCAofFiles` | none |
| `DurableLog` | what the AOF promises: the abstract specification of `AofFiles` | `MCAofFiles`, as a property | none |
| `PartialResync` | `src/replication.c` between any servers | `MCPartialResync` | `PartialResyncInvariant`, `PartialResyncSteps`, `PartialResyncProofs` |
| `ClusterFailover` | the failover of one shard in `src/cluster_legacy.c` | `MCClusterFailover` | `ClusterFailoverProofs` |
| `IoThreads` | the main thread, the I/O threads and the lists between them | `MCIoThreads` | `IoThreadsProofs` |
| `Dict` | the tables of `src/dict.c`, as operators on a dict | `MCKvstoreScan` | none |
| `KvstoreScan` | a keyspace of such dicts (`src/kvstore.c`) and a client that scans it | `MCKvstoreScan` | none |

The main thread runs a handler to its end, so an action is a whole handler, and
what interleaves is the clients' commands, time, nested commands, and the other
processes and threads a module models. Commands that run other commands are
split at the points where the inner command runs, and a stack stands for the C
stack. `IoThreads`, where threads run at the same time, has a step for each
access to what they share. Handlers that a crash may interrupt (`AofFiles`) are sequences of file
operations with a crash possible after each. Most modules write a handler as an
operator from a state to a state (`w` or `d` is `struct redisServer`, a client
or a disk), so that the calls it makes compose as they do in C.

### Multi

A key is absent, plain, volatile or expired; nothing more is visible to WATCH.
`watch` holds both sides of the WATCH tables: `client->watched_keys`
(`cwatched`), `db->watched_keys` (`dbwatched`, with the list order in `before`),
`wk->expired`, the CLIENT_DIRTY_CAS flags and `server.watching_clients`. The
actions are the commands of the header comment, one action for each way EXEC can
end (`ExecRejected` by the gate, `ExecAborted`, `ExecBegin`), one step for each
queued command, RESET or disconnection, the passing of time, the active expire
cycle, the master's commands on a replica and changes of the write gate.
`promised`, `broken` and `sent` are history: what the client was told, what
happened to it, and what it sent.

### ExecutionUnit

A key holds a counter, because INCR is the simplest write that must be applied
exactly once. `call` is the whole of `call()` for a command that runs no other;
`CallBegin` and `CallEnd` are its prologue and epilogue for EXEC, EVAL,
RAIN.FALL and modules of the two replication styles (`MODR` passes `!` to
RM_Call, `MODV` does not and calls RM_ReplicateVerbatim). `aof` and `repl` are
the operations fed to each stream. `Replay` is what the AOF loader and a replica
do with a stream, including the reversal of an unfinished MULTI. Scripts and
modules are taken to be deterministic, so that replaying one runs the same
commands. `deny` stands for any gate that refuses writes. Within EXEC the model
checks it per command, where the server refuses the EXEC as a whole; both
prevent the same writes, and `Multi` models the refusal itself.

### RainHost

`stack` holds the RAIN.FALLs in progress and the module commands they run.
`default_state`, `installed_state`, `rainfall_state`, `rainfall_backend` and
`caller` are the C variables; `opened` and `closed` tell which TCP states exist.
RAIN.CALL in process is one action for each outcome: refused by a check, run, or
run as a module command which may itself RM_Call RAIN.FALL. RAIN.CALL over TCP
is two steps, sending and the reply or failure. Commands are classed by how the
backend treats them (on the deny list, with a forbidden flag, both, neither,
unknown, module). `standalone` tells the library in a Moonquakes process from the
server.

### RainReply

A reply is a tree of types and contents. `raincall_push_reply` gives the Lua
value or the raised error, `rainFallReplyFromLua` the set of replies RAIN.FALL
may send: a set, because the length of a Lua table with holes is any border.
Allocation failures are left out.

### BlockedClients

`server` holds the data set (a value is its type and its number of elements),
the clients, `blocking_keys` with the number of clients that wait for a
deletion, `ready_keys`, `timeout_table`, `unblocked_clients`,
`postponed_clients` and the pause. `loop` is the phase of the event loop:
reading a socket, serving the ready keys, or processing the unblocked clients;
`server.rest` is what is left of the walk of `handleClientsBlockedOnKeys`, which
runs one client's command per step because that command may change the lists it
walks. BLPOP, BLMOVE and XREADGROUP stand for the ways to block: BLMOVE feeds
another key when it is served, XREADGROUP also wakes when its key goes away. A
time is none, past or to come, so that the clock needs no bound. `owed`, `due`
and `arrivals` are history: the answers a client still gets, when the latest,
and the order in which clients began to wait.

### AofFiles and DurableLog

The disk has files, each with how much of it an fsync has covered, and the
states of the AOF directory since its last fsync. Opening, renaming and
unlinking add directory states; a crash keeps the last one, a power loss any one
of them, with every file cut anywhere past its synced part. A write is two bytes
so that it can be cut. `server` holds `aof_buf`, the descriptor, the manifest in
memory, the offsets (`fsynced_reploff`, `fsynced_reploff_pending`), the child
and the queue of `bio.c`. Every handler (`flushAppendOnlyFile`,
`rewriteAppendOnlyFileBackground`, `backgroundRewriteDoneHandler`,
`startAppendOnly`, `stopAppendOnly`, shutdown, startup with
`aofLoadManifestFromDisk` and `aofOpenIfNeededOnServerStart`) is its sequence of
file operations, of which `Crash` executes any prefix. `promised` grows when a
client is answered with `appendfsync always`, and with `fsynced_reploff`, the
offset WAITAOF answers from.

`DurableLog` says what this should amount to: a log of writes of which a prefix
is durable; a failure loses a tail that is not durable, and nothing else. The
refinement maps the log to the data set while the server runs and to what
loading the files gives while it is down.

### PartialResync

A server is the replication fields of `struct redisServer` (`replid`, `replid2`
with `second_replid_offset`, `master_repl_offset`, backlog, master, cached
master, the state of the connection, the state of FAILOVER) and its data set,
which is the sequence of writes it was built from: two servers agree exactly
when their sequences do. A connection is the state of the slave at its master,
the answer to PSYNC that has not been read yet, and the writes behind it. Actions
are PSYNC at the master, the messages at the replica, the end of a BGSAVE and the
start of the next, REPLICAOF, FAILOVER with its timeout, abort and progress, SAVE, lost connections, failed saves and loads, the freeing of an
idle backlog, and restarts from `dump.rdb`.

### ClusterFailover

`view` is a node's own table: configuration epochs, roles, the owner of the
shard's slots, who failed. `saved` is its nodes.conf; a restart goes back to it.
Most handlers only ask for the file to be saved (`clusterDoBeforeSleep`, the
set `todo`), and `clusterBeforeSleep`, which does it, is a step of its own: a
packet that a handler queues on a link whose socket is ready in the same round
of the event loop leaves before the file is written, and a crash in between
forgets what it says. A collision of epochs, a won election and TAKEOVER save
before they return. `Gossip` is a PING with its PONG or an UPDATE from what the
sender knows at that time; votes and requests are messages in `msgs` that may be
lost or late. An election is scheduled, started, won, given up, or lost to a
master that is reachable again. `votes`, `unsaved`, `lost`, `counted` and `won`
are history: who voted for whom, which votes no file has, which of them a crash
took, which ones a replica counted, who won. The slots of the shard move together
and the voters are fixed.

### IoThreads

`cl` is the clients, with the flags of `struct client` that decide which thread
may use it (`running_tid`, `io_flags`, `CLIENT_CLOSE_ASAP`, the event loop of its
connection). `q[t]` has the seven lists of I/O thread `t`, three in the main
thread and four in its own; two of them are filled by the other thread under a
mutex. `bell` is the event
notifiers. `main` and `io[t]` are the threads, each with a program counter; a
step is what a thread does between two accesses to a list under a mutex, an
atomic variable or a notifier, and `cur` is the client it works on meanwhile.
The main thread's steps are its event loop, `processClientsFromIOThread` client
by client and command by command, `pauseIOThreadsRange` and what it pauses for,
`beforeSleep` with its second look, and the two ways to send clients to I/O
threads; an I/O thread's are its event loop, `enqueuePendingClientsToMainThread`
from each handler, `processClientsFromMainThread`, `IOThreadBeforeSleep` and
`handlePauseAndResume`. Commands stand for the ways they touch other clients:
none, PUBLISH, CLIENT KILL, a close at a safe time, CLIENT LIST, QUIT, and
SUBSCRIBE and UNSUBSCRIBE, which keep a client in the main thread and let it go.
`sock` is what clients have sent.

### Dict and KvstoreScan

`Dict` has the operations of `dict.c` on a dict of two tables: `dictResize`,
`dictExpandIfNeeded` and `dictShrinkIfNeeded` with the three resize policies,
`dictRehash` with its limit on empty buckets, insertion, two-phase unlinking,
and `dictScan` with its reverse binary cursor. A hash is a number of `Width`
bits given by a constant. `KvstoreScan` has a dict per slot, created on demand and,
when it is empty, freed or kept (`KVSTORE_FREE_EMPTY_DICTS`, as in cluster mode,
and `kvstoreCanFreeDict`, which keeps one with statistics), and a client that
calls SCAN again and again; the callback may delete what it is given. `live` and
`owed` are history: the keys that are there, and those that were there from the
start of the scan and have not been returned. The fill ratios and the first
table size are constants, scaled down so that a table jumps by two powers of two
with five keys.

## Runs

| Run | Instance | Shows |
|---|---|---|
| `multi_master` | 2 clients, 1 key, queues of 2, no SWAPDB | WATCH tables agree; EXEC runs only if no watched key changed, and exactly the commands sent; no write that is denied when EXEC starts |
| `multi_replica` | 2 clients, 2 keys, a replica, SWAPDB from the master | no EXEC fails for nothing |
| `unit` | 2 keys, 2 units, 3 inner commands, nesting 3 | both streams reproduce the data set; cut anywhere they reproduce a state between two units; a unit is one transaction; PUBLISH reaches replicas once and never the AOF; no write while writes are refused |
| `unit_rain_replay` | RAIN.FALL, 1 unit | `StreamsReplayToData` is violated |
| `rain_host` | 2 clients, modules, 3 connections, 4 operations, server and stand-alone, fair | the caller is running; commands run with its rights; no closed state is used; every RAIN.FALL returns, if no script connects the server to itself and the peers of the others answer or fail |
| `rain_reply` | trees of depth 2 and width 3, RESP2 and RESP3 | a nested error fails the call with the first error; replies come back as they were up to the losses listed in `Agrees` |
| `aof` | 2 writes, 3 rewrites or CONFIG SETs, 1 failure, `always` and `everysec`, failing writes, manifests, renames, forks and children | at every moment, whatever a power loss leaves loads, to a prefix with every write promised; the files implement `DurableLog` |
| `blocked` | 3 clients, 2 keys, 4 commands, fair | the tables agree; no wakeup, input or reply is lost or doubled; timeouts and order of waiting are kept; a client with a timeout, or paused, is unblocked in the end |
| `psync` | 3 servers in a chain, a backlog of 1 write, 2 writes, 2 events, fair | partial resynchronization only on the same history; no slave misses or repeats a write; a master, connected or cached, is where its replica is; FAILOVER without FORCE hands over to an equal, unless the master is at offset 0; in the end every replica has its master's data |
| `cluster_failover` | a master and 2 replicas, 2 voters, 2 elections with a restart, or 1 election with a TAKEOVER or BUMPEPOCH, fair | a second vote in an epoch only after a crash before the first one was saved; a second winner only after such a crash or with a vote of another epoch; replicas own nothing; in the end one owner, known to all, and distinct epochs |
| `io_threads` | 2 clients, 1 I/O thread, 2 requests or timers, 1 partial write, a limit of 1 pending client, fair | a client is in one list; no client is used by two threads; no thread sleeps over clients it was given; every request is answered without the help of a timer |
| `kvstore_scan` | 5 keys in 2 dicts, hashes of 4 bits | lookups find exactly the keys that are there; a scan returns every key that stays; every call brings it closer to its end |

Deadlock is checked in the runs of `Multi`, `AofFiles` and `KvstoreScan`. In the
others the bounds end every behaviour (`unit`, `psync`, `cluster_failover`), a
conversion or a stand-alone script ends (`rain_reply`, `rain_host`), or a server
with nothing to do waits for clients (`blocked`, `io_threads`).

Further configurations show behaviour described below and are not part of the
regular runs: `MCMultiSwapStale`, `MCExecutionUnitRainGates`, `MCRainHostNested`,
`MCRainHostSelf`, `MCBlockedClientsStore`, `MCAofFilesWaitaof`,
`MCAofFilesHistory`, `MCClusterFailoverLate`, `MCClusterFailoverCrash` and
`MCIoThreadsAlways`, each of them with one property, which TLC finds violated.

### Bounds

Two clients are enough for one to be listed before another on a key, which is
what `touchWatchedKey`'s loop depends on; keys start in any state in any
database, so that no run needs a prefix to build them. Queues of two hold a
write and a read in either order. In `unit`, two units let one create and the
other meet expired keys; two keys let one SCAN delete both; three inner commands
at nesting three reach EXEC over a module over a script. In `RainHost` three
connections let RAIN.CONNECT replace a connection that replaced another, and
four operations let a nested RAIN.FALL call Redis before and after the outer one
does.

In `aof`, two writes let one be in a file and the other in the buffer when
something fails; three events allow a rewrite during which the AOF is turned off
and on again. In `blocked`, three clients are two waiters in an order and one
that serves them, and with four commands a served BLMOVE can serve another
client; the data sets at the start hold strings, lists and streams. In `psync`,
three servers are needed for a replica to meet a master that was its sibling or
its replica, a backlog of one write is the smallest that can both serve and
refuse, and two writes make it overflow. In `cluster_failover`, with two voters
and a majority of two among three masters, every vote counts; the names of the
nodes order the three kinds of nodes in the ways that matter to the resolution
of collisions. In `io_threads`, a limit of one pending client makes every second
client on its way to the main thread take the path that sends those before it,
two clients let one be handed over while the other is executed, closed or
published to, and two requests are a request and the end of the connection, or
a command of each client. In `kvstore_scan`, the hashes put three keys into one bucket of
the small table and into different ones of the big table.

The bounds are the constants `MaxQueue`, `MaxUnits`, `MaxCalls`, `MaxDepth`,
`MaxLen`, `MaxWrites`, `MaxEvents`, `MaxPartial`, `MaxCrashes`, `MaxCommands` and `Budgets`.
Clients and keys (`Multi`) and keys (`ExecutionUnit`) are interchangeable, and the
runs without temporal properties use that symmetry where it pays.

### Fairness

- `FallReturns` (`rain_host`): `WF_vars(FallEnd \/ ModuleEnd)` and
  `WF_vars(TcpReply \/ TcpFails)`. The server's thread runs whatever is on its
  stack, so a script or a module command that can end does not stay there for
  ever; that scripts terminate is an assumption, since RAIN.FALL has no time
  limit. So is the second part: hiredis is given no timeout
  (`utils/raincall/raincall.c:167`), and only the peer, or TCP when it gives the
  connection up, ends the wait. The server itself cannot be that peer while it
  waits, so the run leaves it out of `Hosts`.
- `EventuallyUnblocked` (`blocked`): the event loop takes its next step, goes
  round again when it has work, time passes, and every pause ends (CLIENT PAUSE
  has a timeout). Clients owe nothing.
- `ReplicasCatchUp` (`psync`): a server that has a message to read, a connection
  to open or close, a child to reap or a FAILOVER to bring to its end goes on
  doing so, as its event loop and `replicationCron` do. Lost connections are
  bounded, and FAILOVER is given a TIMEOUT. No answer of another server is
  assumed to arrive.
- `RequestsAreAnswered` (`io_threads`): `WF_vars(MainStep)` and
  `WF_vars(IoStep(t))`: the scheduler of the operating system lets every thread
  run that is not asleep in `aeApiPoll`. The timers (`MainTimer`,
  `IOThreadCron`), which would paper over a lost notification, are not fair, and
  clients owe nothing.
- `EventuallySettled` (`cluster_failover`): `clusterCron` pings every node again
  and again, so news that a reachable node does not have is told in the end.
  Neither votes nor requests are assumed to arrive.

Where weak fairness of an action would make TLC evaluate ENABLED of a large
action, its guard is written out instead (`Busy`, `WaitsForEvents`, `Quiet`).

### The refinement

`ImplementsDurableLog` is `DurableLog`'s specification with `running`, `log` and
`durable` replaced by `up`, the data set (what loading finds, while the server is
down) and `promised`. A crash in the middle of a handler is a step to a log that
is a prefix no shorter than the promise; a start is a step that changes no write.
TLC checks it on the instance of `aof`.

## Where code and documentation disagree

One run shows a disagreement:

1. `unit_rain_replay`. RAIN.FALL is propagated together with the commands it
   ran, so that replicas and the AOF loader apply its writes twice.

The further configurations show these:

2. `MCClusterFailoverLate`. A vote that is read after its election was given up and
   the next one scheduled is counted in the next one
   (`src/cluster_legacy.c:3293`), so that two replicas can win one epoch, which
   the comment at `src/cluster_legacy.c:1749` says is not possible.
   `MCClusterFailoverCrash` shows another way to it: the ACK of a vote leaves
   before nodes.conf is saved, the voter crashes and votes again.
3. `MCMultiSwapStale`. `touchAllWatchedKeysInDb` marks a client that watches an
   expired key dirty when SWAPDB brings a live one, but leaves `wk->expired` set
   and the client listed. The `break` at `src/multi.c:407` then hides every later
   watcher of the key from `touchWatchedKey`, and such a client's EXEC runs
   although its key was written. (The same `break` hides a master's write from a
   client of a replica that WATCHed the key after its TTL had passed: set
   `Replica` to `TRUE` in that configuration.)
4. `MCExecutionUnitRainGates`. RAIN.CALL skips the gates of `processCommand`
   (`src/raincall_inprocess.c:319`), so that RAIN.FALL writes on a read-only
   replica, without memory, after disk errors and with too few replicas.
5. `MCRainHostNested`. The end of a nested RAIN.FALL resets the caller
   (`src/rainfall.c:165`), and the outer script can no longer call Redis.
6. `MCRainHostSelf`. RAIN.CONNECT replaces the in-process backend for the whole
   process, and a RAIN.CALL to the server itself (`utils/raincall/raincall.c:167`)
   blocks it for ever. `README.md:106` says that inside RAIN.FALL the in-process
   backend lets RAIN.CALL "call back into the same server without blocking the
   event loop".
7. `MCBlockedClientsStore`. A SORT ... STORE over a string signals the type that
   was overwritten only (`dbSetValue`, `src/db.c:625`), and a client blocked in
   BLPOP on the key is not woken by the list that is there now. The comment of
   `blockForKeys` (`src/blocked.c:394`) says that it is unblocked "as soon as one
   of the keys in 'keys' value was updated".
8. `MCAofFilesWaitaof` (`appendfsync everysec`). A rewrite opens a new
   incremental file while the old one is not synced; its BIO_CLOSE_AOF job is
   not counted by `aofFsyncInProgress`, and the next flush, with an empty
   `aof_buf`, takes all data to be synced ("All data is fsync'd already",
   `src/aof.c:1153`). WAITAOF then acknowledges a write that a power loss takes.
   This is the race `unsynced` of `AofFiles`.
9. `MCAofFilesHistory`. A BGREWRITEAOF while the AOF is off turns every
   incremental file into history. When the manifest that `aofDelHistoryFiles`
   writes last does not reach the disk, the next start numbers incremental files
   from one again and opens `incr.1` for append although `incr.1` is also listed
   as history; `aofDelHistoryFiles` then unlinks the file the server writes to.
   This is the race `reuse` of `AofFiles`. The comment at `src/aof.c:3124` says that "the history deletion failure will
   not cause any problems".
10. `MCIoThreadsAlways` (`appendfsync always`). `beforeSleep` executes the
    commands that I/O threads have read (`src/server.c:2046`) after it has
    flushed the AOF (`src/server.c:2024`) and sends the clients back with their
    answers (`src/server.c:2078`), so that the answer to a write may be sent
    before the write is in the file. The comment at `src/server.c:2020` says that
    the flush "must be done before handleClientsWithPendingWrites and
    sendPendingClientsToIOThreads, in case of appendfsync=always".

Each violated property is one that the code meets elsewhere: `ExecSeesNoChange`
on a master without SWAPDB, the stream and gate properties for EXEC, EVAL and
modules, `CallerKept` without nesting, `FallReturns` without RAIN.CONNECT to the
server itself, `NoLostWakeup` without such a STORE, `PromisesSurvivePowerLoss`
without the races of `AofFiles`, `WinnersDiffer` without votes that are late or
forgotten in a crash, `AnswersAreDurable` for commands that the main thread reads
itself.

What else the modelling brought up, without a promise to the contrary:

- An XREADGROUP that is executed again goes to the end of the waiters of its
  other keys, and a command that a pause postpones while it is executed again
  loses its place and its timeout; `ListsAreFair` is about lists only.
- FAILOVER without TIMEOUT refuses PSYNC from the replica it waits for, and waits
  for ever if that replica lost its connection. When the answer to PSYNC FAILOVER
  is lost, the old master aborts and is a master beside the promoted one; the
  replication IDs keep their histories apart. A target that restarts from an old
  RDB file while it is promoted loses writes.
- A master at offset 0, with data that no slave was sent, takes any slave for one
  that has caught up, because `repl_ack_off` is 0 until the first ACK
  (`src/replication.c:5448`). FAILOVER without FORCE then hands over to one that is
  still waiting for its snapshot; what may stop it is the comparison of
  replication IDs at the target (`src/replication.c:1215`).
- The other races of `AofFiles`, which the regular run assumes away; adding one to
  `Races` shows it. `leftover`: a rewrite that starts while `aof_buf` has commands
  that could not be written puts them into the new incremental file although the
  new base has them, and they are loaded twice. `openfd`: when the fork of CONFIG
  SET appendonly yes fails, `aof_fd` stays open on the temporary file, and a
  BGREWRITEAOF before the AOF is on again makes a base with all of the data set but
  keeps the old incremental files in the manifest. `pagecache`: a server that is
  killed leaves writes in the page cache; the next one loads them, takes them to be
  synced, and WAITAOF acknowledges them before the kernel has written them.
- The check against a replica of a replica (`src/cluster_legacy.c:2482`) does not
  fire when the PONG of the demoted master is heard first.

## Theorems

All proofs hold for any finite set of clients, servers or nodes, any keys, states,
filters and ACL rules, and without the bounds. They assume `MultiAssumption`,
`RainHostAssumption`, `NodesAssumption`, `IoThreadsAssumption`,
`ExecutionUnitAssumption` and the `BoundsAssumption` of `ClusterFailover` and of
`PartialResync` only, unless said otherwise.

- `MultiProofs!WatchTables`: types and `WatchTablesAgree`. The conjunction is
  inductive as it stands; the work is in `server.watching_clients`, which each
  way of unwatching must lower by the number of clients that watched something.
- `MultiProofs!WatchGuarantee`: `ExecSeesNoChange`, on a master
  (`~Replica`) whose clients do not use SWAPDB. With item 3 above this says that
  SWAPDB and replication are the only gaps of WATCH. The invariant `WatchInv`
  says that a client that is not dirty still watches all it was promised, that
  one whose key changed is dirty or has a watched key that expired since (which
  EXEC looks for), and that `wk->expired` is set only on expired keys, which is
  what SWAPDB and the master's writes break.
- `MultiProofs!QueueGuarantee`: `ExecRunsWhatWasSent`, and
  `MultiProofs!DeniedWritesDoNotRun`: `NoDeniedWriteInExec`. `QueueInv`
  relates the queue to what was sent for every client without a dirty flag, and
  the queue's writes to `mstate.cmd_flags`.
- `MultiProofs!DirtyForAReason`: `NoSpuriousDirtyCas`, on masters and
  replicas, with SWAPDB. `ReasonInv` adds that a client listed for an expired
  key without `wk->expired` has been told nothing false: the key expired while it
  was watched.
- `ExecutionUnitProofs!GatesHold`: `NoWriteWhileDenied`, if the gates never close or
  RAIN.FALL is not used (`RainIsKept`); with item 4 this says that RAIN.CALL is
  the only way around the gates. `GateInv` says that while writes are refused,
  only EXEC and EVAL are on the stack: a module command counts as a write and
  does not start, and no gate changes within a unit.
- `RainHostProofs!NoStateAfterClose`, `CallerIsOnTheStack` and
  `CallsHaveTheRightsOfTheirClient`: `StatesInUseAreOpen`, `CallerIsRunning` and
  `RunsAsItsCaller`, from one invariant. It adds that the installed state is the
  in-process one or the default one, that only the innermost RAIN.FALL waits,
  that a module command is right above the RAIN.FALL that called it with the same
  client, and that the caller, if any, is the client of the innermost RAIN.FALL.
- `ClusterFailoverProofs!TypeCorrect`: types, and that neither nodes.conf nor a
  vote is ever ahead of a node's current epoch.
- `ClusterFailoverProofs!VotesOnce`: `OneVotePerEpoch`, a second vote in an epoch
  only after a crash that took the first one. `VoteInv` says that every vote given
  and not lost is covered by the voter's last vote in memory and, once it is saved,
  by the one in its nodes.conf, so that a restart goes back behind unsaved votes
  only; and that an acknowledgement on its way is a vote given, sent once unless it
  was lost.
- `ClusterFailoverProofs!OneWinner`: `OneWinnerPerEpoch`, without any assumption on
  crashes, delays or retries; with item 2 this says that a vote forgotten in a
  crash and a vote of another epoch are the only ways to two winners. `CountInv`
  says that what a replica has counted are votes for it, each of them once unless
  its voter lost it, so that a winner whose votes are all of its own epoch has a
  quorum of voters; two quorums of one epoch share a voter, who voted twice only if
  it lost the first vote.
- `ClusterFailoverProofs!OwnersAreMasters`: `ReplicasOwnNothing`, from the tables
  alone.
- `IoThreadsProofs!NoLostHandOver`: `SleepersHaveNothingToDo`, for any number of
  I/O threads and clients. The invariant is about what each thread will still do
  before it sleeps. `InboxSeen` says that clients in the shared list of an I/O
  thread are followed by a pending notification, by one that the main thread is
  about to send, or by an I/O thread that runs and will look; `PendingSeen` says
  the same of the main thread. They need `MainShape` and `RunningFlag` (where in
  its loop each thread has its flag set, and that one which may sleep has cleared
  it before its last look), `NothingToGive` (`sendPendingClientsToIOThreads`
  leaves nothing behind), and `Pausing` (exactly the threads the main thread
  waits for are being paused or resumed, and one that is told to pause is
  notified or has not yet reached `handlePauseAndResume`).
- `IoThreadsProofs!ClientsAreInOneList` and `NoClientIsShared`: `InOneList` and
  `NoDataRace`, for any number of I/O threads and clients. The invariant is
  below.
- `PartialResyncProofs!MastersAreWhereTheirReplicasAre`, `SlavesMissNothing`,
  `GrantedIsTheSameHistory` and `PlannedFailoverLosesNothing`: `MasterIsMyself`,
  `SlavesGetEverything`, `PartialResyncIsSafe` and the action property
  `FailoverLosesNothing`, for any number of servers in any topology, any backlog
  size, and any number of writes, restarts, REPLICAOFs and failures. The
  argument is below.

### Who owns a client in IoThreads

`InOneList` alone is not inductive: a step of a handler is right only because of
what the thread has in hand, and the main thread may take a client out of a list
only because the thread is paused. `OInv`, which is inductive relative to the
invariant of `NoLostHandOver`, adds:

- `Tidy`: in the lists of one thread a client occurs once at most. `Listed`: it
  is in those of its own thread, unless the main thread executes its commands or
  owns it, and in no other;
- `Owned`: an open client is the main thread's (`OfMain`) or borrowed from an I/O
  thread (`Borrowed`). A borrowed one is run by the main thread exactly while it is
  `main.cur`, is in no other event loop than its thread's, has no pending
  `CLIENT_CLOSE_ASAP` and, while the I/O thread runs it, no pending write, and can
  be read and written only where it is in the `clients` of its thread. One that is
  new or freed has nothing that the main thread looks for (`Outside`);
- `InHand`, `Fired`: what the main thread has in hand fits where it is, and a
  pause is for all threads (CLIENT LIST) or for the one of a client that is still
  open; `Hands`: the client an I/O thread works on is in its `clients`, or in the
  list for the main thread once it is queued there, and a thread that can be paused
  has no client, no event and no half-linked list.

Each operation on the lists has a lemma that it keeps them tidy (`Puts`, `Takes`,
`Moves`, `MovesAll`), and each action one (`...Owners`) that it keeps `OInv`; the rest are
frame lemmas (`OneMoves`, `IoClientOwners`, `OtherHandsStay`) for what an action
leaves alone. TLC found `OInv` to hold with one I/O
thread and with two before it was proved.

### The invariant of PartialResync

That a partial resynchronization is safe says nothing of files on disk, of
connections in use or of what a server that is nobody's master knows, and is far
from inductive. The invariant is about points: a replication ID, an offset and
the data set that goes with them. The points of a server are its own position
(if it may tell it: it has a master, a cached master, or is a master with a
backlog), the end of its second ID, what its RDB file and the BGSAVE under way
record, and where its connection will have led it when all that is on it has
been applied. The main conjuncts:

- `Consistent`: of two points with the same ID, the longer data set continues the
  shorter one, and their lengths differ as their offsets do;
- `Frontier`: nobody has a point with a master's ID beyond the master's offset,
  and nobody has one with the ID of a master without a backlog. This is what the
  master's next write needs, and why `replicationCron` must draw a new ID when it
  frees the backlog;
- `OneMaster`: no two masters have the same ID;
- `Private`: a former master that wrote without a backlog caches itself as a
  master with an offset that did not count those writes; its ID is known to
  nobody else, so that nobody can grant it anything;
- `SlavesOk`: what is on the connection of a slave leads it to where its master
  is;
- `ServerOk`, `LinkOk`: how the fields of a server, and of its connection, fit
  together in each state of the handshake.

The lemma `Evolution` carries most of the proof. It says that these conjuncts
are kept by every step after which each point is below an earlier point with the
same ID, or below the one new end of a history: a master's next write, or a
point with an ID that was never drawn before. A handler then has to show only
where its points come from: each C function has a lemma on what it changes
(`...Effect`) and one that it keeps the invariant (`...Keeps`), and an action
composes them as the code does (`...Goes`). `GrantIsSafe` finally shows that a server which
accepts an ID and has the offset in its backlog has had the data set of the
asking point, by `Consistent` and the range of the backlog. `CaughtUpHasAll` shows
that a connected slave whose acknowledged offset is its master's has nothing left
to apply, by `SlavesOk`; at offset 0 the code takes slaves for such ones that are
not connected, and `FailoverLosesNothing` says nothing of them.

### A form the proofs avoid

tlapm 1.4.5 expands the inner `@` of `[f EXCEPT ![c] = [@ EXCEPT !.n = @ + 1]]`, and
an `@` of a clause whose place an earlier clause of the same EXCEPT has changed, to
the wrong value. The modules with proofs, and those they are about, write such
updates with an operator on the record (`Received` in `IoThreads`) or as two
EXCEPTs.

### What is only model-checked

- Liveness (`FallReturns`, `EventuallyUnblocked`, `ReplicasCatchUp`,
  `RequestsAreAnswered`, `EventuallySettled`), which is out of the prover's reach.
- `ExecutionUnit`'s three properties of the streams: what replaying a stream gives is a fold over the stream, and
  what it gives for every stream needs induction over data.
- `RainReply` (recursive operators), `Dict` and `KvstoreScan` (what the loops of
  rehashing and scanning compute needs induction over data).
- `AofFiles`, with the refinement of `DurableLog`: its crashes execute prefixes of
  sequences of file operations, and what a prefix leaves is again a fold.
- `BlockedClients`: its walks over the lists of waiters are folds as well.
- The properties that hold for some constants only, where a further configuration
  shows the others (`CallerKept`, `AcknowledgedWritesSurvive`,
  `AnswersAreDurable`).

## Not modelled

`PROJECT.json` lists every part with the reason. Within the modelled parts:

- Multi, ExecutionUnit, RainHost: ACL re-checks of queued commands inside EXEC,
  keyspace notifications, MONITOR, blocking commands inside EXEC, cluster
  redirections, dbids and the SELECTs in the streams, allocation failures outside
  `rainFallGetState`, and the text of errors.
- BlockedClients: WAIT and WAITAOF, clients blocked by modules, sorted sets (which
  block as lists do), the signals of SWAPDB, XGROUP DESTROY, and
  `disconnectAllBlockedClients`.
- AofFiles: `appendfsync no`, a failing fsync of the background thread and of the
  directory in the regular run, `no-appendfsync-on-rewrite`, timestamps, the
  upgrade of an old single file.
- PartialResync: diskless and RDB-channel synchronization, writable replicas, the
  DELs of keys that expire while loading, acknowledgements that arrive late, a
  master that does not notice yet that its slave closed the connection, REPLICAOF that
  closes a circle, an AOF beside the RDB file. The backlog is trimmed per write,
  where the code trims per block.
- ClusterFailover: manual failover, the delay and rank of a replica (an election
  may start at any time), failure reports (a node is flagged at any time while it
  is unreachable), MEET and FORGET, slots that move one by one, replica
  migration.
- IoThreads: replicas and masters served by I/O threads, `processEventsWhileBlocked`,
  nested pauses, prefetching of keys, TLS connections with pending data, timeouts
  and eviction of clients, resizing of the event loops, the start and the end of
  the threads.
- Dict and KvstoreScan: iterators, random keys, defragmentation, moving dicts
  between kvstores, a scan restricted to one slot or skipping slots.
