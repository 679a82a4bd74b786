------------------------------- MODULE Multi -------------------------------
(***************************************************************************)
(* MULTI / EXEC / DISCARD / WATCH / UNWATCH (src/multi.c), with the         *)
(* part of the keyspace they depend on: key expiry, FLUSHDB, SWAPDB, and    *)
(* the write gate of processCommand().                                      *)
(*                                                                         *)
(* The server is single threaded, so every action is one command handler.  *)
(* EXEC is the exception: it is one step per queued command, and in_exec    *)
(* disables every other action until the transaction ends.                  *)
(*                                                                         *)
(* Data is abstracted to what WATCH can tell apart.  A key is "absent",     *)
(* "plain" (no TTL), "volatile" (TTL in the future) or "expired" (TTL       *)
(* passed, still in the dict; logically absent).                            *)
(***************************************************************************)
EXTENDS Integers, Sequences, FiniteSets

CONSTANTS
    Clients,    \* connections
    Keys,       \* key names
    None,       \* no client
    MaxQueue,   \* bound: commands a client sends inside one MULTI
    Replica,    \* TRUE: this instance is a read-only replica
    Ops         \* names of the commands clients (and the master) send

ASSUME MultiAssumption ==
    /\ IsFiniteSet(Clients) /\ None \notin Clients
    /\ MaxQueue \in Nat
    /\ Replica \in BOOLEAN
    /\ Ops \subseteq {"SET", "SETEX", "DEL", "FLUSHDB", "SWAPDB", "GET", "UNWATCH"}

VARIABLES
    db,         \* the selected database: Keys -> KeyStates
    other,      \* a second database, the partner of SWAPDB
    watch,      \* the WATCH tables, see WatchState
    multi,      \* clients with CLIENT_MULTI
    dirty_exec, \* clients with CLIENT_DIRTY_EXEC
    commands,   \* c->mstate.commands
    cmd_write,  \* clients whose mstate.cmd_flags contains CMD_WRITE
    in_exec,    \* the client whose EXEC is running, or None
    executing,  \* mstate.executing_cmd: how many commands EXEC has run
    deny,       \* the gate refuses writes (disk error, min-replicas, replica)
    promised,   \* history: keys the client WATCHes, as it was told
    broken,     \* history: clients with a promised key modified since WATCH
    sent        \* history: commands the client sent since MULTI

vars == <<db, other, watch, multi, dirty_exec, commands, cmd_write, in_exec,
          executing, deny, promised, broken, sent>>
txvars == <<multi, dirty_exec, commands, cmd_write, in_exec, executing, sent>>

KeyStates == {"absent", "plain", "volatile", "expired"}
Present == {"plain", "volatile", "expired"}     \* dbFind() # NULL
Alive == {"plain", "volatile"}                  \* logically existing

Writes == [op: {"SET", "SETEX", "DEL"} \cap Ops, key: Keys]
              \cup [op: {"FLUSHDB", "SWAPDB"} \cap Ops]
Reads == [op: {"GET"} \cap Ops, key: Keys] \cup [op: {"UNWATCH"} \cap Ops]
Commands == Writes \cup Reads
Rejected == [op |-> "rejected"]

(* client->watched_keys (cwatched), db->watched_keys (dbwatched, and before
   for the order of each list), wk->expired, CLIENT_DIRTY_CAS, and
   server.watching_clients.                                                *)
WatchState ==
    [cwatched: [Clients -> SUBSET Keys],
     dbwatched: [Keys -> SUBSET Clients],
     before: [Keys -> SUBSET (Clients \X Clients)],
     expired: [Keys -> SUBSET Clients],
     dirty_cas: SUBSET Clients,
     watching: Nat]

(* keyIsExpired() *)
keyIsExpired(d, k) == d[k] = "expired"

----------------------------------------------------------------------------
(* The WATCH tables *)

Tables(cwatched, dbwatched, before, expired, dirty_cas, watching) ==
    [cwatched |-> cwatched, dbwatched |-> dbwatched, before |-> before,
     expired |-> expired, dirty_cas |-> dirty_cas, watching |-> watching]

(* watchForKey() for each key of K that c does not watch yet. *)
watchForKeys(w, c, K) ==
    LET new == K \ w.cwatched[c] IN
    Tables([w.cwatched EXCEPT ![c] = @ \cup K],
           [k \in Keys |-> w.dbwatched[k] \cup (IF k \in new THEN {c} ELSE {})],
           [k \in Keys |-> w.before[k] \cup (IF k \in new THEN w.dbwatched[k] \X {c} ELSE {})],
           [k \in Keys |-> w.expired[k] \cup (IF k \in new /\ keyIsExpired(db, k) THEN {c} ELSE {})],
           w.dirty_cas,
           w.watching + (IF w.cwatched[c] = {} THEN 1 ELSE 0))

(* Mutant: the client's own list is not emptied. *)
unwatchAllKeys_keepsClientList(w, C) ==
    Tables(w.cwatched,
           [k \in Keys |-> w.dbwatched[k] \ C],
           [k \in Keys |-> {p \in w.before[k] : p[1] \notin C /\ p[2] \notin C}],
           [k \in Keys |-> w.expired[k] \ C],
           w.dirty_cas,
           w.watching - Cardinality({c \in C : w.cwatched[c] # {}}))

(* unwatchAllKeys() for each client of C. *)
unwatchAllKeys(w, C) ==
    Tables([c \in Clients |-> IF c \in C THEN {} ELSE w.cwatched[c]],
           [k \in Keys |-> w.dbwatched[k] \ C],
           [k \in Keys |-> {p \in w.before[k] : p[1] \notin C /\ p[2] \notin C}],
           [k \in Keys |-> w.expired[k] \ C],
           w.dirty_cas,
           w.watching - Cardinality({c \in C : w.cwatched[c] # {}}))

clearDirtyCas(w, c) ==
    Tables(w.cwatched, w.dbwatched, w.before, w.expired, w.dirty_cas \ {c}, w.watching)

(* Mutant: EXEC does not look for keys that expired since WATCH. *)
isWatchedKeyExpired_never(w, c) == FALSE

isWatchedKeyExpired(w, c) ==
    \E k \in w.cwatched[c] : c \notin w.expired[k] /\ keyIsExpired(db, k)

(* Mutant: the deletion of an already expired key counts as a change. *)
touchedClients_all(w, k, present) == w.dbwatched[k]

(* The loop over the clients watching k.  It skips a client that watched an
   already expired key when the key is now gone, clearing its flag; when the
   key is still there it leaves the loop, so that the clients later in the
   list are not reached either.                                            *)
touchedClients(w, k, present) ==
    IF present
    THEN {c \in w.dbwatched[k] : \A d \in w.expired[k] : d # c /\ <<d, c>> \notin w.before[k]}
    ELSE w.dbwatched[k] \ w.expired[k]

touchWatchedKey(w, k, present) ==
    LET hit == touchedClients(w, k, present) IN
    unwatchAllKeys(Tables(w.cwatched, w.dbwatched, w.before,
                          [w.expired EXCEPT ![k] = IF present THEN @ ELSE {}],
                          w.dirty_cas \cup hit, w.watching), hit)

(* FLUSHDB passes NoDb as replaced_with; SWAPDB passes the other database. *)
NoDb == [k \in Keys |-> "absent"]

(* The watchers of k whose wk->expired the call clears, keeps and sets. *)
clearedExpired(w, replaced_with, k) ==
    IF replaced_with[k] \notin Present THEN w.expired[k] ELSE {}
keptExpired(w, replaced_with, k) ==
    IF keyIsExpired(replaced_with, k) THEN w.expired[k] ELSE {}
setExpired(w, emptied, replaced_with, k) ==
    IF emptied[k] \notin Present /\ keyIsExpired(replaced_with, k)
    THEN w.dbwatched[k] \ w.expired[k] ELSE {}

touchAllWatchedKeysInDb(w, emptied, replaced_with) ==
    LET affected == {k \in Keys : emptied[k] \in Present \/ replaced_with[k] \in Present}
        clear(k) == clearedExpired(w, replaced_with, k)
        set(k) == setExpired(w, emptied, replaced_with, k)
        hit(k) == w.dbwatched[k] \ (clear(k) \cup keptExpired(w, replaced_with, k) \cup set(k))
    IN Tables(w.cwatched, w.dbwatched, w.before,
              [k \in Keys |-> IF k \in affected
                             THEN (w.expired[k] \ clear(k)) \cup set(k)
                             ELSE w.expired[k]],
              w.dirty_cas \cup {c \in Clients : \E k \in affected : c \in hit(k)},
              w.watching)

----------------------------------------------------------------------------
(* Keyspace operations, as the commands use them *)

(* History: every client that was promised a key of K is broken. *)
Modified(K) == broken' = broken \cup {c \in Clients : promised[c] \cap K # {}}

(* expireIfNeeded(): a master deletes the expired key it meets. *)
expireIfNeeded(k) == ~Replica /\ keyIsExpired(db, k)
afterExpire(w, k) == IF expireIfNeeded(k) THEN touchWatchedKey(w, k, FALSE) ELSE w

(* setKey(): lookupKeyWrite, add or overwrite, keyModified. *)
setKey(k, s) ==
    /\ db' = [db EXCEPT ![k] = s]
    /\ watch' = touchWatchedKey(afterExpire(watch, k), k, TRUE)
    /\ Modified({k})
    /\ UNCHANGED <<other, promised>>

delGenericCommand(k) ==
    /\ db' = [db EXCEPT ![k] = "absent"]
    /\ watch' = IF db[k] \in Present THEN touchWatchedKey(watch, k, FALSE) ELSE watch
    /\ Modified(IF db[k] \in Alive THEN {k} ELSE {})
    /\ UNCHANGED <<other, promised>>

lookupKeyRead(k) ==
    /\ db' = IF expireIfNeeded(k) THEN [db EXCEPT ![k] = "absent"] ELSE db
    /\ watch' = afterExpire(watch, k)
    /\ UNCHANGED <<other, promised, broken>>

emptyData ==
    /\ watch' = touchAllWatchedKeysInDb(watch, db, NoDb)
    /\ db' = NoDb
    /\ Modified({k \in Keys : db[k] \in Alive})
    /\ UNCHANGED <<other, promised>>

dbSwapDatabases ==
    /\ watch' = touchAllWatchedKeysInDb(watch, db, other)
    /\ db' = other
    /\ other' = db
    /\ Modified({k \in Keys : db[k] \in Alive \/ other[k] \in Alive})
    /\ UNCHANGED promised

unwatchCommand(c) ==
    /\ watch' = clearDirtyCas(unwatchAllKeys(watch, {c}), c)
    /\ promised' = [promised EXCEPT ![c] = {}]
    /\ broken' = broken \ {c}
    /\ UNCHANGED <<db, other>>

(* call(): the handler of the command. *)
call(c, cmd) ==
    \/ cmd.op = "SET" /\ setKey(cmd.key, "plain")
    \/ cmd.op = "SETEX" /\ setKey(cmd.key, "volatile")
    \/ cmd.op = "DEL" /\ delGenericCommand(cmd.key)
    \/ cmd.op = "GET" /\ lookupKeyRead(cmd.key)
    \/ cmd.op = "FLUSHDB" /\ emptyData
    \/ cmd.op = "SWAPDB" /\ dbSwapDatabases
    \/ cmd.op = "UNWATCH" /\ unwatchCommand(c)

----------------------------------------------------------------------------
(* Transactions *)

Init ==
    /\ db \in [Keys -> KeyStates]
    /\ other \in [Keys -> KeyStates]
    /\ watch = Tables([c \in Clients |-> {}], [k \in Keys |-> {}], [k \in Keys |-> {}],
                      [k \in Keys |-> {}], {}, 0)
    /\ multi = {} /\ dirty_exec = {} /\ cmd_write = {}
    /\ commands = [c \in Clients |-> <<>>]
    /\ in_exec = None /\ executing = 0
    /\ deny = Replica
    /\ promised = [c \in Clients |-> {}]
    /\ broken = {}
    /\ sent = [c \in Clients |-> <<>>]

discardTransaction(c) ==
    /\ commands' = [commands EXCEPT ![c] = <<>>]
    /\ cmd_write' = cmd_write \ {c}
    /\ multi' = multi \ {c}
    /\ dirty_exec' = dirty_exec \ {c}
    /\ watch' = clearDirtyCas(unwatchAllKeys(watch, {c}), c)
    /\ promised' = [promised EXCEPT ![c] = {}]
    /\ broken' = broken \ {c}
    /\ sent' = [sent EXCEPT ![c] = <<>>]

(* Mutant: only the flags of the last command are remembered. *)
queueMultiCommand_lastFlags(c, cmd) ==
    /\ commands' = [commands EXCEPT ![c] = Append(@, cmd)]
    /\ cmd_write' = IF cmd \in Writes THEN cmd_write \cup {c} ELSE cmd_write \ {c}

queueMultiCommand(c, cmd) ==
    IF c \in watch.dirty_cas \cup dirty_exec
    THEN UNCHANGED <<commands, cmd_write>>
    ELSE /\ commands' = [commands EXCEPT ![c] = Append(@, cmd)]
         /\ cmd_write' = IF cmd \in Writes THEN cmd_write \cup {c} ELSE cmd_write

multiCommand(c) ==
    /\ in_exec = None
    /\ c \notin multi
    /\ multi' = multi \cup {c}
    /\ UNCHANGED <<db, other, watch, dirty_exec, commands, cmd_write, in_exec,
                   executing, deny, promised, broken, sent>>

discardCommand(c) ==
    /\ in_exec = None
    /\ c \in multi
    /\ discardTransaction(c)
    /\ UNCHANGED <<db, other, in_exec, executing, deny>>

watchCommand(c, K) ==
    /\ in_exec = None
    /\ c \notin multi
    /\ c \notin watch.dirty_cas
    /\ watch' = watchForKeys(watch, c, K)
    /\ promised' = [promised EXCEPT ![c] = @ \cup K]
    /\ UNCHANGED <<db, other, deny, broken, txvars>>

(* A command outside MULTI that the gate lets through. *)
CallCommand(c, cmd) ==
    /\ in_exec = None
    /\ c \notin multi
    /\ ~(deny /\ cmd \in Writes)
    /\ call(c, cmd)
    /\ UNCHANGED <<deny, txvars>>

QueueCommand(c, cmd) ==
    /\ in_exec = None
    /\ c \in multi
    /\ Len(sent[c]) < MaxQueue
    /\ ~(deny /\ cmd \in Writes)
    /\ queueMultiCommand(c, cmd)
    /\ sent' = [sent EXCEPT ![c] = Append(@, cmd)]
    /\ UNCHANGED <<db, other, watch, multi, dirty_exec, in_exec, executing,
                   deny, promised, broken>>

(* Mutant: flagTransaction() is not called for a refused command. *)
rejectCommand_noFlag(c) ==
    /\ in_exec = None
    /\ c \in multi
    /\ Len(sent[c]) < MaxQueue
    /\ sent' = [sent EXCEPT ![c] = Append(@, Rejected)]
    /\ UNCHANGED <<db, other, watch, multi, dirty_exec, commands, cmd_write,
                   in_exec, executing, deny, promised, broken>>

(* rejectCommand(): refused by the gate, or unknown, or of wrong arity. *)
rejectCommand(c) ==
    /\ in_exec = None
    /\ c \in multi
    /\ Len(sent[c]) < MaxQueue
    /\ dirty_exec' = dirty_exec \cup {c}
    /\ sent' = [sent EXCEPT ![c] = Append(@, Rejected)]
    /\ UNCHANGED <<db, other, watch, multi, commands, cmd_write, in_exec,
                   executing, deny, promised, broken>>

(* EXEC refused by the gate: is_write_command includes mstate.cmd_flags. *)
ExecRefused(c) == deny /\ c \in cmd_write

ExecRejected(c) ==
    /\ in_exec = None
    /\ c \in multi
    /\ ExecRefused(c)
    /\ discardTransaction(c)
    /\ UNCHANGED <<db, other, in_exec, executing, deny>>

ExecDirty(c) == c \in watch.dirty_cas \cup dirty_exec \/ isWatchedKeyExpired(watch, c)

ExecAborted(c) ==
    /\ in_exec = None
    /\ c \in multi
    /\ ~ExecRefused(c)
    /\ ExecDirty(c)
    /\ discardTransaction(c)
    /\ UNCHANGED <<db, other, in_exec, executing, deny>>

ExecBegin(c) ==
    /\ in_exec = None
    /\ c \in multi
    /\ ~ExecRefused(c)
    /\ ~ExecDirty(c)
    /\ watch' = unwatchAllKeys(watch, {c})
    /\ promised' = [promised EXCEPT ![c] = {}]
    /\ in_exec' = c
    /\ executing' = 0
    /\ UNCHANGED <<db, other, multi, dirty_exec, commands, cmd_write, deny,
                   broken, sent>>

ExecCommand(c) ==
    /\ in_exec = c
    /\ executing < Len(commands[c])
    /\ call(c, commands[c][executing + 1])
    /\ executing' = executing + 1
    /\ UNCHANGED <<multi, dirty_exec, commands, cmd_write, in_exec, deny, sent>>

ExecEnd(c) ==
    /\ in_exec = c
    /\ executing = Len(commands[c])
    /\ discardTransaction(c)
    /\ in_exec' = None
    /\ executing' = 0
    /\ UNCHANGED <<db, other, deny>>

(* RESET, or the connection is closed and the slot is reused. *)
ResetClient(c) ==
    /\ in_exec = None
    /\ discardTransaction(c)
    /\ UNCHANGED <<db, other, in_exec, executing, deny>>

----------------------------------------------------------------------------
(* The environment: time, the expire cycle, the replication link, the gate *)

TimePasses(k) ==
    /\ in_exec = None
    /\ \/ /\ db[k] = "volatile"
          /\ db' = [db EXCEPT ![k] = "expired"]
          /\ Modified({k})
          /\ UNCHANGED other
       \/ /\ other[k] = "volatile"
          /\ other' = [other EXCEPT ![k] = "expired"]
          /\ UNCHANGED <<db, broken>>
    /\ UNCHANGED <<watch, deny, promised, txvars>>

activeExpireCycle(k) ==
    /\ in_exec = None
    /\ expireIfNeeded(k)
    /\ db' = [db EXCEPT ![k] = "absent"]
    /\ watch' = afterExpire(watch, k)
    /\ UNCHANGED <<other, deny, promised, broken, txvars>>

(* A command of the replication stream: never refused, and keys are never
   considered expired for it.                                              *)
MasterCommand(cmd) ==
    /\ in_exec = None
    /\ Replica
    /\ call(None, cmd)
    /\ UNCHANGED <<deny, txvars>>

GateChanges ==
    /\ in_exec = None
    /\ ~Replica
    /\ deny' = ~deny
    /\ UNCHANGED <<db, other, watch, promised, broken, txvars>>

Next ==
    \/ \E c \in Clients :
         \/ multiCommand(c) \/ discardCommand(c) \/ ResetClient(c) \/ rejectCommand(c)
         \/ \E K \in (SUBSET Keys) \ {{}} : watchCommand(c, K)
         \/ \E cmd \in Commands : CallCommand(c, cmd) \/ QueueCommand(c, cmd)
         \/ ExecRejected(c) \/ ExecAborted(c) \/ ExecBegin(c) \/ ExecCommand(c) \/ ExecEnd(c)
    \/ \E k \in Keys : TimePasses(k) \/ activeExpireCycle(k)
    \/ \E cmd \in Writes : MasterCommand(cmd)
    \/ GateChanges

Spec == Init /\ [][Next]_vars

----------------------------------------------------------------------------
(* Properties *)

(* Every variable has its type. *)
TypeOK ==
    /\ db \in [Keys -> KeyStates] /\ other \in [Keys -> KeyStates]
    /\ watch \in WatchState
    /\ multi \subseteq Clients /\ dirty_exec \subseteq Clients /\ cmd_write \subseteq Clients
    /\ commands \in [Clients -> Seq(Commands)]
    /\ in_exec \in Clients \cup {None} /\ executing \in Nat
    /\ deny \in BOOLEAN
    /\ promised \in [Clients -> SUBSET Keys] /\ broken \subseteq Clients
    /\ sent \in [Clients -> Seq(Commands \cup {Rejected})]

TablesAgree(w) ==
    /\ \A c \in Clients, k \in Keys : c \in w.dbwatched[k] <=> k \in w.cwatched[c]
    /\ \A k \in Keys : w.expired[k] \subseteq w.dbwatched[k]
    /\ \A k \in Keys, c, d \in Clients :
         <<c, d>> \in w.before[k] => /\ c \in w.dbwatched[k] /\ d \in w.dbwatched[k]
                                    /\ <<d, c>> \notin w.before[k]
    /\ w.watching = Cardinality({c \in Clients : w.cwatched[c] # {}})

(* The two sides of the WATCH tables agree: watchForKey() and
   unwatchAllKeys() link and unlink a watchedKey in the client's list and in
   the key's list together, a key's list is ordered, and
   server.watching_clients counts the clients that watch something.        *)
WatchTablesAgree == TablesAgree(watch)

(* The point of WATCH: a transaction runs only if no key the client was
   told is watched was modified (written, deleted, flushed, swapped or
   expired) since its WATCH.  touchWatchedKey(), touchAllWatchedKeysInDb()
   and isWatchedKeyExpired() implement it.                                 *)
ExecSeesNoChange == in_exec # None => in_exec \notin broken

(* The converse: EXEC does not fail for a WATCHed key that did not change;
   CLIENT_DIRTY_CAS is set only if a watched key really was modified, in
   particular not by the deletion of a key that was expired already.        *)
NoSpuriousDirtyCas == watch.dirty_cas \subseteq broken

(* All or nothing: a running transaction holds exactly the commands the
   client sent since MULTI, none refused and none dropped by the early
   return of queueMultiCommand().                                          *)
ExecRunsWhatWasSent == in_exec # None => commands[in_exec] = sent[in_exec]

(* A write queued while writes were allowed does not run while they are
   denied: processCommand() tests the flags accumulated in mstate.cmd_flags
   when EXEC arrives.                                                      *)
NoDeniedWriteInExec ==
    in_exec # None /\ deny =>
        \A i \in 1..Len(commands[in_exec]) : commands[in_exec][i] \notin Writes
============================================================================
