---------------------------- MODULE MultiProofs ----------------------------
(***************************************************************************)
(* Proofs about Multi, for every set of clients and keys: the WATCH tables, *)
(* what WATCH and the queue of MULTI guarantee, and the gates on an EXEC.   *)
(***************************************************************************)
EXTENDS Multi, FiniteSetTheorems, TLAPS

Good(w) == w \in WatchState /\ TablesAgree(w)

(* Sets of clients are finite, so the counter is a number. *)
LEMMA ClientSets ==
  ASSUME NEW S \in SUBSET Clients
  PROVE  IsFiniteSet(S) /\ Cardinality(S) \in Nat
  BY FS_Subset, FS_CardinalityType, MultiAssumption, Zenon

(* unwatchAllKeys() keeps the two sides of the tables in step. *)
LEMMA UnwatchGood ==
  ASSUME NEW w, Good(w), NEW C \in SUBSET Clients
  PROVE  Good(unwatchAllKeys(w, C))
<1> DEFINE u == unwatchAllKeys(w, C)
           S == {c \in Clients : w.cwatched[c] # {}}
           T == {c \in C : w.cwatched[c] # {}}
           V == {c \in Clients : u.cwatched[c] # {}}
<1>1. V = S \ T
  BY Zenon DEF unwatchAllKeys, Tables
<1>2. Cardinality(V) = Cardinality(S) - Cardinality(S \cap T)
  BY <1>1, ClientSets, FS_Difference, Zenon
<1>3. S \cap T = T
  BY Zenon
<1>4. w.watching = Cardinality(S)
  BY Zenon DEF Good, TablesAgree
<1>5. u.watching = w.watching - Cardinality(T)
  BY Zenon DEF unwatchAllKeys, Tables
<1>6. u.watching = Cardinality(V) /\ u.watching \in Nat
  BY <1>2, <1>3, <1>4, <1>5, ClientSets, Zenon
<1>7. u \in WatchState
  BY <1>6, Zenon DEF Good, WatchState, unwatchAllKeys, Tables
<1>8. /\ \A c \in Clients, k \in Keys : c \in u.dbwatched[k] <=> k \in u.cwatched[c]
      /\ \A k \in Keys : u.expired[k] \subseteq u.dbwatched[k]
  BY Zenon DEF Good, WatchState, TablesAgree, unwatchAllKeys, Tables
<1>9. \A k \in Keys, c, d \in Clients :
         <<c, d>> \in u.before[k] => /\ c \in u.dbwatched[k] /\ d \in u.dbwatched[k]
                                    /\ <<d, c>> \notin u.before[k]
  BY Zenon DEF Good, WatchState, TablesAgree, unwatchAllKeys, Tables
<1> QED BY <1>6, <1>7, <1>8, <1>9, Zenon DEF Good, TablesAgree

(* So does watchForKey(). *)
LEMMA WatchGood ==
  ASSUME NEW w, Good(w), NEW c \in Clients, NEW K \in (SUBSET Keys) \ {{}}
  PROVE  Good(watchForKeys(w, c, K))
<1> DEFINE u == watchForKeys(w, c, K)
           S == {d \in Clients : w.cwatched[d] # {}}
           V == {d \in Clients : u.cwatched[d] # {}}
<1>0. w \in WatchState /\ w.watching = Cardinality(S)
  BY Zenon DEF Good, TablesAgree
<1>1. V = S \cup {c}
  BY <1>0, Zenon DEF watchForKeys, Tables, WatchState
<1>2. Cardinality(V) = Cardinality(S) + (IF w.cwatched[c] = {} THEN 1 ELSE 0)
  <2>1. IsFiniteSet(S) /\ Cardinality(S) \in Nat
    BY ClientSets, Zenon
  <2>2. c \in S <=> w.cwatched[c] # {}
    BY Zenon
  <2>3. Cardinality(S \cup {c}) = IF c \in S THEN Cardinality(S) ELSE Cardinality(S) + 1
    BY <2>1, FS_AddElement, Zenon
  <2> HIDE DEF S, V
  <2> QED BY <1>1, <2>1, <2>2, <2>3
<1>3. u.watching = Cardinality(V) /\ u.watching \in Nat
  BY <1>0, <1>2, ClientSets, Zenon DEF watchForKeys, Tables
<1>4. u \in WatchState
  BY <1>0, <1>3 DEF WatchState, watchForKeys, Tables
<1>5. /\ \A d \in Clients, k \in Keys : d \in u.dbwatched[k] <=> k \in u.cwatched[d]
      /\ \A k \in Keys : u.expired[k] \subseteq u.dbwatched[k]
  BY DEF Good, WatchState, TablesAgree, watchForKeys, Tables
<1>6. \A k \in Keys, a, d \in Clients :
         <<a, d>> \in u.before[k] => /\ a \in u.dbwatched[k] /\ d \in u.dbwatched[k]
                                    /\ <<d, a>> \notin u.before[k]
  BY DEF Good, WatchState, TablesAgree, watchForKeys, Tables
<1> QED BY <1>3, <1>4, <1>5, <1>6, Zenon DEF Good, TablesAgree

(* Clearing CLIENT_DIRTY_CAS leaves the tables alone. *)
LEMMA ClearGood ==
  ASSUME NEW w, Good(w), NEW c \in Clients
  PROVE  Good(clearDirtyCas(w, c))
  BY Zenon DEF Good, WatchState, TablesAgree, clearDirtyCas, Tables

(* touchWatchedKey() keeps them in step too. *)
LEMMA TouchGood ==
  ASSUME NEW w, Good(w), NEW k \in Keys, NEW present \in BOOLEAN
  PROVE  Good(touchWatchedKey(w, k, present))
<1> DEFINE hit == touchedClients(w, k, present)
           v == Tables(w.cwatched, w.dbwatched, w.before,
                       [w.expired EXCEPT ![k] = IF present THEN @ ELSE {}],
                       w.dirty_cas \cup hit, w.watching)
<1>1. hit \in SUBSET Clients
  BY Zenon DEF Good, WatchState, touchedClients
<1>2. Good(v)
  BY <1>1, Zenon DEF Good, WatchState, TablesAgree, Tables
<1>3. touchWatchedKey(w, k, present) = unwatchAllKeys(v, hit)
  BY Zenon DEF touchWatchedKey
<1> HIDE DEF v, hit
<1> QED BY <1>1, <1>2, <1>3, UnwatchGood, Zenon

(* And touchAllWatchedKeysInDb(). *)
LEMMA TouchAllGood ==
  ASSUME NEW w, Good(w), NEW d1 \in [Keys -> KeyStates], NEW d2 \in [Keys -> KeyStates]
  PROVE  Good(touchAllWatchedKeysInDb(w, d1, d2))
  BY DEF Good, WatchState, TablesAgree, touchAllWatchedKeysInDb, Tables,
         clearedExpired, keptExpired, setExpired

Inv1 == TypeOK /\ WatchTablesAgree

(* Whatever command runs, it leaves the keyspace, the tables and the history
   well formed.  The replication stream (c = None) carries writes only.    *)
LEMMA CallGood ==
  ASSUME Inv1, NEW c \in Clients \cup {None}, NEW cmd \in Commands,
         c = None => cmd \in Writes, call(c, cmd)
  PROVE  /\ Good(watch')
         /\ db' \in [Keys -> KeyStates] /\ other' \in [Keys -> KeyStates]
         /\ promised' \in [Clients -> SUBSET Keys] /\ broken' \subseteq Clients
<1> USE MultiAssumption
<1>0. Good(watch) /\ db \in [Keys -> KeyStates] /\ other \in [Keys -> KeyStates]
      /\ promised \in [Clients -> SUBSET Keys] /\ broken \subseteq Clients
  BY Zenon DEF Inv1, TypeOK, WatchTablesAgree, Good
<1>a. NoDb \in [Keys -> KeyStates]
  BY Zenon DEF NoDb, KeyStates
<1>b. \A k \in Keys : Good(afterExpire(watch, k))
  BY <1>0, TouchGood, Zenon DEF afterExpire
<1>1. CASE \E s \in {"plain", "volatile"} : cmd.key \in Keys /\ setKey(cmd.key, s)
  <2>1. PICK s \in {"plain", "volatile"} : cmd.key \in Keys /\ setKey(cmd.key, s)
    BY <1>1, Zenon
  <2>2. Good(watch')
    BY <2>1, <1>b, TouchGood, Zenon DEF setKey
  <2> QED BY <1>0, <2>1, <2>2, Zenon DEF setKey, Modified, KeyStates
<1>2. CASE cmd.key \in Keys /\ delGenericCommand(cmd.key)
  BY <1>0, <1>2, TouchGood, Zenon DEF delGenericCommand, Modified, KeyStates
<1>3. CASE cmd.key \in Keys /\ lookupKeyRead(cmd.key)
  BY <1>0, <1>3, <1>b, Zenon DEF lookupKeyRead, KeyStates
<1>4. CASE emptyData
  BY <1>0, <1>4, <1>a, TouchAllGood, Zenon DEF emptyData, Modified
<1>5. CASE dbSwapDatabases
  BY <1>0, <1>5, TouchAllGood, Zenon DEF dbSwapDatabases, Modified
<1>6. CASE c \in Clients /\ unwatchCommand(c)
  <2>1. Good(unwatchAllKeys(watch, {c}))
    BY <1>0, <1>6, UnwatchGood, Zenon
  <2> QED BY <1>0, <1>6, <2>1, ClearGood, Zenon DEF unwatchCommand
<1>7. cmd.op \in {"SET", "SETEX", "DEL", "GET"} => cmd.key \in Keys
  BY Zenon DEF Commands, Writes, Reads
<1>8. cmd.op = "UNWATCH" => c \in Clients
  BY Zenon DEF Writes
<1> QED BY <1>1, <1>2, <1>3, <1>4, <1>5, <1>6, <1>7, <1>8, Zenon DEF call

(* discardTransaction() of a client. *)
LEMMA DiscardGood ==
  ASSUME Inv1, NEW c \in Clients, discardTransaction(c)
  PROVE  Good(watch')
<1>1. Good(unwatchAllKeys(watch, {c}))
  BY UnwatchGood, Zenon DEF Inv1, TypeOK, WatchTablesAgree, Good
<1> QED BY <1>1, ClearGood, Zenon DEF discardTransaction

(* Every variable keeps its type and the WATCH tables of multi.c stay
   consistent, on masters and replicas, with and without SWAPDB.           *)
THEOREM WatchTables == Spec => [](TypeOK /\ WatchTablesAgree)
<1> USE MultiAssumption
<1>1. Init => Inv1
  <2> SUFFICES ASSUME Init PROVE Inv1
    BY Zenon
  <2>1. {c \in Clients : watch.cwatched[c] # {}} = {}
    BY Zenon DEF Init, Tables
  <2>2. Cardinality({c \in Clients : watch.cwatched[c] # {}}) = 0
    BY <2>1, FS_EmptySet, Zenon
  <2>3. WatchTablesAgree
    BY <2>2, Zenon DEF Init, Tables, WatchTablesAgree, TablesAgree
  <2>4. TypeOK
    BY DEF Init, Tables, TypeOK, WatchState
  <2> QED BY <2>3, <2>4, Zenon DEF Inv1
<1>2. Inv1 /\ [Next]_vars => Inv1'
  <2> SUFFICES ASSUME Inv1, [Next]_vars PROVE Inv1'
    BY Zenon
  <2> USE DEF Inv1
  <2>g. Good(watch)
    BY Zenon DEF TypeOK, WatchTablesAgree, Good
  <2>t. ASSUME Good(watch'), db' \in [Keys -> KeyStates], other' \in [Keys -> KeyStates],
               multi' \subseteq Clients, dirty_exec' \subseteq Clients, cmd_write' \subseteq Clients,
               commands' \in [Clients -> Seq(Commands)],
               in_exec' \in Clients \cup {None}, executing' \in Nat, deny' \in BOOLEAN,
               promised' \in [Clients -> SUBSET Keys], broken' \subseteq Clients,
               sent' \in [Clients -> Seq(Commands \cup {Rejected})]
        PROVE Inv1'
    BY <2>t, Zenon DEF Good, TypeOK, WatchTablesAgree, TablesAgree, WatchState, KeyStates, Commands, Writes, Reads, Rejected
  <2>1. CASE UNCHANGED vars
    BY <2>1, <2>t, <2>g, Zenon DEF vars, TypeOK
  <2>2. ASSUME NEW c \in Clients, multiCommand(c) PROVE Inv1'
    BY <2>2, <2>t, <2>g, Zenon DEF multiCommand, TypeOK
  <2>3. ASSUME NEW c \in Clients, discardTransaction(c), UNCHANGED <<db, other, deny>>,
               in_exec' \in {in_exec, None}, executing' \in {executing, 0} PROVE Inv1'
    <3>1. Good(watch')
      BY <2>3, DiscardGood, Zenon
    <3> QED BY <2>3, <2>t, <3>1 DEF discardTransaction, TypeOK
  <2>4. ASSUME NEW c \in Clients, rejectCommand(c) PROVE Inv1'
    BY <2>4, <2>t, <2>g DEF rejectCommand, TypeOK
  <2>5. ASSUME NEW c \in Clients, NEW K \in (SUBSET Keys) \ {{}}, watchCommand(c, K) PROVE Inv1'
    BY <2>5, <2>t, <2>g, WatchGood, Zenon DEF watchCommand, TypeOK, txvars
  <2>6. ASSUME NEW c \in Clients, NEW cmd \in Commands, CallCommand(c, cmd) PROVE Inv1'
    BY <2>6, <2>t, CallGood, Zenon DEF CallCommand, TypeOK, txvars
  <2>7. ASSUME NEW c \in Clients, NEW cmd \in Commands, QueueCommand(c, cmd) PROVE Inv1'
    <3>1. commands' \in [Clients -> Seq(Commands)] /\ cmd_write' \subseteq Clients
      <4>1. Append(commands[c], cmd) \in Seq(Commands)
        BY DEF TypeOK
      <4>2. CASE c \in watch.dirty_cas \cup dirty_exec
        BY <2>7, <4>2, Zenon DEF QueueCommand, queueMultiCommand, TypeOK
      <4>3. CASE c \notin watch.dirty_cas \cup dirty_exec
        BY <2>7, <4>1, <4>3, Zenon DEF QueueCommand, queueMultiCommand, TypeOK
      <4> QED BY <4>2, <4>3, Zenon
    <3>2. sent' \in [Clients -> Seq(Commands \cup {Rejected})]
      <4>1. Append(sent[c], cmd) \in Seq(Commands \cup {Rejected})
        BY DEF TypeOK
      <4> QED BY <2>7, <4>1, Zenon DEF QueueCommand, TypeOK
    <3> QED BY <2>7, <2>t, <2>g, <3>1, <3>2, Zenon DEF QueueCommand, TypeOK
  <2>8. ASSUME NEW c \in Clients, ExecBegin(c) PROVE Inv1'
    BY <2>8, <2>t, <2>g, UnwatchGood, Zenon DEF ExecBegin, TypeOK
  <2>9. ASSUME NEW c \in Clients, ExecCommand(c) PROVE Inv1'
    <3>1. commands[c][executing + 1] \in Commands
      BY <2>9 DEF ExecCommand, TypeOK
    <3> QED BY <2>9, <3>1, <2>t, CallGood DEF ExecCommand, TypeOK
  <2>10. ASSUME NEW k \in Keys, TimePasses(k) PROVE Inv1'
    BY <2>10, <2>t, <2>g, Zenon DEF TimePasses, Modified, TypeOK, txvars, KeyStates
  <2>11. ASSUME NEW k \in Keys, activeExpireCycle(k) PROVE Inv1'
    BY <2>11, <2>t, <2>g, TouchGood, Zenon DEF activeExpireCycle, afterExpire, TypeOK, txvars, KeyStates
  <2>12. ASSUME NEW cmd \in Writes, MasterCommand(cmd) PROVE Inv1'
    <3>1. cmd \in Commands
      BY Zenon DEF Commands
    <3> QED BY <2>12, <3>1, <2>t, CallGood, Zenon DEF MasterCommand, TypeOK, txvars
  <2>13. CASE GateChanges
    BY <2>13, <2>t, <2>g, Zenon DEF GateChanges, TypeOK, txvars
  <2>14. ASSUME NEW c \in Clients,
                discardCommand(c) \/ ResetClient(c) \/ ExecRejected(c) \/ ExecAborted(c) \/ ExecEnd(c)
         PROVE Inv1'
    BY <2>3, <2>14, Zenon DEF discardCommand, ResetClient, ExecRejected, ExecAborted, ExecEnd
  <2> QED BY <2>1, <2>2, <2>4, <2>5, <2>6, <2>7, <2>8, <2>9, <2>10, <2>11, <2>12, <2>13, <2>14, Zenon DEF Next
<1>3. Inv1 => TypeOK /\ WatchTablesAgree
  BY Zenon DEF Inv1
<1> QED BY <1>1, <1>2, <1>3, PTL DEF Spec

-----------------------------------------------------------------------------

(* u is w after the clients of hit were marked dirty and their watches, and
   the flags of the watches of the keys K, were cleared.                   *)
Touched(w, u, hit, K) ==
    /\ u.dirty_cas = w.dirty_cas \cup hit
    /\ \A c \in Clients : u.cwatched[c] = IF c \in hit THEN {} ELSE w.cwatched[c]
    /\ \A j \in Keys : u.dbwatched[j] = w.dbwatched[j] \ hit
    /\ \A j \in Keys : u.expired[j] = (IF j \in K THEN {} ELSE w.expired[j]) \ hit

(* touchWatchedKey() on a key that is gone: the clients that watched it
   expired are not told.                                                   *)
LEMMA TouchGone ==
  ASSUME NEW w, Good(w), NEW k \in Keys
  PROVE  Touched(w, touchWatchedKey(w, k, FALSE), w.dbwatched[k] \ w.expired[k], {k})
<1> DEFINE u == touchWatchedKey(w, k, FALSE)
           hit == touchedClients(w, k, FALSE)
<1>1. hit = w.dbwatched[k] \ w.expired[k]
  BY Zenon DEF touchedClients
<1>2. u.dirty_cas = w.dirty_cas \cup hit
  BY Zenon DEF touchWatchedKey, unwatchAllKeys, Tables
<1>3. \A c \in Clients : u.cwatched[c] = IF c \in hit THEN {} ELSE w.cwatched[c]
  BY Zenon DEF touchWatchedKey, unwatchAllKeys, Tables
<1>4. \A j \in Keys : u.dbwatched[j] = w.dbwatched[j] \ hit
  BY Zenon DEF touchWatchedKey, unwatchAllKeys, Tables
<1>5. \A j \in Keys : u.expired[j] = (IF j \in {k} THEN {} ELSE w.expired[j]) \ hit
  BY Zenon DEF touchWatchedKey, unwatchAllKeys, Tables, Good, WatchState
<1> HIDE DEF u, hit
<1>6. Touched(w, u, hit, {k})
  BY <1>2, <1>3, <1>4, <1>5, Zenon DEF Touched
<1> QED BY <1>1, <1>6, Zenon DEF u

(* touchWatchedKey() on a key that is there, when no client watched it
   expired: all are told.                                                  *)
LEMMA TouchPresent ==
  ASSUME NEW w, Good(w), NEW k \in Keys, w.expired[k] = {}
  PROVE  Touched(w, touchWatchedKey(w, k, TRUE), w.dbwatched[k], {})
<1> DEFINE u == touchWatchedKey(w, k, TRUE)
           hit == touchedClients(w, k, TRUE)
<1>1. hit = w.dbwatched[k]
  BY Zenon DEF touchedClients
<1>2. u.dirty_cas = w.dirty_cas \cup hit
  BY Zenon DEF touchWatchedKey, unwatchAllKeys, Tables
<1>3. \A c \in Clients : u.cwatched[c] = IF c \in hit THEN {} ELSE w.cwatched[c]
  BY Zenon DEF touchWatchedKey, unwatchAllKeys, Tables
<1>4. \A j \in Keys : u.dbwatched[j] = w.dbwatched[j] \ hit
  BY Zenon DEF touchWatchedKey, unwatchAllKeys, Tables
<1>5. \A j \in Keys : u.expired[j] = w.expired[j] \ hit
  BY Zenon DEF touchWatchedKey, unwatchAllKeys, Tables, Good, WatchState
<1> HIDE DEF u, hit
<1>6. Touched(w, u, hit, {})
  BY <1>2, <1>3, <1>4, <1>5, Zenon DEF Touched
<1> QED BY <1>1, <1>6, Zenon DEF u

-----------------------------------------------------------------------------
(* The guarantee of WATCH. *)

(* On a master, and without SWAPDB, wk->expired is set only while the key is
   an expired key that is still in the keyspace; CLIENT_DIRTY_CAS, the tables
   and the keys that isWatchedKeyExpired() looks at hold every change.     *)
ExpiredInv(w) == \A k \in Keys : w.expired[k] # {} => db[k] = "expired"
PromisedInv == \A c \in Clients \ watch.dirty_cas : promised[c] \subseteq watch.cwatched[c]
BrokenInv == \A c \in broken \ watch.dirty_cas :
                 \E k \in watch.cwatched[c] : db[k] = "expired" /\ c \notin watch.expired[k]
ExecInv == in_exec # None => in_exec \notin broken /\ promised[in_exec] = {}

WatchInv == ExpiredInv(watch) /\ PromisedInv /\ BrokenInv /\ ExecInv

(* The effect of setKey() on a master: every client that watches the key is
   told, because the expired key was deleted before.                       *)
LEMMA SetEffect ==
  ASSUME Good(watch), ExpiredInv(watch), ~Replica, NEW k \in Keys, NEW s, setKey(k, s)
  PROVE  Touched(watch, watch', watch.dbwatched[k], {k})
<1> DEFINE w1 == afterExpire(watch, k)
<1>0. watch' = touchWatchedKey(w1, k, TRUE)
  BY Zenon DEF setKey
<1>1. CASE db[k] = "expired"
  <2> DEFINE h == watch.dbwatched[k] \ watch.expired[k]
  <2>1. w1 = touchWatchedKey(watch, k, FALSE)
    BY <1>1, Zenon DEF afterExpire, expireIfNeeded, keyIsExpired
  <2>2. Good(w1)
    BY <2>1, TouchGood, Zenon
  <2> HIDE DEF w1
  <2>3. Touched(watch, w1, h, {k})
    BY <2>1, TouchGone, Zenon
  <2>4. w1.expired[k] = {}
    BY <2>3, Zenon DEF Touched
  <2>5. Touched(w1, watch', w1.dbwatched[k], {})
    BY <1>0, <2>2, <2>4, TouchPresent, Zenon
  <2>6. h \cup w1.dbwatched[k] = watch.dbwatched[k]
    BY <2>3, Zenon DEF Touched
  <2> HIDE DEF h
  <2> QED BY <2>3, <2>5, <2>6 DEF Touched
<1>2. CASE db[k] # "expired"
  <2>1. w1 = watch
    BY <1>2, Zenon DEF afterExpire, expireIfNeeded, keyIsExpired
  <2>2. watch.expired[k] = {}
    BY <1>2, Zenon DEF ExpiredInv
  <2>3. watch' = touchWatchedKey(watch, k, TRUE)
    BY <1>0, <2>1, Zenon
  <2> HIDE DEF w1
  <2>4. Touched(watch, watch', watch.dbwatched[k], {})
    BY <2>2, <2>3, TouchPresent, Zenon
  <2> QED BY <2>2, <2>4, Zenon DEF Touched
<1> QED BY <1>1, <1>2, Zenon

(* A key that is written or goes away keeps the invariant, if the clients that
   are told include those whose watch the change breaks.                   *)
LEMMA TouchedInv ==
  ASSUME Inv1, WatchInv, NEW k \in Keys, NEW s, s # "expired",
         db' = [db EXCEPT ![k] = s],
         NEW hit \in SUBSET Clients, Touched(watch, watch', hit, {k}),
         watch.dbwatched[k] \ watch.expired[k] \subseteq hit,
         \/ broken' = broken
         \/ Modified({k}) /\ watch.dbwatched[k] \subseteq hit,
         UNCHANGED <<promised, in_exec>>
  PROVE  WatchInv'
<1>0. /\ db \in [Keys -> KeyStates] /\ watch \in WatchState /\ broken \subseteq Clients
      /\ promised \in [Clients -> SUBSET Keys] /\ in_exec \in Clients \cup {None}
      /\ \A c \in Clients, j \in Keys : c \in watch.dbwatched[j] <=> j \in watch.cwatched[c]
      /\ \A c \in Clients : watch.cwatched[c] \subseteq Keys
  BY Zenon DEF Inv1, TypeOK, WatchTablesAgree, TablesAgree, WatchState
<1>1. ExpiredInv(watch)'
  <2> SUFFICES ASSUME NEW j \in Keys, watch'.expired[j] # {} PROVE db'[j] = "expired"
    BY Zenon DEF ExpiredInv
  <2>1. j # k /\ watch.expired[j] # {}
    BY Zenon DEF Touched
  <2> QED BY <1>0, <2>1, Zenon DEF WatchInv, ExpiredInv
<1>2. PromisedInv'
  BY <1>0, Zenon DEF WatchInv, PromisedInv, Touched
<1>3. BrokenInv'
  <2> SUFFICES ASSUME NEW c \in broken' \ watch'.dirty_cas
               PROVE  \E j \in watch'.cwatched[c] : db'[j] = "expired" /\ c \notin watch'.expired[j]
    BY Zenon DEF BrokenInv
  <2>1. c \in Clients /\ c \notin hit /\ c \notin watch.dirty_cas
    BY <1>0, Zenon DEF Touched, Modified
  <2>2. c \in broken
    <3> SUFFICES ASSUME c \notin broken PROVE FALSE
      BY Zenon
    <3>1. k \in promised[c] /\ watch.dbwatched[k] \subseteq hit
      BY <2>1 DEF Modified
    <3>2. k \in watch.cwatched[c]
      BY <2>1, <3>1, Zenon DEF WatchInv, PromisedInv
    <3> QED BY <1>0, <2>1, <3>1, <3>2, Zenon
  <2>3. PICK j \in watch.cwatched[c] : db[j] = "expired" /\ c \notin watch.expired[j]
    BY <2>1, <2>2, Zenon DEF WatchInv, BrokenInv
  <2>4. j \in Keys /\ c \in watch.dbwatched[j] /\ j # k
    BY <1>0, <2>1, <2>3, Zenon
  <2>5. j \in watch'.cwatched[c] /\ c \notin watch'.expired[j] /\ db'[j] = "expired"
    BY <1>0, <2>1, <2>3, <2>4 DEF Touched
  <2> QED BY <2>5, Zenon
<1>4. ExecInv'
  BY <1>0, Zenon DEF WatchInv, ExecInv, Modified
<1> QED BY <1>1, <1>2, <1>3, <1>4, Zenon DEF WatchInv

(* FLUSHDB tells every client whose watched key was alive or expired under
   its watch.                                                              *)
LEMMA FlushInv ==
  ASSUME Inv1, WatchInv, emptyData, UNCHANGED in_exec
  PROVE  WatchInv'
<1>0. /\ db \in [Keys -> KeyStates] /\ watch \in WatchState /\ broken \subseteq Clients
      /\ promised \in [Clients -> SUBSET Keys] /\ in_exec \in Clients \cup {None}
      /\ \A c \in Clients, j \in Keys : c \in watch.dbwatched[j] <=> j \in watch.cwatched[c]
      /\ \A c \in Clients : watch.cwatched[c] \subseteq Keys
  BY Zenon DEF Inv1, TypeOK, WatchTablesAgree, TablesAgree, WatchState
<1>1. /\ watch'.cwatched = watch.cwatched
      /\ \A j \in Keys : watch'.expired[j] = IF db[j] \in Present THEN {} ELSE watch.expired[j]
      /\ watch'.dirty_cas = watch.dirty_cas \cup
           {c \in Clients : \E j \in Keys : db[j] \in Present
                                        /\ c \in watch.dbwatched[j] \ watch.expired[j]}
  <2>1. \A j \in Keys : NoDb[j] = "absent" /\ NoDb[j] \notin Present
    BY Zenon DEF NoDb, Present
  <2>2. \A j \in Keys : /\ clearedExpired(watch, NoDb, j) = watch.expired[j]
                        /\ keptExpired(watch, NoDb, j) = {}
                        /\ setExpired(watch, db, NoDb, j) = {}
    BY <2>1, Zenon DEF clearedExpired, keptExpired, setExpired, keyIsExpired
  <2>3. watch' = touchAllWatchedKeysInDb(watch, db, NoDb)
    BY Zenon DEF emptyData
  <2>4. watch'.cwatched = watch.cwatched
    BY <2>3, Zenon DEF touchAllWatchedKeysInDb, Tables
  <2>5. \A j \in Keys : watch'.expired[j] = IF db[j] \in Present THEN {} ELSE watch.expired[j]
    BY <2>1, <2>2, <2>3, Zenon DEF touchAllWatchedKeysInDb, Tables
  <2>6. watch'.dirty_cas = watch.dirty_cas \cup
           {c \in Clients : \E j \in {i \in Keys : db[i] \in Present \/ NoDb[i] \in Present} :
              c \in watch.dbwatched[j] \ (clearedExpired(watch, NoDb, j)
                     \cup keptExpired(watch, NoDb, j) \cup setExpired(watch, db, NoDb, j))}
    BY <2>3, Zenon DEF touchAllWatchedKeysInDb, Tables
  <2>7. {c \in Clients : \E j \in {i \in Keys : db[i] \in Present \/ NoDb[i] \in Present} :
              c \in watch.dbwatched[j] \ (clearedExpired(watch, NoDb, j)
                     \cup keptExpired(watch, NoDb, j) \cup setExpired(watch, db, NoDb, j))}
        = {c \in Clients : \E j \in Keys : db[j] \in Present
                                        /\ c \in watch.dbwatched[j] \ watch.expired[j]}
    BY <2>1, <2>2, Zenon
  <2> QED BY <2>4, <2>5, <2>6, <2>7, Zenon
<1>2. ExpiredInv(watch)'
  BY <1>0, <1>1, Zenon DEF ExpiredInv, WatchInv, Present
<1>3. PromisedInv'
  BY <1>0, <1>1, Zenon DEF WatchInv, PromisedInv, emptyData
<1>4. BrokenInv'
  <2> SUFFICES ASSUME NEW c \in broken' \ watch'.dirty_cas PROVE FALSE
    BY Zenon DEF BrokenInv
  <2>1. /\ c \in Clients /\ c \notin watch.dirty_cas
        /\ \A j \in watch.cwatched[c] : db[j] \in Present => c \in watch.expired[j]
    BY <1>0, <1>1, Zenon DEF emptyData, Modified
  <2>2. CASE c \in broken
    <3>1. PICK j \in watch.cwatched[c] : db[j] = "expired" /\ c \notin watch.expired[j]
      BY <2>1, <2>2, Zenon DEF WatchInv, BrokenInv
    <3> QED BY <2>1, <3>1, Zenon DEF Present
  <2>3. CASE c \notin broken
    <3>1. PICK j \in promised[c] : j \in Keys /\ db[j] \in Alive
      BY <2>1, <2>3, Zenon DEF emptyData, Modified
    <3>2. j \in watch.cwatched[c]
      BY <2>1, <3>1, Zenon DEF WatchInv, PromisedInv
    <3>3. db[j] \in Present /\ watch.expired[j] = {}
      BY <3>1, Zenon DEF WatchInv, ExpiredInv, Alive, Present
    <3> QED BY <2>1, <3>2, <3>3, Zenon
  <2> QED BY <2>2, <2>3, Zenon
<1>5. ExecInv'
  BY <1>0, Zenon DEF WatchInv, ExecInv, emptyData, Modified
<1> QED BY <1>2, <1>3, <1>4, <1>5, Zenon DEF WatchInv

(* UNWATCH, DISCARD, RESET, an EXEC that fails, and the end of one that does
   not: the client starts again with nothing.                              *)
LEMMA UnwatchInv ==
  ASSUME Inv1, WatchInv, NEW c \in Clients,
         watch' = clearDirtyCas(unwatchAllKeys(watch, {c}), c),
         promised' = [promised EXCEPT ![c] = {}], broken' = broken \ {c},
         UNCHANGED db, in_exec' \in {in_exec, None}
  PROVE  WatchInv'
<1>0. /\ watch \in WatchState /\ broken \subseteq Clients
      /\ promised \in [Clients -> SUBSET Keys] /\ in_exec \in Clients \cup {None}
      /\ \A d \in Clients : watch.cwatched[d] \subseteq Keys
  BY Zenon DEF Inv1, TypeOK, WatchState
<1>1. /\ watch'.dirty_cas = watch.dirty_cas \ {c}
      /\ \A d \in Clients : watch'.cwatched[d] = IF d = c THEN {} ELSE watch.cwatched[d]
      /\ \A k \in Keys : watch'.expired[k] = watch.expired[k] \ {c}
  BY <1>0, Zenon DEF clearDirtyCas, unwatchAllKeys, Tables
<1>2. ExpiredInv(watch)'
  BY <1>1, Zenon DEF ExpiredInv, WatchInv
<1>3. PromisedInv'
  BY <1>0, <1>1, Zenon DEF WatchInv, PromisedInv
<1>4. BrokenInv'
  <2> SUFFICES ASSUME NEW d \in broken' \ watch'.dirty_cas
               PROVE  \E j \in watch'.cwatched[d] : db'[j] = "expired" /\ d \notin watch'.expired[j]
    BY Zenon DEF BrokenInv
  <2>1. d \in Clients /\ d # c /\ d \in broken \ watch.dirty_cas
    BY <1>0, <1>1, Zenon
  <2>2. PICK j \in watch.cwatched[d] : db[j] = "expired" /\ d \notin watch.expired[j]
    BY <2>1, Zenon DEF WatchInv, BrokenInv
  <2>3. j \in Keys
    BY <1>0, <2>1, <2>2, Zenon
  <2> QED BY <1>1, <2>1, <2>2, <2>3, Zenon
<1>5. ExecInv'
  BY <1>0, MultiAssumption, Zenon DEF WatchInv, ExecInv
<1> QED BY <1>2, <1>3, <1>4, <1>5, Zenon DEF WatchInv

(* Any command of a client, on a master without SWAPDB. *)
LEMMA CallInv ==
  ASSUME Inv1, WatchInv, ~Replica, "SWAPDB" \notin Ops, NEW c \in Clients,
         NEW cmd \in Commands, call(c, cmd), UNCHANGED in_exec
  PROVE  WatchInv'
<1>0. /\ Good(watch) /\ ExpiredInv(watch) /\ db \in [Keys -> KeyStates]
      /\ \A k \in Keys : watch.dbwatched[k] \subseteq Clients
      /\ \A k \in Keys : watch.dbwatched[k] \ watch.expired[k] \in SUBSET Clients
  BY Zenon DEF Inv1, TypeOK, WatchTablesAgree, Good, WatchInv, WatchState
<1>1. ASSUME NEW k \in Keys, NEW s \in {"plain", "volatile"}, setKey(k, s) PROVE WatchInv'
  <2>1. Touched(watch, watch', watch.dbwatched[k], {k})
    BY <1>0, <1>1, SetEffect, Zenon
  <2>2. db' = [db EXCEPT ![k] = s] /\ Modified({k}) /\ UNCHANGED promised
    BY <1>1, Zenon DEF setKey
  <2>3. s # "expired" /\ watch.dbwatched[k] \in SUBSET Clients
    BY <1>0, Zenon
  <2> QED BY <2>1, <2>2, <2>3, TouchedInv, Zenon
<1>2. ASSUME NEW k \in Keys, delGenericCommand(k) PROVE WatchInv'
  <2>1. CASE db[k] \in Present
    <3> DEFINE h == watch.dbwatched[k] \ watch.expired[k]
    <3>1. Touched(watch, watch', h, {k})
      BY <1>0, <1>2, <2>1, TouchGone, Zenon DEF delGenericCommand
    <3>2. db' = [db EXCEPT ![k] = "absent"] /\ UNCHANGED promised
      BY <1>2, Zenon DEF delGenericCommand
    <3>3. broken' = broken \/ (Modified({k}) /\ watch.dbwatched[k] \subseteq h)
      <4>1. CASE db[k] \in Alive
        <5>1. watch.expired[k] = {}
          BY <1>0, <4>1, Zenon DEF ExpiredInv, Alive
        <5> QED BY <1>2, <4>1, <5>1, Zenon DEF delGenericCommand
      <4>2. CASE db[k] \notin Alive
        BY <1>2, <4>2, Zenon DEF delGenericCommand, Modified
      <4> QED BY <4>1, <4>2, Zenon
    <3>4. h \in SUBSET Clients /\ watch.dbwatched[k] \ watch.expired[k] \subseteq h
      BY <1>0, Zenon
    <3> HIDE DEF h
    <3> QED BY <3>1, <3>2, <3>3, <3>4, TouchedInv, Zenon
  <2>2. CASE db[k] \notin Present
    <3>1. db[k] = "absent" /\ db' = db /\ UNCHANGED <<watch, promised>>
      BY <1>0, <1>2, <2>2, Zenon DEF delGenericCommand, KeyStates, Present
    <3>2. broken' = broken
      BY <1>2, <3>1, Zenon DEF delGenericCommand, Modified, Alive
    <3> QED BY <3>1, <3>2, Zenon DEF WatchInv, ExpiredInv, PromisedInv, BrokenInv, ExecInv
  <2> QED BY <2>1, <2>2, Zenon
<1>3. ASSUME NEW k \in Keys, lookupKeyRead(k) PROVE WatchInv'
  <2>1. CASE expireIfNeeded(k)
    <3> DEFINE h == watch.dbwatched[k] \ watch.expired[k]
    <3>1. Touched(watch, watch', h, {k})
      BY <1>0, <1>3, <2>1, TouchGone, Zenon DEF lookupKeyRead, afterExpire
    <3>2. db' = [db EXCEPT ![k] = "absent"] /\ UNCHANGED <<promised, broken>>
      BY <1>3, <2>1, Zenon DEF lookupKeyRead
    <3>3. h \in SUBSET Clients /\ watch.dbwatched[k] \ watch.expired[k] \subseteq h
      BY <1>0
    <3> HIDE DEF h
    <3> QED BY <3>1, <3>2, <3>3, TouchedInv, Zenon
  <2>2. CASE ~expireIfNeeded(k)
    BY <1>3, <2>2, Zenon DEF lookupKeyRead, afterExpire, WatchInv, ExpiredInv, PromisedInv,
       BrokenInv, ExecInv
  <2> QED BY <2>1, <2>2, Zenon
<1>4. CASE emptyData
  BY <1>4, FlushInv, Zenon
<1>5. CASE unwatchCommand(c)
  BY <1>5, UnwatchInv, Zenon DEF unwatchCommand
<1>6. /\ cmd.op \in {"SET", "SETEX", "DEL", "GET"} => cmd.key \in Keys
      /\ cmd.op # "SWAPDB"
  BY Zenon DEF Commands, Writes, Reads
<1> QED BY <1>1, <1>2, <1>3, <1>4, <1>5, <1>6, Zenon DEF call

(* Every step keeps the invariant, on a master without SWAPDB. *)
LEMMA NextWatchInv ==
  ASSUME Inv1, WatchInv, ~Replica, "SWAPDB" \notin Ops, [Next]_vars
  PROVE  WatchInv'
<1> USE MultiAssumption
<1>0. /\ db \in [Keys -> KeyStates] /\ watch \in WatchState /\ broken \subseteq Clients
      /\ promised \in [Clients -> SUBSET Keys] /\ in_exec \in Clients \cup {None}
      /\ \A c \in Clients, j \in Keys : c \in watch.dbwatched[j] <=> j \in watch.cwatched[c]
      /\ \A c \in Clients : watch.cwatched[c] \subseteq Keys
      /\ Good(watch)
  BY Zenon DEF Inv1, TypeOK, WatchTablesAgree, TablesAgree, WatchState, Good
<1>1. ASSUME UNCHANGED <<db, watch, promised, broken, in_exec>> PROVE WatchInv'
  BY <1>1, Zenon DEF WatchInv, ExpiredInv, PromisedInv, BrokenInv, ExecInv
<1>2. ASSUME NEW c \in Clients, discardTransaction(c), UNCHANGED db,
             in_exec' \in {in_exec, None} PROVE WatchInv'
  BY <1>2, UnwatchInv, Zenon DEF discardTransaction
<1>3. ASSUME NEW c \in Clients, NEW K \in (SUBSET Keys) \ {{}}, watchCommand(c, K)
      PROVE  WatchInv'
  <2>1. /\ watch'.cwatched = [watch.cwatched EXCEPT ![c] = @ \cup K]
        /\ watch'.dirty_cas = watch.dirty_cas
        /\ \A k \in Keys : watch'.expired[k] = watch.expired[k] \cup
             (IF k \in K \ watch.cwatched[c] /\ keyIsExpired(db, k) THEN {c} ELSE {})
    BY <1>3, Zenon DEF watchCommand, watchForKeys, Tables
  <2>2. UNCHANGED <<db, broken, in_exec>> /\ promised' = [promised EXCEPT ![c] = @ \cup K]
        /\ in_exec = None
    BY <1>3, Zenon DEF watchCommand, txvars
  <2>3. ExpiredInv(watch)'
    BY <2>1, <2>2, Zenon DEF WatchInv, ExpiredInv, keyIsExpired
  <2>4. PromisedInv'
    BY <1>0, <2>1, <2>2 DEF WatchInv, PromisedInv, WatchState
  <2>5. BrokenInv'
    <3> SUFFICES ASSUME NEW d \in broken' \ watch'.dirty_cas
                 PROVE  \E j \in watch'.cwatched[d] : db'[j] = "expired" /\ d \notin watch'.expired[j]
      BY Zenon DEF BrokenInv
    <3>1. PICK j \in watch.cwatched[d] : db[j] = "expired" /\ d \notin watch.expired[j]
      BY <2>1, <2>2, Zenon DEF WatchInv, BrokenInv
    <3>2. j \in Keys /\ d \in Clients
      BY <1>0, <2>2, <3>1, Zenon
    <3>3. j \in watch'.cwatched[d]
      BY <1>0, <2>1, <3>1, <3>2 DEF WatchState
    <3>4. d \notin watch'.expired[j]
      BY <2>1, <3>1, <3>2
    <3> QED BY <2>2, <3>1, <3>3, <3>4, Zenon
  <2>6. ExecInv'
    BY <2>2, Zenon DEF ExecInv
  <2> QED BY <2>3, <2>4, <2>5, <2>6, Zenon DEF WatchInv
<1>4. ASSUME NEW c \in Clients, ExecBegin(c) PROVE WatchInv'
  <2>1. /\ watch'.dirty_cas = watch.dirty_cas
        /\ \A d \in Clients : watch'.cwatched[d] = IF d = c THEN {} ELSE watch.cwatched[d]
        /\ \A k \in Keys : watch'.expired[k] = watch.expired[k] \ {c}
    BY <1>0, <1>4, Zenon DEF ExecBegin, unwatchAllKeys, Tables
  <2>2. /\ UNCHANGED <<db, broken>> /\ promised' = [promised EXCEPT ![c] = {}]
        /\ in_exec' = c
    BY <1>4, Zenon DEF ExecBegin
  <2>3. c \notin broken
    BY <1>4, Zenon DEF ExecBegin, ExecDirty, isWatchedKeyExpired, keyIsExpired, WatchInv, BrokenInv
  <2>4. ExpiredInv(watch)'
    BY <2>1, <2>2, Zenon DEF WatchInv, ExpiredInv
  <2>5. PromisedInv'
    BY <1>0, <2>1, <2>2, Zenon DEF WatchInv, PromisedInv
  <2>6. BrokenInv'
    <3> SUFFICES ASSUME NEW d \in broken' \ watch'.dirty_cas
                 PROVE  \E j \in watch'.cwatched[d] : db'[j] = "expired" /\ d \notin watch'.expired[j]
      BY Zenon DEF BrokenInv
    <3>1. PICK j \in watch.cwatched[d] : db[j] = "expired" /\ d \notin watch.expired[j]
      BY <2>1, <2>2, Zenon DEF WatchInv, BrokenInv
    <3>2. j \in Keys /\ d \in Clients /\ d # c
      BY <1>0, <2>2, <2>3, <3>1, Zenon
    <3> QED BY <2>1, <2>2, <3>1, <3>2, Zenon
  <2>7. ExecInv'
    BY <1>0, <2>2, <2>3, Zenon DEF ExecInv
  <2> QED BY <2>4, <2>5, <2>6, <2>7, Zenon DEF WatchInv
<1>5. ASSUME NEW k \in Keys, TimePasses(k) PROVE WatchInv'
  <2>1. CASE UNCHANGED <<db, broken>>
    BY <1>1, <1>5, <2>1, Zenon DEF TimePasses, txvars
  <2>2. CASE db[k] = "volatile" /\ db' = [db EXCEPT ![k] = "expired"] /\ Modified({k})
    <3>1. UNCHANGED <<watch, promised, in_exec>> /\ in_exec = None
      BY <1>5, Zenon DEF TimePasses, txvars
    <3>2. ExpiredInv(watch)' /\ PromisedInv' /\ ExecInv'
      BY <1>0, <2>2, <3>1, Zenon DEF WatchInv, ExpiredInv, PromisedInv, ExecInv
    <3>3. BrokenInv'
      <4> SUFFICES ASSUME NEW d \in broken' \ watch.dirty_cas
                   PROVE  \E j \in watch.cwatched[d] : db'[j] = "expired" /\ d \notin watch.expired[j]
        BY <3>1, Zenon DEF BrokenInv
      <4>1. CASE d \in broken
        <5>1. PICK j \in watch.cwatched[d] : db[j] = "expired" /\ d \notin watch.expired[j]
          BY <4>1, Zenon DEF WatchInv, BrokenInv
        <5> QED BY <1>0, <2>2, <4>1, <5>1, Zenon
      <4>2. CASE d \notin broken
        <5>1. d \in Clients /\ k \in promised[d]
          BY <2>2, <4>2, Zenon DEF Modified
        <5>2. k \in watch.cwatched[d] /\ watch.expired[k] = {}
          BY <2>2, <5>1, Zenon DEF WatchInv, PromisedInv, ExpiredInv
        <5> QED BY <1>0, <2>2, <5>2, Zenon
      <4> QED BY <4>1, <4>2, Zenon
    <3> QED BY <3>2, <3>3, Zenon DEF WatchInv
  <2> QED BY <1>5, <2>1, <2>2, Zenon DEF TimePasses
<1>6. ASSUME NEW k \in Keys, activeExpireCycle(k) PROVE WatchInv'
  <2> DEFINE h == watch.dbwatched[k] \ watch.expired[k]
  <2>1. Touched(watch, watch', h, {k})
    BY <1>0, <1>6, TouchGone, Zenon DEF activeExpireCycle, afterExpire
  <2>2. db' = [db EXCEPT ![k] = "absent"] /\ UNCHANGED <<promised, broken, in_exec>>
    BY <1>6, Zenon DEF activeExpireCycle, txvars
  <2>3. h \in SUBSET Clients /\ watch.dbwatched[k] \ watch.expired[k] \subseteq h
    BY <1>0, Zenon DEF WatchState
  <2> HIDE DEF h
  <2> QED BY <2>1, <2>2, <2>3, TouchedInv, Zenon
<1>7. ASSUME NEW c \in Clients, NEW cmd \in Commands, CallCommand(c, cmd) PROVE WatchInv'
  BY <1>7, CallInv, Zenon DEF CallCommand, txvars
<1>8. ASSUME NEW c \in Clients, ExecCommand(c) PROVE WatchInv'
  <2>1. commands[c][executing + 1] \in Commands
    BY <1>8 DEF ExecCommand, Inv1, TypeOK
  <2> QED BY <1>8, <2>1, CallInv, Zenon DEF ExecCommand
<1>9. ASSUME NEW c \in Clients,
             discardCommand(c) \/ ResetClient(c) \/ ExecRejected(c) \/ ExecAborted(c) \/ ExecEnd(c)
      PROVE  WatchInv'
  BY <1>2, <1>9, Zenon DEF discardCommand, ResetClient, ExecRejected, ExecAborted, ExecEnd
<1>10. ASSUME NEW c \in Clients, NEW cmd \in Commands, QueueCommand(c, cmd) PROVE WatchInv'
  BY <1>1, <1>10, Zenon DEF QueueCommand
<1>11. ASSUME NEW c \in Clients, multiCommand(c) \/ rejectCommand(c) PROVE WatchInv'
  BY <1>1, <1>11, Zenon DEF multiCommand, rejectCommand
<1>12. CASE GateChanges \/ UNCHANGED vars
  BY <1>1, <1>12, Zenon DEF GateChanges, vars, txvars
<1>13. \A cmd \in Writes : ~MasterCommand(cmd)
  BY Zenon DEF MasterCommand
<1> QED BY <1>3, <1>4, <1>5, <1>6, <1>7, <1>8, <1>9, <1>10, <1>11, <1>12, <1>13, Zenon DEF Next

(* The guarantee of WATCH: on a master where no client uses SWAPDB, whatever
   the clients do and whenever keys expire, EXEC (execCommand) runs only if
   none of the keys the client watched was modified since.                 *)
THEOREM WatchGuarantee ==
  ASSUME ~Replica, "SWAPDB" \notin Ops
  PROVE  Spec => []ExecSeesNoChange
<1>1. Init => WatchInv
  BY DEF Init, Tables, WatchInv, ExpiredInv, PromisedInv, BrokenInv, ExecInv
<1>2. Inv1 /\ WatchInv /\ [Next]_vars => WatchInv'
  BY NextWatchInv, Zenon
<1>3. WatchInv => ExecSeesNoChange
  BY Zenon DEF WatchInv, ExecInv, ExecSeesNoChange
<1>4. Spec => []Inv1
  BY WatchTables, PTL DEF Inv1
<1> QED BY <1>1, <1>2, <1>3, <1>4, PTL DEF Spec

-----------------------------------------------------------------------------
(* The queue of MULTI. *)

(* The queue holds what the client sent, unless the transaction is to fail,
   and mstate.cmd_flags remembers a queued write.                          *)
QueueInv ==
    /\ \A c \in Clients \ multi : commands[c] = <<>> /\ sent[c] = <<>>
    /\ \A c \in Clients \ (watch.dirty_cas \cup dirty_exec) : commands[c] = sent[c]
    /\ in_exec # None => in_exec \in multi /\ commands[in_exec] = sent[in_exec]
    /\ \A c \in Clients : \A i \in 1..Len(commands[c]) :
          commands[c][i] \in Writes => c \in cmd_write
    /\ in_exec # None /\ deny => in_exec \notin cmd_write

(* No command clears CLIENT_DIRTY_CAS but UNWATCH, for its own client. *)
LEMMA CallKeepsDirty ==
  ASSUME NEW c, NEW cmd, call(c, cmd)
  PROVE  watch.dirty_cas \ {c} \subseteq watch'.dirty_cas
<1>1. ASSUME NEW w, NEW k, NEW p
      PROVE  w.dirty_cas \subseteq touchWatchedKey(w, k, p).dirty_cas
  BY Zenon DEF touchWatchedKey, unwatchAllKeys, Tables
<1>2. ASSUME NEW k PROVE watch.dirty_cas \subseteq afterExpire(watch, k).dirty_cas
  BY <1>1, Zenon DEF afterExpire
<1>3. ASSUME NEW k, NEW s, setKey(k, s) PROVE watch.dirty_cas \subseteq watch'.dirty_cas
  <2>1. watch' = touchWatchedKey(afterExpire(watch, k), k, TRUE)
    BY <1>3, Zenon DEF setKey
  <2>2. afterExpire(watch, k).dirty_cas \subseteq watch'.dirty_cas
    BY <1>1, <2>1, Zenon
  <2> QED BY <1>2, <2>2, Zenon
<1>4. ASSUME NEW k, delGenericCommand(k) PROVE watch.dirty_cas \subseteq watch'.dirty_cas
  BY <1>1, <1>4, Zenon DEF delGenericCommand
<1>5. ASSUME NEW k, lookupKeyRead(k) PROVE watch.dirty_cas \subseteq watch'.dirty_cas
  BY <1>2, <1>5, Zenon DEF lookupKeyRead
<1>6. ASSUME emptyData \/ dbSwapDatabases PROVE watch.dirty_cas \subseteq watch'.dirty_cas
  <2>1. ASSUME NEW w, NEW d, NEW r
        PROVE  w.dirty_cas \subseteq touchAllWatchedKeysInDb(w, d, r).dirty_cas
    BY Zenon DEF touchAllWatchedKeysInDb, Tables
  <2>2. PICK r : watch' = touchAllWatchedKeysInDb(watch, db, r)
    BY <1>6, Zenon DEF emptyData, dbSwapDatabases
  <2> QED BY <2>1, <2>2, Zenon
<1>7. ASSUME unwatchCommand(c) PROVE watch.dirty_cas \ {c} \subseteq watch'.dirty_cas
  BY <1>7, Zenon DEF unwatchCommand, clearDirtyCas, unwatchAllKeys, Tables
<1> QED BY <1>3, <1>4, <1>5, <1>6, <1>7, Zenon DEF call

(* Every step keeps the invariant of the queue. *)
LEMMA NextQueueInv ==
  ASSUME Inv1, QueueInv, [Next]_vars
  PROVE  QueueInv'
<1> USE MultiAssumption
<1>0. /\ commands \in [Clients -> Seq(Commands)]
      /\ sent \in [Clients -> Seq(Commands \cup {Rejected})]
      /\ in_exec \in Clients \cup {None} /\ multi \subseteq Clients
      /\ watch.dirty_cas \subseteq Clients
  BY Zenon DEF Inv1, TypeOK, WatchState
<1>1. ASSUME NEW c, watch.dirty_cas \ {c} \subseteq watch'.dirty_cas,
             c \in Clients => c \notin multi \/ c = in_exec,
             UNCHANGED <<multi, dirty_exec, commands, cmd_write, in_exec, deny, sent>>
      PROVE  QueueInv'
  <2>1. \A d \in Clients \ (watch'.dirty_cas \cup dirty_exec) : commands[d] = sent[d]
    <3> TAKE d \in Clients \ (watch'.dirty_cas \cup dirty_exec)
    <3>1. CASE d = c
      BY <1>0, <1>1, <3>1, Zenon DEF QueueInv
    <3>2. CASE d # c
      BY <1>1, <3>2, Zenon DEF QueueInv
    <3> QED BY <3>1, <3>2, Zenon
  <2> QED BY <1>1, <2>1, Zenon DEF QueueInv
<1>2. ASSUME NEW c \in Clients, discardTransaction(c), in_exec' = None, UNCHANGED deny
      PROVE  QueueInv'
  <2>1. watch.dirty_cas \ {c} \subseteq watch'.dirty_cas
    BY <1>2, Zenon DEF discardTransaction, clearDirtyCas, unwatchAllKeys, Tables
  <2>2. /\ commands' = [commands EXCEPT ![c] = <<>>] /\ sent' = [sent EXCEPT ![c] = <<>>]
        /\ cmd_write' = cmd_write \ {c} /\ multi' = multi \ {c}
        /\ dirty_exec' = dirty_exec \ {c}
    BY <1>2, Zenon DEF discardTransaction
  <2>3. \A d \in Clients \ multi' : commands'[d] = <<>> /\ sent'[d] = <<>>
    BY <1>0, <2>2, Zenon DEF QueueInv
  <2>4. \A d \in Clients \ (watch'.dirty_cas \cup dirty_exec') : commands'[d] = sent'[d]
    BY <1>0, <2>1, <2>2, Zenon DEF QueueInv
  <2>5. ASSUME NEW d \in Clients, NEW i \in 1..Len(commands'[d]), commands'[d][i] \in Writes
        PROVE  d \in cmd_write'
    <3>1. d # c
      BY <1>0, <2>2
    <3> QED BY <1>0, <2>2, <2>5, <3>1, Zenon DEF QueueInv
  <2> QED BY <1>2, <2>3, <2>4, <2>5, Zenon DEF QueueInv
<1>3. ASSUME NEW c \in Clients, NEW cmd \in Commands, QueueCommand(c, cmd) PROVE QueueInv'
  <2>0. /\ in_exec = None /\ c \in multi /\ sent' = [sent EXCEPT ![c] = Append(@, cmd)]
        /\ UNCHANGED <<watch, multi, dirty_exec, in_exec, deny>>
    BY <1>3, Zenon DEF QueueCommand
  <2>1. CASE c \in watch.dirty_cas \cup dirty_exec
    <3>1. UNCHANGED <<commands, cmd_write>>
      BY <1>3, <2>1, Zenon DEF QueueCommand, queueMultiCommand
    <3> QED BY <1>0, <2>0, <2>1, <3>1, Zenon DEF QueueInv
  <2>2. CASE c \notin watch.dirty_cas \cup dirty_exec
    <3>1. /\ commands' = [commands EXCEPT ![c] = Append(@, cmd)]
          /\ cmd_write' = IF cmd \in Writes THEN cmd_write \cup {c} ELSE cmd_write
      BY <1>3, <2>2, Zenon DEF QueueCommand, queueMultiCommand
    <3>2. \A d \in Clients \ (watch.dirty_cas \cup dirty_exec) : commands'[d] = sent'[d]
      BY <1>0, <2>0, <3>1, Zenon DEF QueueInv
    <3>3. ASSUME NEW d \in Clients, NEW i \in 1..Len(commands'[d]), commands'[d][i] \in Writes
          PROVE  d \in cmd_write'
      <4>1. CASE d # c
        BY <1>0, <3>1, <3>3, <4>1, Zenon DEF QueueInv
      <4>2. CASE d = c
        <5> DEFINE q == commands[c]
        <5>1. q \in Seq(Commands) /\ commands'[d] = Append(q, cmd)
          BY <1>0, <3>1, <4>2, Zenon
        <5>2. i \in 1..(Len(q) + 1) /\ Len(q) \in Nat
          BY <3>3, <5>1
        <5>3. CASE i = Len(q) + 1
          BY <3>1, <3>3, <4>2, <5>1, <5>3
        <5>4. CASE i \in 1..Len(q)
          <6>1. q[i] \in Writes
            BY <3>3, <5>1, <5>4
          <6>2. c \in cmd_write
            BY <5>4, <6>1, Zenon DEF QueueInv
          <6> QED BY <3>1, <4>2, <6>2, Zenon
        <5> QED BY <5>2, <5>3, <5>4
      <4> QED BY <4>1, <4>2, Zenon
    <3>4. \A d \in Clients \ multi : commands'[d] = <<>> /\ sent'[d] = <<>>
      BY <1>0, <2>0, <3>1, Zenon DEF QueueInv
    <3> QED BY <2>0, <3>2, <3>3, <3>4, Zenon DEF QueueInv
  <2> QED BY <2>1, <2>2, Zenon
<1>4. ASSUME NEW c \in Clients, rejectCommand(c) PROVE QueueInv'
  BY <1>0, <1>4, Zenon DEF rejectCommand, QueueInv
<1>5. ASSUME NEW c \in Clients, multiCommand(c) PROVE QueueInv'
  BY <1>0, <1>5, Zenon DEF multiCommand, QueueInv
<1>6. ASSUME NEW c \in Clients, ExecBegin(c) PROVE QueueInv'
  <2>1. watch'.dirty_cas = watch.dirty_cas
    BY <1>6, Zenon DEF ExecBegin, unwatchAllKeys, Tables
  <2>2. c \notin watch.dirty_cas \cup dirty_exec
    BY <1>6, Zenon DEF ExecBegin, ExecDirty
  <2> QED BY <1>6, <2>1, <2>2, Zenon DEF ExecBegin, ExecRefused, QueueInv
<1>7. ASSUME NEW c \in Clients, NEW cmd \in Commands, CallCommand(c, cmd) PROVE QueueInv'
  BY <1>1, <1>7, CallKeepsDirty, Zenon DEF CallCommand, txvars
<1>8. ASSUME NEW c \in Clients, ExecCommand(c) PROVE QueueInv'
  <2>1. call(c, commands[c][executing + 1]) /\ c = in_exec
    BY <1>8, Zenon DEF ExecCommand
  <2>2. watch.dirty_cas \ {c} \subseteq watch'.dirty_cas
    BY <2>1, CallKeepsDirty, Zenon
  <2> QED BY <1>1, <1>8, <2>1, <2>2, Zenon DEF ExecCommand
<1>9. ASSUME NEW cmd \in Writes, MasterCommand(cmd) PROVE QueueInv'
  BY <1>1, <1>9, CallKeepsDirty, Zenon DEF MasterCommand, txvars
<1>10. ASSUME NEW c \in Clients,
             discardCommand(c) \/ ResetClient(c) \/ ExecRejected(c) \/ ExecAborted(c) \/ ExecEnd(c)
      PROVE  QueueInv'
  BY <1>2, <1>10, Zenon DEF discardCommand, ResetClient, ExecRejected, ExecAborted, ExecEnd
<1>11. ASSUME NEW c \in Clients, NEW K \in (SUBSET Keys) \ {{}}, watchCommand(c, K)
       PROVE  QueueInv'
  <2>1. watch'.dirty_cas = watch.dirty_cas
    BY <1>11, Zenon DEF watchCommand, watchForKeys, Tables
  <2> QED BY <1>11, <2>1, Zenon DEF watchCommand, txvars, QueueInv
<1>12. ASSUME NEW k \in Keys, TimePasses(k) PROVE QueueInv'
  BY <1>12, Zenon DEF TimePasses, txvars, QueueInv
<1>13. ASSUME NEW k \in Keys, activeExpireCycle(k) PROVE QueueInv'
  <2>1. watch.dirty_cas \subseteq watch'.dirty_cas
    BY <1>13, Zenon DEF activeExpireCycle, afterExpire, touchWatchedKey, unwatchAllKeys, Tables
  <2> QED BY <1>1, <1>13, <2>1, Zenon DEF activeExpireCycle, txvars
<1>14. CASE GateChanges
  BY <1>14, Zenon DEF GateChanges, txvars, QueueInv
<1>15. CASE UNCHANGED vars
  BY <1>15, Zenon DEF vars, QueueInv
<1> QED BY <1>3, <1>4, <1>5, <1>6, <1>7, <1>8, <1>9, <1>10, <1>11, <1>12, <1>13, <1>14, <1>15, Zenon
       DEF Next

(* The queues of the clients and what they sent agree in every state. *)
LEMMA QueueInvariant == Spec => [](Inv1 /\ QueueInv)
<1>1. Init => QueueInv
  BY MultiAssumption DEF Init, QueueInv, Tables
<1>2. Inv1 /\ QueueInv /\ [Next]_vars => QueueInv'
  BY NextQueueInv, Zenon
<1>3. Spec => []Inv1
  BY WatchTables, PTL DEF Inv1
<1> QED BY <1>1, <1>2, <1>3, PTL DEF Spec

(* A transaction that runs has all the commands the client sent, none refused
   and none dropped (queueMultiCommand); on masters and replicas.          *)
THEOREM QueueGuarantee == Spec => []ExecRunsWhatWasSent
<1>1. Inv1 /\ QueueInv => ExecRunsWhatWasSent
  BY Zenon DEF Inv1, TypeOK, QueueInv, ExecRunsWhatWasSent
<1> QED BY <1>1, QueueInvariant, PTL

(* No transaction that runs holds a write that the gate refuses, also when the
   gate closed after the write was queued (processCommand, execCommand).   *)
THEOREM DeniedWritesDoNotRun == Spec => []NoDeniedWriteInExec
<1>1. Inv1 /\ QueueInv => NoDeniedWriteInExec
  BY Zenon DEF Inv1, TypeOK, QueueInv, NoDeniedWriteInExec
<1> QED BY <1>1, QueueInvariant, PTL

-----------------------------------------------------------------------------
(* EXEC fails for a reason. *)

(* Who is marked dirty, and who would be when an expired key goes away, has
   seen a key change; and clients watch only what they asked for.          *)
ReasonInv ==
    /\ watch.dirty_cas \subseteq broken
    /\ \A c \in Clients : watch.cwatched[c] \subseteq promised[c]
    /\ \A k \in Keys : db[k] = "expired" => watch.dbwatched[k] \ watch.expired[k] \subseteq broken

(* Telling watchers of a key about a change keeps the invariant. *)
LEMMA TouchedReason ==
  ASSUME Inv1, ReasonInv, NEW k \in Keys, NEW hit \in SUBSET Clients,
         NEW K \in SUBSET {k}, NEW s, s # "expired",
         Touched(watch, watch', hit, K), db' = [db EXCEPT ![k] = s],
         hit \subseteq broken', broken \subseteq broken', UNCHANGED promised
  PROVE  ReasonInv'
<1>0. /\ db \in [Keys -> KeyStates] /\ watch \in WatchState
  BY Zenon DEF Inv1, TypeOK
<1>1. watch'.dirty_cas \subseteq broken'
  BY Zenon DEF ReasonInv, Touched
<1>2. \A c \in Clients : watch'.cwatched[c] \subseteq promised'[c]
  BY Zenon DEF ReasonInv, Touched
<1>3. ASSUME NEW j \in Keys, db'[j] = "expired"
      PROVE  watch'.dbwatched[j] \ watch'.expired[j] \subseteq broken'
  <2>1. j # k /\ db[j] = "expired"
    BY <1>0, <1>3, Zenon
  <2>2. watch'.dbwatched[j] \ watch'.expired[j] \subseteq watch.dbwatched[j] \ watch.expired[j]
    BY <2>1 DEF Touched
  <2> QED BY <2>1, <2>2, Zenon DEF ReasonInv
<1> QED BY <1>1, <1>2, <1>3, Zenon DEF ReasonInv

(* The clients touchWatchedKey() tells watch the key, whatever the key. *)
LEMMA TouchAny ==
  ASSUME NEW w, Good(w), NEW k \in Keys
  PROVE  /\ touchedClients(w, k, TRUE) \subseteq w.dbwatched[k]
         /\ Touched(w, touchWatchedKey(w, k, TRUE), touchedClients(w, k, TRUE), {})
<1> DEFINE u == touchWatchedKey(w, k, TRUE)
           hit == touchedClients(w, k, TRUE)
<1>1. hit \subseteq w.dbwatched[k]
  BY Zenon DEF touchedClients
<1>2. u.dirty_cas = w.dirty_cas \cup hit
  BY Zenon DEF touchWatchedKey, unwatchAllKeys, Tables
<1>3. \A c \in Clients : u.cwatched[c] = IF c \in hit THEN {} ELSE w.cwatched[c]
  BY Zenon DEF touchWatchedKey, unwatchAllKeys, Tables
<1>4. \A j \in Keys : u.dbwatched[j] = w.dbwatched[j] \ hit
  BY Zenon DEF touchWatchedKey, unwatchAllKeys, Tables
<1>5. \A j \in Keys : u.expired[j] = w.expired[j] \ hit
  BY Zenon DEF touchWatchedKey, unwatchAllKeys, Tables, Good, WatchState
<1> HIDE DEF u, hit
<1>6. Touched(w, u, hit, {})
  BY <1>2, <1>3, <1>4, <1>5, Zenon DEF Touched
<1> QED BY <1>1, <1>6, Zenon DEF u, hit

(* Every client that watches a key is broken by its modification. *)
LEMMA WatchersBroken ==
  ASSUME Inv1, ReasonInv, NEW K \in SUBSET Keys, Modified(K)
  PROVE  broken \subseteq broken' /\ \A k \in K : watch.dbwatched[k] \subseteq broken'
<1>1. \A k \in Keys : watch.dbwatched[k] \subseteq Clients
  BY Zenon DEF Inv1, TypeOK, WatchState
<1>2. \A c \in Clients, k \in Keys : c \in watch.dbwatched[k] => k \in promised[c]
  BY Zenon DEF Inv1, WatchTablesAgree, TablesAgree, ReasonInv
<1> QED BY <1>1, <1>2, Zenon DEF Modified

(* touchAllWatchedKeysInDb(), for FLUSHDB and SWAPDB. *)
LEMMA AllReason ==
  ASSUME Inv1, ReasonInv, NEW d \in [Keys -> KeyStates], db' = d,
         watch' = touchAllWatchedKeysInDb(watch, db, d),
         Modified({k \in Keys : db[k] \in Alive \/ d[k] \in Alive}), UNCHANGED promised
  PROVE  ReasonInv'
<1>0. /\ db \in [Keys -> KeyStates] /\ watch \in WatchState
  BY Zenon DEF Inv1, TypeOK
<1>1. /\ broken \subseteq broken'
      /\ \A k \in Keys : db[k] \in Alive \/ d[k] \in Alive => watch.dbwatched[k] \subseteq broken'
  <2> DEFINE K == {k \in Keys : db[k] \in Alive \/ d[k] \in Alive}
  <2>1. K \in SUBSET Keys /\ Modified(K)
    BY Zenon
  <2> HIDE DEF K
  <2>2. broken \subseteq broken' /\ \A k \in K : watch.dbwatched[k] \subseteq broken'
    BY <2>1, WatchersBroken, Zenon
  <2> QED BY <2>2, Zenon DEF K
<1> DEFINE A == {k \in Keys : db[k] \in Present \/ d[k] \in Present}
           hit(k) == watch.dbwatched[k] \ (clearedExpired(watch, d, k)
                         \cup keptExpired(watch, d, k) \cup setExpired(watch, db, d, k))
<1>2. /\ watch'.cwatched = watch.cwatched /\ watch'.dbwatched = watch.dbwatched
      /\ \A k \in Keys : watch'.expired[k] = IF k \in A
            THEN (watch.expired[k] \ clearedExpired(watch, d, k)) \cup setExpired(watch, db, d, k)
            ELSE watch.expired[k]
      /\ watch'.dirty_cas = watch.dirty_cas \cup {c \in Clients : \E k \in A : c \in hit(k)}
  BY Zenon DEF touchAllWatchedKeysInDb, Tables
<1>3. ASSUME NEW k \in A PROVE hit(k) \subseteq broken'
  <2>1. CASE db[k] \in Alive \/ d[k] \in Alive
    BY <1>1, <2>1, Zenon
  <2>2. CASE db[k] \notin Alive /\ d[k] \notin Alive
    <3>1. db[k] \in {"absent", "expired"} /\ d[k] \in {"absent", "expired"}
      BY <1>0, <2>2, Zenon DEF Alive, KeyStates
    <3>2. CASE db[k] = "expired"
      <4>1. hit(k) \subseteq watch.dbwatched[k] \ watch.expired[k]
        BY <3>1, Zenon DEF clearedExpired, keptExpired, keyIsExpired, Present
      <4> QED BY <1>1, <3>2, <4>1, Zenon DEF ReasonInv
    <3>3. CASE db[k] = "absent"
      BY <3>1, <3>3, Zenon DEF clearedExpired, keptExpired, setExpired, keyIsExpired, Present
    <3> QED BY <3>1, <3>2, <3>3, Zenon
  <2> QED BY <2>1, <2>2, Zenon
<1>4. watch'.dirty_cas \subseteq broken'
  BY <1>1, <1>2, <1>3, Zenon DEF ReasonInv
<1>5. ASSUME NEW k \in Keys, db'[k] = "expired"
      PROVE  watch'.dbwatched[k] \ watch'.expired[k] \subseteq broken'
  <2>1. k \in A /\ clearedExpired(watch, d, k) = {} /\ keptExpired(watch, d, k) = watch.expired[k]
    BY <1>5, Zenon DEF Present, clearedExpired, keptExpired, keyIsExpired
  <2>2. hit(k) \subseteq broken'
    BY <1>3, <2>1, Zenon
  <2>3. /\ watch'.dbwatched[k] = watch.dbwatched[k]
        /\ watch'.expired[k] = (watch.expired[k] \ clearedExpired(watch, d, k))
                                   \cup setExpired(watch, db, d, k)
    BY <1>2, <2>1, Zenon
  <2>4. hit(k) = watch'.dbwatched[k] \ watch'.expired[k]
    BY <2>1, <2>3, Zenon
  <2> HIDE DEF hit
  <2> QED BY <2>2, <2>4, Zenon
<1> QED BY <1>2, <1>4, <1>5, Zenon DEF ReasonInv

(* Any command, of a client or of the replication stream. *)
LEMMA CallReason ==
  ASSUME Inv1, ReasonInv, NEW c \in Clients \cup {None}, NEW cmd \in Commands,
         c = None => cmd \in Writes, call(c, cmd)
  PROVE  ReasonInv'
<1>0. /\ Good(watch) /\ db \in [Keys -> KeyStates] /\ other \in [Keys -> KeyStates]
      /\ promised \in [Clients -> SUBSET Keys]
      /\ \A k \in Keys : watch.dbwatched[k] \subseteq Clients
  BY Zenon DEF Inv1, TypeOK, WatchTablesAgree, Good, WatchState
<1>1. ASSUME NEW k \in Keys, NEW s \in {"plain", "volatile"}, setKey(k, s) PROVE ReasonInv'
  <2>0. /\ db' = [db EXCEPT ![k] = s] /\ s # "expired" /\ UNCHANGED promised
        /\ broken \subseteq broken' /\ watch.dbwatched[k] \subseteq broken'
    BY <1>1, WatchersBroken, Zenon DEF setKey
  <2> DEFINE w1 == afterExpire(watch, k)
             h2 == touchedClients(w1, k, TRUE)
  <2>1. watch' = touchWatchedKey(w1, k, TRUE)
    BY <1>1, Zenon DEF setKey
  <2>2. Good(w1)
    BY <1>0, TouchGood, Zenon DEF afterExpire
  <2> HIDE DEF w1
  <2>3. h2 \subseteq w1.dbwatched[k] /\ Touched(w1, watch', h2, {})
    BY <2>1, <2>2, TouchAny, Zenon
  <2> HIDE DEF h2
  <2>4. CASE expireIfNeeded(k)
    <3> DEFINE h1 == watch.dbwatched[k] \ watch.expired[k]
    <3>1. Touched(watch, w1, h1, {k})
      BY <1>0, <2>4, TouchGone, Zenon DEF w1, afterExpire
    <3> DEFINE h == h1 \cup h2
    <3>2. h \subseteq watch.dbwatched[k]
      BY <2>3, <3>1, Zenon DEF Touched
    <3> HIDE DEF h1
    <3>3. Touched(watch, watch', h, {k})
      BY <2>3, <3>1, Zenon DEF Touched
    <3>4. h \in SUBSET Clients /\ h \subseteq broken' /\ {k} \in SUBSET {k}
      BY <1>0, <2>0, <3>2, Zenon
    <3> HIDE DEF h
    <3> QED BY <2>0, <3>3, <3>4, TouchedReason, Zenon
  <2>5. CASE ~expireIfNeeded(k)
    <3>1. w1 = watch
      BY <2>5, Zenon DEF w1, afterExpire
    <3>2. h2 \in SUBSET Clients /\ h2 \subseteq broken' /\ {} \in SUBSET {k}
      BY <1>0, <2>0, <2>3, <3>1, Zenon
    <3>3. Touched(watch, watch', h2, {})
      BY <2>3, <3>1, Zenon
    <3> QED BY <2>0, <3>2, <3>3, TouchedReason, Zenon
  <2> QED BY <2>4, <2>5, Zenon
<1>g. ASSUME NEW k \in Keys, watch' = touchWatchedKey(watch, k, FALSE),
             db' = [db EXCEPT ![k] = "absent"], UNCHANGED promised,
             broken \subseteq broken', watch.dbwatched[k] \ watch.expired[k] \subseteq broken'
      PROVE  ReasonInv'
  <2> DEFINE h == watch.dbwatched[k] \ watch.expired[k]
  <2>1. Touched(watch, watch', h, {k})
    BY <1>0, <1>g, TouchGone, Zenon
  <2>2. h \in SUBSET Clients /\ h \subseteq broken' /\ {k} \in SUBSET {k}
    BY <1>0, <1>g, Zenon
  <2> HIDE DEF h
  <2> QED BY <1>g, <2>1, <2>2, TouchedReason, Zenon
<1>u. ASSUME UNCHANGED <<watch, promised, broken>>, db' = db PROVE ReasonInv'
  BY <1>u, Zenon DEF ReasonInv
<1>2. ASSUME NEW k \in Keys, delGenericCommand(k) PROVE ReasonInv'
  <2>0. db' = [db EXCEPT ![k] = "absent"] /\ UNCHANGED promised
    BY <1>2, Zenon DEF delGenericCommand
  <2>1. CASE db[k] \in Alive
    <3>1. Modified({k}) /\ watch' = touchWatchedKey(watch, k, FALSE)
      BY <1>2, <2>1, Zenon DEF delGenericCommand, Alive, Present
    <3>2. broken \subseteq broken' /\ watch.dbwatched[k] \subseteq broken'
      BY <3>1, WatchersBroken, Zenon
    <3> QED BY <1>g, <2>0, <3>1, <3>2, Zenon
  <2>2. CASE db[k] = "expired"
    <3>1. watch' = touchWatchedKey(watch, k, FALSE) /\ broken' = broken
      BY <1>2, <2>2, Zenon DEF delGenericCommand, Modified, Alive, Present
    <3>2. watch.dbwatched[k] \ watch.expired[k] \subseteq broken'
      BY <2>2, <3>1, Zenon DEF ReasonInv
    <3> QED BY <1>g, <2>0, <3>1, <3>2, Zenon
  <2>3. CASE db[k] = "absent"
    <3>1. UNCHANGED watch /\ broken' = broken /\ db' = db
      BY <1>0, <1>2, <2>3, Zenon DEF delGenericCommand, Modified, Alive, Present
    <3> QED BY <1>u, <2>0, <3>1, Zenon
  <2> QED BY <1>0, <2>1, <2>2, <2>3, Zenon DEF KeyStates, Alive
<1>3. ASSUME NEW k \in Keys, lookupKeyRead(k) PROVE ReasonInv'
  <2>1. CASE expireIfNeeded(k)
    <3>1. /\ db[k] = "expired" /\ db' = [db EXCEPT ![k] = "absent"]
          /\ watch' = touchWatchedKey(watch, k, FALSE) /\ UNCHANGED <<promised, broken>>
      BY <1>3, <2>1, Zenon DEF lookupKeyRead, afterExpire, expireIfNeeded, keyIsExpired
    <3>2. watch.dbwatched[k] \ watch.expired[k] \subseteq broken'
      BY <3>1, Zenon DEF ReasonInv
    <3> QED BY <1>g, <3>1, <3>2, Zenon
  <2>2. CASE ~expireIfNeeded(k)
    BY <1>u, <1>3, <2>2, Zenon DEF lookupKeyRead, afterExpire
  <2> QED BY <2>1, <2>2, Zenon
<1>4. CASE emptyData
  <2>1. NoDb \in [Keys -> KeyStates] /\ \A k \in Keys : NoDb[k] \notin Alive
    BY Zenon DEF NoDb, KeyStates, Alive
  <2>2. {k \in Keys : db[k] \in Alive} = {k \in Keys : db[k] \in Alive \/ NoDb[k] \in Alive}
    BY <2>1, Zenon
  <2> QED BY <1>4, <2>1, <2>2, AllReason, Zenon DEF emptyData
<1>5. CASE dbSwapDatabases
  BY <1>0, <1>5, AllReason, Zenon DEF dbSwapDatabases
<1>6. CASE c \in Clients /\ unwatchCommand(c)
  BY <1>0, <1>6, Zenon DEF unwatchCommand, clearDirtyCas, unwatchAllKeys, Tables, ReasonInv
<1>7. cmd.op \in {"SET", "SETEX", "DEL", "GET"} => cmd.key \in Keys
  BY Zenon DEF Commands, Writes, Reads
<1>8. cmd.op = "UNWATCH" => c \in Clients
  BY Zenon DEF Writes
<1> QED BY <1>1, <1>2, <1>3, <1>4, <1>5, <1>6, <1>7, <1>8, Zenon DEF call

(* CLIENT_DIRTY_CAS is set only on a client one of whose watched keys was
   modified, by touchWatchedKey() and touchAllWatchedKeysInDb(), on masters
   and replicas, with SWAPDB: EXEC never fails for nothing.                *)
THEOREM DirtyForAReason == Spec => []NoSpuriousDirtyCas
<1> USE MultiAssumption
<1>1. Init => ReasonInv
  BY DEF Init, Tables, ReasonInv
<1>2. Inv1 /\ ReasonInv /\ [Next]_vars => ReasonInv'
  <2> SUFFICES ASSUME Inv1, ReasonInv, [Next]_vars PROVE ReasonInv'
    BY Zenon
  <2>0. /\ promised \in [Clients -> SUBSET Keys] /\ broken \subseteq Clients
        /\ Good(watch) /\ db \in [Keys -> KeyStates]
    BY Zenon DEF Inv1, TypeOK, WatchTablesAgree, Good
  <2>1. ASSUME UNCHANGED <<db, watch, promised, broken>> PROVE ReasonInv'
    BY <2>1, Zenon DEF ReasonInv
  <2>2. ASSUME NEW c \in Clients, discardTransaction(c), UNCHANGED db PROVE ReasonInv'
    <3>1. /\ watch'.dirty_cas = watch.dirty_cas \ {c}
          /\ watch'.cwatched = [d \in Clients |-> IF d = c THEN {} ELSE watch.cwatched[d]]
          /\ watch'.dbwatched = [k \in Keys |-> watch.dbwatched[k] \ {c}]
          /\ watch'.expired = [k \in Keys |-> watch.expired[k] \ {c}]
      BY <2>2, Zenon DEF discardTransaction, clearDirtyCas, unwatchAllKeys, Tables
    <3>2. promised' = [promised EXCEPT ![c] = {}] /\ broken' = broken \ {c}
      BY <2>2, Zenon DEF discardTransaction
    <3> QED BY <2>0, <2>2, <3>1, <3>2 DEF ReasonInv
  <2>3. ASSUME NEW c \in Clients, NEW K \in (SUBSET Keys) \ {{}}, watchCommand(c, K)
        PROVE  ReasonInv'
    <3>1. /\ watch'.dirty_cas = watch.dirty_cas
          /\ watch'.cwatched = [watch.cwatched EXCEPT ![c] = @ \cup K]
          /\ \A k \in Keys :
                watch'.dbwatched[k] = watch.dbwatched[k] \cup
                                      (IF k \in K \ watch.cwatched[c] THEN {c} ELSE {})
          /\ \A k \in Keys :
                watch'.expired[k] = watch.expired[k] \cup
                     (IF k \in K \ watch.cwatched[c] /\ db[k] = "expired" THEN {c} ELSE {})
      BY <2>3, Zenon DEF watchCommand, watchForKeys, Tables, keyIsExpired
    <3>2. promised' = [promised EXCEPT ![c] = @ \cup K] /\ UNCHANGED <<db, broken>>
      BY <2>3, Zenon DEF watchCommand
    <3>3. watch.cwatched \in [Clients -> SUBSET Keys]
      BY <2>0, Zenon DEF Good, WatchState
    <3>4. \A d \in Clients : watch'.cwatched[d] \subseteq promised'[d]
      BY <2>0, <3>1, <3>2, <3>3 DEF ReasonInv
    <3>5. \A k \in Keys : db[k] = "expired" =>
              watch'.dbwatched[k] \ watch'.expired[k] \subseteq watch.dbwatched[k] \ watch.expired[k]
      BY <3>1, Zenon
    <3> QED BY <3>1, <3>2, <3>4, <3>5, Zenon DEF ReasonInv
  <2>4. ASSUME NEW c \in Clients, NEW cmd \in Commands, CallCommand(c, cmd) PROVE ReasonInv'
    BY <2>4, CallReason, Zenon DEF CallCommand
  <2>5. ASSUME NEW c \in Clients, ExecBegin(c) PROVE ReasonInv'
    BY <2>0, <2>5, Zenon DEF ExecBegin, unwatchAllKeys, Tables, ReasonInv
  <2>6. ASSUME NEW c \in Clients, ExecCommand(c) PROVE ReasonInv'
    <3>1. commands[c][executing + 1] \in Commands
      BY <2>6 DEF ExecCommand, Inv1, TypeOK
    <3> QED BY <2>6, <3>1, CallReason, Zenon DEF ExecCommand
  <2>7. ASSUME NEW cmd \in Writes, MasterCommand(cmd) PROVE ReasonInv'
    <3>1. cmd \in Commands
      BY Zenon DEF Commands
    <3> QED BY <2>7, <3>1, CallReason, Zenon DEF MasterCommand
  <2>8. ASSUME NEW k \in Keys, TimePasses(k) PROVE ReasonInv'
    <3>1. CASE UNCHANGED <<db, broken>>
      BY <2>1, <2>8, <3>1, Zenon DEF TimePasses
    <3>2. CASE db' = [db EXCEPT ![k] = "expired"] /\ Modified({k})
      <4>1. broken \subseteq broken' /\ watch.dbwatched[k] \subseteq broken'
        BY <3>2, WatchersBroken, Zenon
      <4> QED BY <2>0, <2>8, <3>2, <4>1, Zenon DEF TimePasses, ReasonInv
    <3> QED BY <2>8, <3>1, <3>2, Zenon DEF TimePasses
  <2>9. ASSUME NEW k \in Keys, activeExpireCycle(k) PROVE ReasonInv'
    <3> DEFINE h == watch.dbwatched[k] \ watch.expired[k]
    <3>1. /\ db[k] = "expired" /\ db' = [db EXCEPT ![k] = "absent"]
          /\ watch' = touchWatchedKey(watch, k, FALSE) /\ UNCHANGED <<promised, broken>>
      BY <2>9, Zenon DEF activeExpireCycle, afterExpire, expireIfNeeded, keyIsExpired
    <3>2. h \subseteq broken' /\ h \in SUBSET Clients /\ {k} \in SUBSET {k}
      BY <2>0, <3>1, Zenon DEF ReasonInv
    <3>3. Touched(watch, watch', h, {k})
      BY <2>0, <3>1, TouchGone, Zenon
    <3> HIDE DEF h
    <3> QED BY <3>1, <3>2, <3>3, TouchedReason, Zenon
  <2>10. ASSUME NEW c \in Clients,
                discardCommand(c) \/ ResetClient(c) \/ ExecRejected(c) \/ ExecAborted(c) \/ ExecEnd(c)
         PROVE  ReasonInv'
    BY <2>2, <2>10, Zenon DEF discardCommand, ResetClient, ExecRejected, ExecAborted, ExecEnd
  <2>11. ASSUME NEW c \in Clients, NEW cmd \in Commands, QueueCommand(c, cmd) PROVE ReasonInv'
    BY <2>1, <2>11, Zenon DEF QueueCommand
  <2>12. ASSUME NEW c \in Clients, multiCommand(c) \/ rejectCommand(c) PROVE ReasonInv'
    BY <2>1, <2>12, Zenon DEF multiCommand, rejectCommand
  <2>13. CASE GateChanges \/ UNCHANGED vars
    BY <2>1, <2>13, Zenon DEF GateChanges, vars
  <2> QED BY <2>3, <2>4, <2>5, <2>6, <2>7, <2>8, <2>9, <2>10, <2>11, <2>12, <2>13, Zenon DEF Next
<1>3. ReasonInv => NoSpuriousDirtyCas
  BY Zenon DEF ReasonInv, NoSpuriousDirtyCas
<1>4. Spec => []Inv1
  BY WatchTables, PTL DEF Inv1
<1> QED BY <1>1, <1>2, <1>3, <1>4, PTL DEF Spec
=============================================================================
