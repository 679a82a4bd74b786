---------------------------- MODULE KvstoreScan -----------------------------
(***************************************************************************)
(* A kvstore (kvstore.c): an array of dicts, one per slot, created on      *)
(* demand and freed when empty, with commands that look up, add and delete *)
(* keys, the cron that resizes and rehashes, a child process that makes    *)
(* resizing undesirable, and one scan (SCAN, or the active expire cycle,   *)
(* whose callback deletes) that is interleaved with all of them.           *)
(*                                                                         *)
(* dicts[i] is a dict of module Dict, or NoDict; cursor is what the last   *)
(* kvstoreScan returned, 0 before and after a scan; child and over_memory  *)
(* are hasActiveChildProcess and overMaxmemoryAfterAlloc. Two history      *)
(* variables: live, the keys that were set and not deleted since, and      *)
(* owed, the keys that have been there since the scan began and were not   *)
(* returned yet.                                                           *)
(***************************************************************************)
EXTENDS Dict

CONSTANTS Slot, NumDictsBits, NoDict

ASSUME KvstoreAssumption ==
    /\ NumDictsBits \in 0 .. Width
    /\ Slot \in [Keys -> 0 .. 2^NumDictsBits - 1]

VARIABLES dicts, cursor, child, over_memory, live, owed

vars == <<dicts, cursor, child, over_memory, live, owed>>

NumDicts == 2^NumDictsBits
Indexes == 0 .. NumDicts - 1

\* updateDictResizePolicy.
Env == [can_resize |-> IF child THEN "AVOID" ELSE "ENABLE", over_memory |-> over_memory]

kvstoreDictSize(kvs, i) == IF kvs[i] = NoDict THEN 0 ELSE dictSize(kvs[i])

createDictIfNeeded(i) == IF dicts[i] = NoDict THEN NewDict ELSE dicts[i]

\* canFree: the kvstore frees empty dicts, and canFreeDict (kvstoreCanFreeDict)
\* has no statistics of the slot to keep. Any answer at any time: statistics
\* come with every command, and go with CONFIG RESETSTAT or with the slot.
freeDictIfNeeded(d, canFree) == IF dictSize(d) = 0 /\ canFree THEN NoDict ELSE d

Init ==
    /\ dicts = [i \in Indexes |-> NoDict]
    /\ cursor = 0
    /\ child = FALSE /\ over_memory = FALSE
    /\ live = {} /\ owed = {}

-----------------------------------------------------------------------------
(* Commands. *)

\* A lookup (kvstoreDictFind): it may rehash a bucket.
Find(k) ==
    LET i == Slot[k] IN
    /\ dicts[i] # NoDict
    /\ dicts' = [dicts EXCEPT ![i] = dictFindLink(Env, @, k)]
    /\ UNCHANGED <<cursor, child, over_memory, live, owed>>

\* dbAdd, or setKey over an existing key.
Set(k) ==
    LET i == Slot[k] IN
    /\ dicts' = [dicts EXCEPT ![i] = dictSetKeyAtLink(Env, createDictIfNeeded(i), k)]
    /\ live' = live \cup {k}
    /\ UNCHANGED <<cursor, child, over_memory, owed>>

\* kvstoreDictAddRaw, as for the keys with a TTL.
AddRaw(k) ==
    LET i == Slot[k] IN
    /\ dicts' = [dicts EXCEPT ![i] = dictAddRaw(Env, createDictIfNeeded(i), k)]
    /\ live' = live \cup {k}
    /\ UNCHANGED <<cursor, child, over_memory, owed>>

\* k, if it is found, leaves its dict, which becomes d.
Removed(k, d) ==
    /\ \E canFree \in BOOLEAN :
        dicts' = [dicts EXCEPT ![Slot[k]] =
                    IF Found(@, k) THEN freeDictIfNeeded(d, canFree) ELSE d]
    /\ live' = live \ {k} /\ owed' = owed \ {k}
    /\ UNCHANGED <<cursor, child, over_memory>>

\* dbGenericDelete of a key of the main dictionary.
TwoPhaseUnlink(k) ==
    /\ dicts[Slot[k]] # NoDict
    /\ Removed(k, dictTwoPhaseUnlink(Env, dicts[Slot[k]], k))

\* kvstoreDictDelete, as for the keys with a TTL.
Delete(k) ==
    /\ dicts[Slot[k]] # NoDict
    /\ Removed(k, dictGenericDelete(Env, dicts[Slot[k]], k, FALSE))

\* FLUSHDB.
kvstoreEmpty ==
    /\ \E free \in SUBSET Indexes :
        dicts' = [i \in Indexes |->
                    IF dicts[i] = NoDict THEN NoDict ELSE freeDictIfNeeded(NewDict, i \in free)]
    /\ live' = {} /\ owed' = {}
    /\ UNCHANGED <<cursor, child, over_memory>>

\* The statistics of a slot are reset (clusterSlotStatReset).
kvstoreFreeDictIfNeeded(i) ==
    /\ dicts[i] # NoDict
    /\ dicts' = [dicts EXCEPT ![i] = freeDictIfNeeded(@, TRUE)]
    /\ UNCHANGED <<cursor, child, over_memory, live, owed>>

-----------------------------------------------------------------------------
(* The cron, a child process, memory. *)

\* databasesCron, without a child process, first tries to resize all dicts...
kvstoreTryResizeDicts ==
    /\ ~child
    /\ dicts' = [i \in Indexes |->
            CASE dicts[i] = NoDict -> NoDict
              [] dicts[i] # NoDict /\ ShrinkSettled(Env, dicts[i]) -> dictShrinkIfNeeded(Env, dicts[i])
              [] OTHER -> dictExpandIfNeeded(Env, dicts[i])]
    /\ UNCHANGED <<cursor, child, over_memory, live, owed>>

\* ... and then rehashes dicts while there is time, one here.
kvstoreIncrementallyRehash(i) ==
    /\ ~child
    /\ dicts[i] # NoDict /\ dictIsRehashing(dicts[i])
    /\ dicts' = [dicts EXCEPT ![i] = dictRehashMicroseconds(Env, @)]
    /\ UNCHANGED <<cursor, child, over_memory, live, owed>>

\* A child process is forked or exits (updateDictResizePolicy).
ForkOrExit ==
    /\ child' = ~child
    /\ UNCHANGED <<dicts, cursor, over_memory, live, owed>>

\* The server reaches maxmemory, or leaves it.
MemoryChanges ==
    /\ over_memory' = ~over_memory
    /\ UNCHANGED <<dicts, cursor, child, live, owed>>

-----------------------------------------------------------------------------
(* The scan. *)

\* The two halves of a cursor: the index of a dict in the low bits.
addDictIndexToCursor(i, v) == (v * NumDicts + i) % 2^Width
DictIndex(c) == c % NumDicts
DictCursor(c) == c \div NumDicts

\* Mutant: the dict i itself counts as the next one.
NextNonEmptyDictIndex_same(kvs, i) == {j \in Indexes : j >= i /\ kvstoreDictSize(kvs, j) > 0}

\* fwTreeFindNextNonEmpty: the non-empty dicts after i.
NextNonEmptyDictIndex(kvs, i) == {j \in Indexes : j > i /\ kvstoreDictSize(kvs, j) > 0}

\* The callback deletes the keys of del (expireScanCallback), one after the
\* other, while rehashing is paused: a deletion may start to shrink the table,
\* and the dict is freed, if it is empty, only after the scan.
Expire(d, del) ==
    FoldSet(LAMBDA k, x : dictGenericDelete(Env, x, k, TRUE), d, del)

\* One call of kvstoreScan without onlydidx: the keys it returns, the kvstore
\* and the cursor after it.
kvstoreScan(del, canFree) ==
    LET i    == DictIndex(cursor)
        d    == dicts[i]
        r    == IF d = NoDict THEN [cursor |-> 0, keys |-> {}] ELSE dictScan(d, DictCursor(cursor))
        kvs  == IF d = NoDict THEN dicts
                ELSE [dicts EXCEPT ![i] = freeDictIfNeeded(Expire(d, del), canFree)]
        next == NextNonEmptyDictIndex(kvs, i)
    IN  [keys   |-> r.keys,
         dicts  |-> kvs,
         cursor |-> CASE r.cursor # 0               -> addDictIndexToCursor(i, r.cursor)
                      [] r.cursor = 0 /\ next # {} -> addDictIndexToCursor(Min(next), 0)
                      [] OTHER                      -> 0]

\* A step of a scan whose callback deletes the keys of del.
Scan(del, canFree) ==
    LET r == kvstoreScan(del, canFree) IN
    /\ dicts' = r.dicts
    /\ cursor' = r.cursor
    /\ live' = live \ del
    /\ owed' = (IF cursor = 0 THEN live ELSE owed) \ r.keys
    /\ UNCHANGED <<child, over_memory>>

Next ==
    \/ \E k \in Keys : \/ Find(k) \/ Set(k) \/ AddRaw(k)
                       \/ TwoPhaseUnlink(k) \/ Delete(k)
    \/ kvstoreEmpty
    \/ kvstoreTryResizeDicts
    \/ \E i \in Indexes : kvstoreIncrementallyRehash(i) \/ kvstoreFreeDictIfNeeded(i)
    \/ ForkOrExit \/ MemoryChanges
    \/ \E canFree \in BOOLEAN :
        \E del \in SUBSET kvstoreScan({}, canFree).keys : Scan(del, canFree)

Spec == Init /\ [][Next]_vars

-----------------------------------------------------------------------------
(* Properties. *)

\* No key is lost, hidden or doubled by rehashing, resizing and deleting at
\* any moment (_dictResize, dictRehash, dictInsertKeyAtLink): a lookup finds a
\* key exactly when it was set and not deleted since, and it is in one bucket
\* of one table.
KeysAreFound ==
    \A k \in Keys :
        LET d == dicts[Slot[k]] IN
        IF k \notin live THEN d = NoDict \/ ~Found(d, k)
        ELSE /\ d # NoDict /\ Found(d, k)
             /\ Cardinality({p \in {0, 1} \X (0 .. 2^Width - 1) :
                    p[2] \in DOMAIN d.ht[p[1]] /\ k \in d.ht[p[1]][p[2]]}) = 1

\* "The function guarantees all elements present in the dictionary get
\* returned between the start and end of the iteration" (dictScan): when the
\* cursor is 0 again, every key that was there from the first call to the last
\* has been returned, whatever was resized, rehashed, freed and created.
ScanMissesNothing == cursor = 0 => owed = {}

\* The order in which a scan visits dicts and, with their bits reversed,
\* buckets.
Position(c) == DictIndex(c) * 2^Width + rev(DictCursor(c))

\* A scan ends (dictScan: "When the returned cursor is 0, the iteration is
\* complete"): whatever happened to the tables since the last call, the next
\* one ends the scan or moves the cursor forward; it never stays or goes back.
ScanAdvances ==
    LET c == kvstoreScan({}, TRUE).cursor IN c = 0 \/ Position(c) > Position(cursor)
=============================================================================
