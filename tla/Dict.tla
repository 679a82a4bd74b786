-------------------------------- MODULE Dict --------------------------------
(***************************************************************************)
(* The hash table of dict.c: two tables while it is rehashed incrementally *)
(* and a stateless scan whose cursor counts with its bits reversed.        *)
(*                                                                         *)
(* A table is a function from bucket numbers to sets of keys (the order in *)
(* a chain does not matter); ht_used is the number of keys in it. A dict   *)
(* is a record of its two tables and rehashidx. The operators take the     *)
(* environment e of a call: e.can_resize is dict_can_resize, e.over_memory *)
(* the answer of overMaxmemoryAfterAlloc.                                  *)
(*                                                                         *)
(* The sizes of dict.h are constants: InitialExp is DICT_HT_INITIAL_EXP,   *)
(* MinFill HASHTABLE_MIN_FILL, ForceRatio dict_force_resize_ratio,         *)
(* EmptyVisits the 10 of dictRehash, Width the bits of an unsigned long.   *)
(***************************************************************************)
EXTENDS Integers, FiniteSets, FiniteSetsExt

CONSTANTS Keys, Hash, Width, InitialExp, MinFill, ForceRatio, EmptyVisits

ASSUME DictAssumption ==
    /\ Width \in Nat \ {0} /\ InitialExp \in 0..Width
    /\ Hash \in [Keys -> 0 .. 2^Width - 1]
    /\ {MinFill, ForceRatio, EmptyVisits} \subseteq Nat \ {0}

NullTable == <<>>

EmptyTable(n) == [b \in 0 .. n - 1 |-> {}]

\* DICTHT_SIZE, and the number of a hash's bucket: 0 when there is no table.
Size(t) == Cardinality(DOMAIN t)
Mask(h, t) == IF Size(t) = 0 THEN 0 ELSE h % Size(t)
Used(t) == Cardinality(UNION {t[b] : b \in DOMAIN t})

NewDict == [ht |-> [i \in 0..1 |-> NullTable], rehashidx |-> -1]

OneTable(t) == [NewDict EXCEPT !.ht[0] = t]

dictIsRehashing(d) == d.rehashidx # -1
dictSize(d) == Used(d.ht[0]) + Used(d.ht[1])

-----------------------------------------------------------------------------
(* Resizing. *)

NextSize(n) == Min({s \in {2^x : x \in InitialExp .. Width} : s >= n})

\* The size does not change, the table is replaced at once because it is
\* missing or empty, or rehashing starts.
dictResize(d, size) ==
    LET new == EmptyTable(NextSize(size)) IN
    CASE Size(new) = Size(d.ht[0]) -> d
      [] Size(new) # Size(d.ht[0]) /\ Used(d.ht[0]) = 0 -> OneTable(new)
      [] OTHER -> [d EXCEPT !.ht[1] = new, !.rehashidx = 0]

dictExpand(d, size) ==
    IF dictIsRehashing(d) \/ Used(d.ht[0]) > size \/ Size(d.ht[0]) >= size THEN d
    ELSE dictResize(d, size)

dictShrink(d, size) ==
    IF dictIsRehashing(d) \/ Used(d.ht[0]) > size \/ Size(d.ht[0]) <= size THEN d
    ELSE dictResize(d, size)

\* dictResizeAllowed: a table more than 1.618 times full may always grow.
dictTypeResizeAllowed(e, d) ==
    ~e.over_memory \/ 1000 * Used(d.ht[0]) > 1618 * Size(d.ht[0])

dictExpandIfNeeded(e, d) ==
    LET t     == d.ht[0]
        ratio == IF e.can_resize = "ENABLE" THEN 1 ELSE ForceRatio
    IN  CASE dictIsRehashing(d) -> d
          [] ~dictIsRehashing(d) /\ Size(t) = 0 -> dictExpand(d, 2^InitialExp)
          [] ~dictIsRehashing(d) /\ Size(t) > 0 ->
               IF /\ e.can_resize # "FORBID" /\ Used(t) >= ratio * Size(t)
                  /\ dictTypeResizeAllowed(e, d)
               THEN dictExpand(d, Used(t) + 1) ELSE d

Sparse(e, t) ==
    /\ e.can_resize # "FORBID"
    /\ Used(t) * MinFill * (IF e.can_resize = "ENABLE" THEN 1 ELSE ForceRatio) <= Size(t)

\* The cases in which dictShrinkIfNeeded answers DICT_OK.
ShrinkSettled(e, d) ==
    dictIsRehashing(d) \/ Size(d.ht[0]) <= 2^InitialExp \/ Sparse(e, d.ht[0])

dictShrinkIfNeeded(e, d) ==
    IF /\ ~dictIsRehashing(d) /\ Size(d.ht[0]) > 2^InitialExp
       /\ Sparse(e, d.ht[0]) /\ dictTypeResizeAllowed(e, d)
    THEN dictShrink(d, Used(d.ht[0])) ELSE d

-----------------------------------------------------------------------------
(* Rehashing. *)

\* All keys of a bucket move; when the table shrinks their new bucket is
\* computed from the old one.
rehashEntriesInBucketAtIndex(d, i) ==
    LET new      == d.ht[1]
        index(k) == IF Size(new) > Size(d.ht[0]) THEN Mask(Hash[k], new) ELSE Mask(i, new)
    IN  [d EXCEPT !.ht[0][i] = {},
                  !.ht[1] = [b \in DOMAIN new |-> new[b] \cup {k \in d.ht[0][i] : index(k) = b}]]

dictCheckRehashingCompleted(d) == IF Used(d.ht[0]) # 0 THEN d ELSE OneTable(d.ht[1])

\* What makes dictRehash and _dictBucketRehash return at once.
RehashForbidden(e, d) ==
    LET s0 == Size(d.ht[0]) s1 == Size(d.ht[1]) IN
    \/ ~dictIsRehashing(d) \/ e.can_resize = "FORBID"
    \/ /\ e.can_resize = "AVOID"
       /\ \/ s1 > s0 /\ s1 < ForceRatio * s0
          \/ s1 < s0 /\ s0 < MinFill * ForceRatio * s1

\* n buckets from rehashidx on, giving up after n * EmptyVisits empty ones.
\* x is the state of the loop: the dict, the visits left; the table has no
\* more than Size buckets to move.
dictRehash(e, d, n) ==
    LET Filled(x) == {b \in DOMAIN x.d.ht[0] : b >= x.d.rehashidx /\ x.d.ht[0][b] # {}}
        Bucket(x) ==
            LET first   == Min(Filled(x))
                skipped == first - x.d.rehashidx
            IN  IF skipped >= x.visits
                THEN [d |-> [x.d EXCEPT !.rehashidx = @ + x.visits], visits |-> 0]
                ELSE [d |-> [rehashEntriesInBucketAtIndex(x.d, first)
                               EXCEPT !.rehashidx = first + 1],
                      visits |-> x.visits - skipped]
        loop[i \in 0..n] ==
            IF i = 0 THEN [d |-> d, visits |-> n * EmptyVisits]
            ELSE LET x == loop[i - 1] IN
                 IF x.visits = 0 \/ Used(x.d.ht[0]) = 0 THEN x ELSE Bucket(x)
        r == loop[Min({n, Size(d.ht[0])})]
    IN  CASE RehashForbidden(e, d) -> d
          [] ~RehashForbidden(e, d) /\ r.visits = 0 -> r.d
          [] OTHER -> dictCheckRehashingCompleted(r.d)

\* The server's cron: dictRehash(d, 100) until nothing is left to move.
dictRehashMicroseconds(e, d) == dictRehash(e, d, 100)

dictBucketRehash(e, d, i) ==
    IF RehashForbidden(e, d) THEN d
    ELSE dictCheckRehashingCompleted(rehashEntriesInBucketAtIndex(d, i))

\* A lookup moves the bucket it visits, or else the next one.
dictRehashStepIfNeeded(e, d, k) ==
    LET i == Mask(Hash[k], d.ht[0]) IN
    CASE ~dictIsRehashing(d) -> d
      [] dictIsRehashing(d) /\ i >= d.rehashidx /\ d.ht[0][i] # {} -> dictBucketRehash(e, d, i)
      [] OTHER -> dictRehash(e, d, 1)

-----------------------------------------------------------------------------
(* Lookups and updates. *)

\* Mutant: table 0 is also skipped at rehashidx itself.
FoundIn_skipsIndex(d, k) ==
    {t \in 0..1 : /\ t = 0 => Mask(Hash[k], d.ht[0]) > d.rehashidx
                  /\ t = 1 => dictIsRehashing(d)
                  /\ d.ht[t] # NullTable
                  /\ k \in d.ht[t][Mask(Hash[k], d.ht[t])]}

\* The tables in which a lookup finds k: a bucket of table 0 below rehashidx
\* is not searched, table 1 only while rehashing.
FoundIn(d, k) ==
    {t \in 0..1 : /\ t = 0 => Mask(Hash[k], d.ht[0]) >= d.rehashidx
                  /\ t = 1 => dictIsRehashing(d)
                  /\ d.ht[t] # NullTable
                  /\ k \in d.ht[t][Mask(Hash[k], d.ht[t])]}

Found(d, k) == FoundIn(d, k) # {}

dictFindLink(e, d, k) ==
    IF dictSize(d) = 0 THEN d ELSE dictRehashStepIfNeeded(e, d, k)

\* While rehashing a key is inserted in the new table.
dictInsertKeyAtLink(d, k) ==
    LET t == IF dictIsRehashing(d) THEN 1 ELSE 0
    IN  [d EXCEPT !.ht[t][Mask(Hash[k], d.ht[t])] = @ \cup {k}]

\* A lookup followed, for a new key, by dictSetKeyAtLink, which looks again
\* (with another rehash step) if the tables changed or there was no bucket.
dictSetKeyAtLink(e, d, k) ==
    LET found    == dictFindLink(e, d, k)
        expanded == dictExpandIfNeeded(e, found)
        sizes(x) == [t \in 0..1 |-> Size(x.ht[t])]
    IN  IF Found(found, k) THEN found
        ELSE dictInsertKeyAtLink(
                IF dictSize(d) = 0 \/ sizes(expanded) # sizes(found)
                THEN dictRehashStepIfNeeded(e, expanded, k) ELSE expanded, k)

dictAddRaw(e, d, k) ==
    LET expanded == dictExpandIfNeeded(e, dictRehashStepIfNeeded(e, d, k))
    IN  IF Found(expanded, k) THEN expanded ELSE dictInsertKeyAtLink(expanded, k)

\* Unlink k where the lookup found it, and shrink.
Unlink(e, d, k) ==
    LET t == Min(FoundIn(d, k))
    IN  IF ~Found(d, k) THEN d
        ELSE dictShrinkIfNeeded(e, [d EXCEPT !.ht[t][Mask(Hash[k], d.ht[t])] = @ \ {k}])

\* paused: inside a scan's callback no rehash step is made.
dictGenericDelete(e, d, k, paused) ==
    IF dictSize(d) = 0 THEN d
    ELSE Unlink(e, IF paused THEN d ELSE dictRehashStepIfNeeded(e, d, k), k)

dictTwoPhaseUnlink(e, d, k) ==
    IF dictSize(d) = 0 THEN d
    ELSE Unlink(e, IF dictIsRehashing(d) THEN dictRehash(e, d, 1) ELSE d, k)

-----------------------------------------------------------------------------
(* Scanning. *)

\* The bits of a number in the opposite order.
Reversed ==
    [v \in 0 .. 2^Width - 1 |->
        MapThenSumSet(LAMBDA i : ((v \div 2^i) % 2) * 2^(Width - 1 - i), 0 .. Width - 1)]

rev(v) == Reversed[v]

\* v |= ~mask; v = rev(v); v++; v = rev(v), for the mask of a table of this size.
NextCursor(v, size) == rev((rev((v % size) + 2^Width - size) + 1) % 2^Width)

\* Mutant: the tables are not swapped when the dict shrinks.
SmallerTable_first(d) == 0

SmallerTable(d) == IF Size(d.ht[0]) > Size(d.ht[1]) THEN 1 ELSE 0

\* The keys given to the callback and the next cursor. While rehashing, the
\* bucket of the smaller table and all its expansions in the larger one: w are
\* the cursors of the do loop, which ends when the bits of the mask
\* difference are 0.
dictScan(d, v) ==
    LET s     == SmallerTable(d)
        small == d.ht[s]
        large == d.ht[1 - s]
        w[i \in 0 .. Size(large)] == IF i = 0 THEN v ELSE NextCursor(w[i - 1], Size(large))
        last == Min({i \in 1 .. Size(large) : (w[i] % Size(large)) \div Size(small) = 0})
    IN  CASE dictSize(d) = 0 -> [cursor |-> 0, keys |-> {}]
          [] dictSize(d) # 0 /\ ~dictIsRehashing(d) ->
               [cursor |-> NextCursor(v, Size(d.ht[0])), keys |-> d.ht[0][Mask(v, d.ht[0])]]
          [] OTHER ->
               [cursor |-> w[last],
                keys   |-> small[Mask(v, small)]
                             \cup UNION {large[Mask(w[i], large)] : i \in 0 .. last - 1}]
=============================================================================
