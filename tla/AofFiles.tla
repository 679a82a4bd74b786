----------------------------- MODULE AofFiles -----------------------------
(***************************************************************************)
(* The append only file: the base file, the incremental (INCR) files and   *)
(* the manifest that names them (src/aof.c), the background thread that    *)
(* syncs them (src/bio.c), background rewrites, and a disk that survives   *)
(* the server: every handler is the sequence of directory and file         *)
(* operations it performs, a crash stops it between any two of them, and a *)
(* power loss also takes what no fsync has covered.                        *)
(*                                                                         *)
(* Every write has a number and is two bytes long in a file, 2w-1 and 2w,  *)
(* so that a short write or a power loss can cut it.  master_repl_offset   *)
(* is the number of writes in the data set.  Elapsed times are choices.    *)
(***************************************************************************)
EXTENDS Integers, Sequences, FiniteSets, SequencesExt, TLC

CONSTANTS
    Policies,   \* the values of appendfsync in use
    Faults,     \* the calls that may fail, a subset of AllFaults
    Races,      \* what the environment lets happen, a subset of AllRaces
    MaxWrites,  \* bound: writes executed
    MaxEvents,  \* bound: background rewrites and CONFIG SETs
    MaxCrashes  \* bound: exits, crashes and power losses

AllFaults == {"write", "fsync", "manifest", "dirsync", "rename", "fork", "child"}

(***************************************************************************)
(* Situations in which the code does not keep what it promises (each       *)
(* described in the README).  A run either admits one, to show it, or      *)
(* assumes that it does not happen:                                        *)
(*   unsynced   a rewrite starts while part of the current INCR file is    *)
(*              not on the disk (appendfsync everysec)                     *)
(*   leftover   a rewrite starts with commands in aof_buf that could not   *)
(*              be written                                                 *)
(*   openfd     the fork of CONFIG SET appendonly yes fails                *)
(*   reuse      the server ends after the manifest of a rewrite made with  *)
(*              the AOF off, before a manifest without its history files   *)
(*   pagecache  a power loss before the kernel has written back what a     *)
(*              killed server left in the page cache                       *)
(***************************************************************************)
AllRaces == {"unsynced", "leftover", "openfd", "reuse", "pagecache"}

ASSUME AofFilesAssumption ==
    /\ Policies \subseteq {"always", "everysec"} /\ Policies # {}
    /\ Faults \subseteq AllFaults /\ Races \subseteq AllRaces
    /\ {MaxWrites, MaxEvents, MaxCrashes} \subseteq Nat

VARIABLES
    up,       \* the server process runs
    server,   \* its memory: the fields of struct redisServer, and the bio queue
    disk,     \* what the kernel holds: directory states and files
    \* History, read by no action of the code:
    writes,   \* number of writes ever executed
    found,    \* while down: what loading the disk gives
    promised, \* the longest prefix of the data set promised to be durable
    events, crashes

vars == <<up, server, disk, writes, found, promised, events, crashes>>

(***************************************************************************)
(* The disk.  dirs holds the states of the AOF directory since its last    *)
(* fsync, the durable one first and the current one last; a state gives    *)
(* each name its file and holds the manifest, whose content is always      *)
(* synced before it is renamed into place.  files holds the content of     *)
(* each file and how much of it an fsync has covered.                      *)
(***************************************************************************)
Base(n) == <<"base", n>>
Incr(n) == <<"incr", n>>
TempIncr == <<"temp", 0>>
NoManifest == [base |-> 0, incr |-> <<>>, hist |-> {}]
NoFile == 0

Empty == [data |-> <<>>, synced |-> 0]
Synced(b) == [data |-> b, synced |-> Len(b)]
Cur(d) == Last(d.dirs)

(* The disk with directory state dir on top of the earlier ones; files     *)
(* that neither a directory state nor a descriptor in open refers to go.   *)
Keep(d, open) ==
    LET live == open \cup UNION {Range(d.dirs[i].names) : i \in DOMAIN d.dirs}
    IN  [d EXCEPT !.files = [f \in DOMAIN @ \cap live |-> @[f]]]
WithDir(d, dir) ==
    IF dir = Cur(d) THEN d ELSE [d EXCEPT !.dirs = Append(@, dir)]
WithName(d, name, file) ==
    WithDir(d, [Cur(d) EXCEPT !.names = (name :> file) @@ @])
Unlink(d, name) ==
    WithDir(d, [Cur(d) EXCEPT !.names = [n \in DOMAIN @ \ {name} |-> @[n]]])
Rename(d, from, to) ==
    LET names == Cur(d).names
    IN  WithDir(d, [Cur(d) EXCEPT !.names =
            [n \in (DOMAIN names \ {from}) \cup {to} |->
                IF n = to THEN names[from] ELSE names[n]]])
SyncDir(d) == [d EXCEPT !.dirs = <<Last(@)>>]
NewFile(d) == CHOOSE f \in 1..(Cardinality(DOMAIN d.files) + 1) : f \notin DOMAIN d.files
Create(d, name, content) ==
    LET f == NewFile(d)
    IN  WithName([d EXCEPT !.files = (f :> content) @@ @], name, f)
OpenTrunc(d, name) ==
    IF name \in DOMAIN Cur(d).names
    THEN [d EXCEPT !.files[Cur(d).names[name]] = Empty] ELSE Create(d, name, Empty)
Put(d, f, content) == [d EXCEPT !.files[f] = content]
Fsync(d, f) == IF f \in DOMAIN d.files THEN Put(d, f, Synced(d.files[f].data)) ELSE d

(* What a power loss may leave: any state of the directory since its last  *)
(* fsync, every file cut anywhere past its synced part.                    *)
AfterPowerLoss(d) ==
    LET Unsynced(f) == Len(d.files[f].data) - d.files[f].synced
        dirty == {f \in DOMAIN d.files : Unsynced(f) > 0}
        cuts == {c \in [dirty -> 0..Max({0} \cup {Unsynced(f) : f \in dirty})] :
                    \A f \in dirty : c[f] <= Unsynced(f)}
        Cut(c) == [f \in DOMAIN d.files |->
                     IF f \in dirty
                     THEN Synced(SubSeq(d.files[f].data, 1, Len(d.files[f].data) - c[f]))
                     ELSE d.files[f]]
    IN  {[dirs |-> <<d.dirs[i]>>, files |-> Cut(c)] : i \in DOMAIN d.dirs, c \in cuts}

-----------------------------------------------------------------------------
(* Loading the files a manifest names. *)

Bytes(db) == [i \in 1..(2 * Len(db)) |-> 2 * db[(i + 1) \div 2] - (i % 2)]

(* The commands of one file: a tail cut inside a command is truncated      *)
(* (aof-load-truncated yes), anything else that is no command is an error. *)
loadSingleAppendOnlyFile(b) ==
    LET n == Max({k \in 0..(Len(b) \div 2) :
                    \A i \in 1..k : b[2*i - 1] % 2 = 1 /\ b[2*i] = b[2*i - 1] + 1})
    IN  [ret |-> CASE Len(b) = 2*n -> "OK"
                   [] Len(b) = 2*n + 1 /\ b[2*n + 1] % 2 = 1 -> "TRUNCATED"
                   [] OTHER -> "FAILED",
         db |-> [i \in 1..n |-> b[2*i] \div 2]]

FilesOf(am) == (IF am.base = 0 THEN <<>> ELSE <<Base(am.base)>>)
               \o [i \in DOMAIN am.incr |-> Incr(am.incr[i])]

(* Every file the manifest names must be there and only the last one may   *)
(* be truncated.                                                           *)
loadAppendOnlyFiles(d) ==
    LET dir == Cur(d)
        fs == FilesOf(dir.manifest)
        one == [i \in DOMAIN fs |->
                  loadSingleAppendOnlyFile(d.files[dir.names[fs[i]]].data)]
    IN  IF /\ \A i \in DOMAIN fs : fs[i] \in DOMAIN dir.names
           /\ \A i \in DOMAIN fs :
                  one[i].ret = "OK" \/ (one[i].ret = "TRUNCATED" /\ i = Len(fs))
        THEN [ok |-> TRUE, db |-> FlattenSeq([i \in DOMAIN fs |-> one[i].db])]
        ELSE [ok |-> FALSE, db |-> <<>>]

(* The memory image of a manifest read from disk: history entries do not   *)
(* count for the next file number.                                         *)
aofLoadManifestFromDisk(d) ==
    LET am == Cur(d).manifest
    IN  [am |-> am, base_seq |-> am.base,
         incr_seq |-> IF am.incr = <<>> THEN 0 ELSE Last(am.incr)]

-----------------------------------------------------------------------------
(* A handler is a function from a world to the worlds it may leave: the    *)
(* server s, the disk d, the disks t it went through, the return code ok,  *)
(* and whether it called exit(1).                                          *)

World == [s |-> server, d |-> disk, t |-> <<disk>>, ok |-> TRUE, exit |-> FALSE]

Do(w, d) == IF d = w.d THEN w ELSE [w EXCEPT !.d = d, !.t = Append(@, d)]
Ret(w, ok) == [w EXCEPT !.ok = ok]
If(fault, worlds) == IF fault \in Faults THEN worlds ELSE {}

(* master_repl_offset *)
Offset(w) == Len(w.s.db)

Pending(w, n) == [w EXCEPT !.s.fsynced_reploff_pending = n]

(* Mutant of persistAofManifest: the directory is not synced. *)
persistAofManifest_noDirSync(w, m) ==
    {Ret(Do(w, WithDir(w.d, [Cur(w.d) EXCEPT !.manifest = m.am])), TRUE)}

persistAofManifest(w, m) ==
    LET renamed == Do(w, WithDir(w.d, [Cur(w.d) EXCEPT !.manifest = m.am]))
    IN  {Ret(Do(renamed, SyncDir(renamed.d)), TRUE)}
        \cup If("manifest", {Ret(w, FALSE)})
        \cup If("dirsync", {Ret(renamed, FALSE)})

(* Is a BIO_AOF_FSYNC job queued or running?  BIO_CLOSE_AOF does not count. *)
aofFsyncInProgress(w) ==
    \E i \in DOMAIN w.s.bio : w.s.bio[i].type = "FSYNC"

Submit(w, type) ==
    [w EXCEPT !.s.bio = Append(@, [type |-> type, file |-> w.s.aof_fd, offset |-> Offset(w)])]

(* The background thread takes the first job; both types fsync the file.   *)
BioJob(w) ==
    LET job == Head(w.s.bio)
        rest == [w EXCEPT !.s.bio = Tail(@)]
    IN  {Pending([Do(rest, Fsync(w.d, job.file)) EXCEPT !.s.aof_bio_fsync_status = "OK"],
                 job.offset)}
        \cup If("fsync", {[rest EXCEPT !.s.aof_bio_fsync_status = "ERR"]})

(* Waits until the background thread has done every job. *)
bioDrainWorker(w) ==
    LET done == FoldLeft(LAMBDA d, j : Fsync(d, j.file), w.d, w.s.bio)
    IN  IF w.s.bio = <<>> THEN w
        ELSE Pending([Do(w, done) EXCEPT !.s.bio = <<>>], Last(w.s.bio).offset)

(* The end of flushAppendOnlyFile: fsync as the policy asks. *)
TryFsync(w, late, syncing) ==
    LET s == w.s
        synced == [w EXCEPT !.s.aof_last_incr_fsync_offset = s.aof_last_incr_size]
    IN  CASE s.aof_fsync = "always" ->
                {Pending(Do(synced, Fsync(w.d, s.aof_fd)), Offset(w))}
                \cup If("fsync", {[w EXCEPT !.exit = TRUE]})
          [] s.aof_fsync = "everysec" /\ late /\ ~syncing -> {Submit(synced, "FSYNC")}
          [] OTHER -> {w}

(* The write(2) of aof_buf: all of it, none of it (an error, or a short    *)
(* write that ftruncate undid), or n bytes that ftruncate could not undo.  *)
Written(w, n) ==
    LET s == w.s
        f == w.d.files[s.aof_fd]
        d == Put(w.d, s.aof_fd, [f EXCEPT !.data = @ \o SubSeq(s.aof_buf, 1, n)])
    IN  [Do(w, d) EXCEPT !.s.aof_buf = SubSeq(@, n + 1, Len(@)),
                         !.s.aof_last_incr_size = @ + n]
WriteAofBuf(w, late, syncing) ==
    LET n == Len(w.s.aof_buf)
        Failed(v) == [v EXCEPT !.s.aof_last_write_status = "ERR",
                               !.exit = w.s.aof_fsync = "always"]
        whole == [Written(w, n) EXCEPT !.s.aof_last_write_status = "OK"]
    IN  IF w.s.aof_fd = NoFile THEN {Failed(w)}
        ELSE TryFsync(whole, late, syncing)
             \cup If("write", {Failed(Written(w, k)) : k \in 0..(n - 1)})

(* late: a second has passed since the last fsync; overdue: the write was  *)
(* postponed for two seconds.                                              *)
Flush(w, force, late, overdue) ==
    LET s == w.s
        syncing == aofFsyncInProgress(w)
        everysec == s.aof_fsync = "everysec"
    IN  IF s.aof_buf = <<>>
        THEN IF s.aof_last_incr_fsync_offset = s.aof_last_incr_size
             THEN {IF syncing THEN w ELSE Pending(w, Offset(w))}
             ELSE IF (everysec /\ late /\ ~syncing) \/ ~everysec
                  THEN TryFsync(w, late, FALSE) ELSE {w}
        ELSE IF everysec /\ ~force /\ syncing /\ ~(s.aof_flush_postponed /\ overdue)
             THEN {[w EXCEPT !.s.aof_flush_postponed = TRUE]}
             ELSE WriteAofBuf([w EXCEPT !.s.aof_flush_postponed = FALSE], late,
                              everysec /\ syncing)
flushAppendOnlyFile(w, force) ==
    UNION {Flush(w, force, late, overdue) : late \in BOOLEAN, overdue \in BOOLEAN}

-----------------------------------------------------------------------------
(* Background rewrites. *)

NoChild == [active |-> FALSE, db |-> <<>>]

(* F after each of worlds that did not exit. *)
Then(worlds, F(_)) == UNION {IF w.exit THEN {w} ELSE F(w) : w \in worlds}

getNewIncrAofName(m) ==
    [m EXCEPT !.incr_seq = @ + 1, !.am.incr = Append(@, m.incr_seq + 1)]
getNewBaseFileNameAndMarkPreAsHistory(m) ==
    [m EXCEPT !.base_seq = @ + 1, !.am.base = m.base_seq + 1,
              !.am.hist = @ \cup (IF m.am.base = 0 THEN {} ELSE {Base(m.am.base)})]
markRewrittenIncrAofAsHistory(m, fd) ==
    LET kept == IF fd = NoFile \/ m.am.incr = <<>> THEN <<>> ELSE <<Last(m.am.incr)>>
    IN  [m EXCEPT !.am.incr = kept,
                  !.am.hist = @ \cup {Incr(n) : n \in Range(m.am.incr) \ Range(kept)}]

(* The new file replaces aof_fd, which the background thread closes. *)
SwitchIncr(w, name, m) ==
    LET closed == IF w.s.aof_fd = NoFile THEN w ELSE Submit(w, "CLOSE")
    IN  Ret([closed EXCEPT !.s.aof_fd = Cur(w.d).names[name],
                           !.s.aof_last_incr_size = 0,
                           !.s.aof_last_incr_fsync_offset = 0,
                           !.s.aof_manifest = m], TRUE)
openNewIncrAofForAppend(w) ==
    LET m == w.s.aof_manifest
        m2 == getNewIncrAofName(m)
        name == Incr(m2.incr_seq)
    IN  CASE w.s.aof_state = "OFF" -> {Ret(w, TRUE)}
          [] w.s.aof_state = "WAIT_REWRITE" ->
                {SwitchIncr(Do(w, OpenTrunc(w.d, TempIncr)), TempIncr, m)}
          [] w.s.aof_state = "ON" ->
                Then(persistAofManifest(Do(w, OpenTrunc(w.d, name)), m2),
                     LAMBDA p : {IF p.ok THEN SwitchIncr(p, name, m2) ELSE p})

Fork(w) ==
    LET v == IF w.s.aof_state = "WAIT_REWRITE"
             THEN [Pending(bioDrainWorker(w), Offset(w)) EXCEPT !.s.fsynced_reploff = 0]
             ELSE w
    IN  {Ret([v EXCEPT !.s.child = [active |-> TRUE, db |-> w.s.db]], TRUE)}
        \cup If("fork", {Ret(v, FALSE)})
rewriteAppendOnlyFileBackground(w) ==
    LET IsSynced(f) == f.d.files[f.s.aof_fd].synced = Len(f.d.files[f.s.aof_fd].data)
        flushed == {f \in flushAppendOnlyFile(w, TRUE) :
                       \/ f.exit \/ f.s.aof_state # "ON"
                       \/ /\ f.s.aof_buf = <<>> \/ "leftover" \in Races
                          /\ IsSynced(f) \/ "unsynced" \in Races}
    IN  IF w.s.child.active THEN {Ret(w, FALSE)}
        ELSE Then(Then(flushed, openNewIncrAofForAppend),
                  LAMBDA o : IF o.ok THEN Fork(o) ELSE {o})

aofDelHistoryFiles(w) ==
    LET m == [w.s.aof_manifest EXCEPT !.am.hist = {}]
        removed == FoldLeft(LAMBDA v, n : Do(v, Unlink(v.d, n)), w,
                            SetToSeq(w.s.aof_manifest.am.hist))
    IN  IF w.s.aof_manifest.am.hist = {} THEN {w}
        ELSE persistAofManifest([removed EXCEPT !.s.aof_manifest = m], m)

(* The end of backgroundRewriteDoneHandler, on success and on failure. *)
Cleanup(w) ==
    LET v == [w EXCEPT !.s.child = NoChild]
    IN  IF w.s.aof_state # "WAIT_REWRITE" THEN v
        ELSE [Do(v, Unlink(v.d, TempIncr)) EXCEPT !.s.aof_buf = <<>>]
Rewritten(w) ==
    IF w.s.aof_state # "WAIT_REWRITE" THEN w
    ELSE [w EXCEPT !.s.aof_state = "ON",
                   !.s.fsynced_reploff = w.s.fsynced_reploff_pending]

InstallRewrite(w) ==
    LET wait == w.s.aof_state = "WAIT_REWRITE"
        m1 == getNewBaseFileNameAndMarkPreAsHistory(w.s.aof_manifest)
        base == Base(m1.base_seq)
        w1 == Do(w, Create(w.d, base, Synced(Bytes(w.s.child.db))))
        m2 == IF wait THEN getNewIncrAofName(m1) ELSE m1
        incr == Incr(m2.incr_seq)
        w2 == IF wait THEN Do(w1, Rename(w1.d, TempIncr, incr)) ELSE w1
        m3 == markRewrittenIncrAofAsHistory(m2, w.s.aof_fd)
        undone == Do(w1, Unlink(w1.d, base))
        Undo(v) == LET u == Do(v, Unlink(v.d, base))
                   IN  IF wait THEN Do(u, Unlink(u.d, incr)) ELSE u
        Install(p) == IF p.ok
                      THEN {Rewritten(h) :
                              h \in aofDelHistoryFiles([p EXCEPT !.s.aof_manifest = m3])}
                      ELSE {Undo(p)}
    IN  IF wait /\ TempIncr \notin DOMAIN Cur(w.d).names THEN {undone}
        ELSE Then(persistAofManifest(w2, m3), Install)
             \cup If("rename", {w} \cup IF wait THEN {undone} ELSE {})

backgroundRewriteDoneHandler(w) ==
    {Cleanup(v) : v \in InstallRewrite(w) \cup If("child", {w})}

-----------------------------------------------------------------------------
(* Turning the AOF on and off, startup and shutdown. *)

killAppendOnlyChild(w) == [w EXCEPT !.s.child = NoChild]

(* Flush, fsync and close aof_fd; record its end offset in the manifest. *)
CloseAof(w) ==
    LET fsynced == {IF f.exit THEN f ELSE Do(f, Fsync(f.d, f.s.aof_fd)) :
                      f \in flushAppendOnlyFile(w, TRUE)}
        persisted == Then(fsynced, LAMBDA f : IF f.s.aof_state = "ON"
                                              THEN persistAofManifest(f, f.s.aof_manifest)
                                              ELSE {f})
    IN  persisted

stopAppendOnly(w) ==
    {IF f.exit THEN f
     ELSE killAppendOnlyChild(
            [f EXCEPT !.s.aof_fd = NoFile, !.s.aof_state = "OFF",
                      !.s.aof_last_incr_size = 0, !.s.aof_last_incr_fsync_offset = 0,
                      !.s.fsynced_reploff = -1, !.s.fsynced_reploff_pending = 0,
                      !.s.aof_buf = <<>>]) :
       f \in CloseAof(w)}

(* busy: another child runs, or CONFIG SET is inside an EXEC; a rewrite    *)
(* begun with the AOF off then goes on.                                    *)
startAppendOnly(w, busy) ==
    LET wait == [w EXCEPT !.s.aof_state = "WAIT_REWRITE"]
        tried == IF busy THEN {wait}
                 ELSE rewriteAppendOnlyFileBackground(killAppendOnlyChild(wait))
    IN  {IF r.exit THEN r
         ELSE IF r.ok THEN [r EXCEPT !.s.aof_bio_fsync_status = "OK",
                                     !.s.aof_last_write_status = "OK"]
         ELSE [r EXCEPT !.s.aof_state = "OFF"] :
           r \in {t \in tried : t.ok \/ "openfd" \in Races}}

Booted(policy) ==
    [db |-> <<>>, aof_state |-> "ON", aof_fsync |-> policy, aof_buf |-> <<>>,
     aof_fd |-> NoFile, aof_last_incr_size |-> 0, aof_last_incr_fsync_offset |-> 0,
     aof_flush_postponed |-> FALSE, aof_last_write_status |-> "OK",
     aof_bio_fsync_status |-> "OK",
     aof_manifest |-> [am |-> NoManifest, base_seq |-> 0, incr_seq |-> 0],
     child |-> NoChild, bio |-> <<>>,
     fsynced_reploff_pending |-> 0, fsynced_reploff |-> 0]

(* Mutant of CutTail: the whole file is dropped. *)
CutTail_all(w) ==
    LET fs == FilesOf(Cur(w.d).manifest)
        f == Cur(w.d).names[Last(fs)]
        whole == Bytes(loadSingleAppendOnlyFile(w.d.files[f].data).db)
        d == Put(w.d, f, Empty)
    IN  IF fs = <<>> \/ whole = w.d.files[f].data THEN w
        ELSE [Do(w, d) EXCEPT !.s.db = loadAppendOnlyFiles(d).db]

(* A truncated last file is cut back to its last whole command. *)
CutTail(w) ==
    LET fs == FilesOf(Cur(w.d).manifest)
        f == Cur(w.d).names[Last(fs)]
        whole == Bytes(loadSingleAppendOnlyFile(w.d.files[f].data).db)
    IN  IF fs = <<>> \/ whole = w.d.files[f].data THEN w
        ELSE Do(w, Put(w.d, f, Synced(whole)))

(* With no base and no INCR file a base file is written; the last INCR     *)
(* file is opened for appending, or a new one.                             *)
aofOpenIfNeededOnServerStart(w) ==
    LET m == w.s.aof_manifest
        fresh == m.am.base = 0 /\ m.am.incr = <<>>
        m1 == IF fresh THEN getNewBaseFileNameAndMarkPreAsHistory(m) ELSE m
        w1 == IF fresh THEN Do(w, Create(w.d, Base(m1.base_seq), Synced(Bytes(w.s.db)))) ELSE w
        m2 == IF m.am.incr = <<>> THEN getNewIncrAofName(m1) ELSE m1
        name == Incr(Last(m2.am.incr))
        w2 == IF name \in DOMAIN Cur(w1.d).names THEN w1
              ELSE Do(w1, Create(w1.d, name, Empty))
        file == Cur(w2.d).names[name]
        size == Len(w2.d.files[file].data)
        opened == [w2 EXCEPT !.s.aof_manifest = m2, !.s.aof_fd = file,
                             !.s.aof_last_incr_size = size,
                             !.s.aof_last_incr_fsync_offset = size]
    IN  IF m2 = m THEN {opened}
        ELSE {[p EXCEPT !.exit = ~p.ok] : p \in persistAofManifest(opened, m2)}

Startup(d, policy) ==
    LET w == [s |-> [Booted(policy) EXCEPT !.db = loadAppendOnlyFiles(d).db,
                                           !.aof_manifest = aofLoadManifestFromDisk(d)],
              d |-> d, t |-> <<d>>, ok |-> TRUE, exit |-> FALSE]
    IN  IF loadAppendOnlyFiles(d).ok
        THEN Then(aofOpenIfNeededOnServerStart(CutTail(w)), aofDelHistoryFiles) ELSE {}

-----------------------------------------------------------------------------
(* The steps of the server.  Each is a set of worlds, empty when the step  *)
(* cannot be taken, so that a crash may cut it short.                      *)

(* beforeSleep: flush, then publish the offset that was synced. *)
BeforeSleeps(w) ==
    {IF f.exit \/ f.s.aof_state # "ON" \/ f.s.fsynced_reploff = -1 THEN f
     ELSE [f EXCEPT !.s.fsynced_reploff = f.s.fsynced_reploff_pending] :
       f \in IF w.s.aof_state = "OFF" THEN {w} ELSE flushAppendOnlyFile(w, FALSE)}

(* serverCron retries a postponed or failed write. *)
CronFlushes(w) ==
    IF /\ w.s.aof_state # "OFF"
       /\ w.s.aof_flush_postponed \/ w.s.aof_last_write_status = "ERR"
    THEN flushAppendOnlyFile(w, FALSE) ELSE {}

(* BGREWRITEAOF, and serverCron when the AOF has grown or a rewrite was    *)
(* scheduled: a scheduled rewrite is one that happens later.               *)
Rewrites(w) ==
    IF w.s.child.active THEN {} ELSE rewriteAppendOnlyFileBackground(w)

(* serverCron reaps the child. *)
ChildExits(w) == IF w.s.child.active THEN backgroundRewriteDoneHandler(w) ELSE {}

Configs(w) ==
    IF w.s.aof_state # "OFF" THEN stopAppendOnly(w)
    ELSE UNION {startAppendOnly(w, busy) : busy \in BOOLEAN}

(* CONFIG SET appendfsync drains the background thread when it becomes     *)
(* always.                                                                 *)
updateAppendFsync(w, policy) ==
    LET v == [w EXCEPT !.s.aof_fsync = policy]
    IN  {IF policy = "always" THEN bioDrainWorker(v) ELSE v}

(* SHUTDOWN is refused while the initial AOF is being written. *)
Shutdowns(w) ==
    IF w.s.child.active /\ w.s.aof_state = "WAIT_REWRITE" THEN {}
    ELSE IF w.s.aof_state = "OFF" THEN {killAppendOnlyChild(w)}
    ELSE CloseAof(killAppendOnlyChild(w))

-----------------------------------------------------------------------------
OpenFiles(s) == {s.aof_fd} \cup {s.bio[i].file : i \in DOMAIN s.bio}

WrittenBack(d) ==
    [dirs |-> <<Last(d.dirs)>>, files |-> [f \in DOMAIN d.files |-> Synced(d.files[f].data)]]

Reuses(d) ==
    /\ Cur(d).manifest.incr = <<>>
    /\ \E n \in Cur(d).manifest.hist : n[1] = "incr"

(* The process is gone and the disk is d; its data set is kept for         *)
(* reference.                                                              *)
Down(d) ==
    /\ crashes < MaxCrashes
    /\ Reuses(d) => "reuse" \in Races
    /\ crashes' = crashes + 1
    /\ up' = FALSE
    /\ server' = [Booted(server.aof_fsync) EXCEPT !.db = server.db]
    /\ disk' = Keep(d, {})
    /\ found' = loadAppendOnlyFiles(d).db
Exit(d) == Down(IF "pagecache" \in Races THEN d ELSE WrittenBack(d))

(* The server goes on as w; durable is what it now promises. *)
Run(w, durable) ==
    /\ up' = TRUE
    /\ server' = w.s
    /\ disk' = Keep(w.d, OpenFiles(w.s))
    /\ found' = <<>>
    /\ promised' = Max({promised, durable, w.s.fsynced_reploff})
    /\ UNCHANGED crashes

Become(w, durable) ==
    IF w.exit THEN Exit(w.d) /\ UNCHANGED promised ELSE Run(w, durable)

(* A write command, refused while the AOF is in an error state. *)
Write ==
    LET s == server
        logged == s.aof_state = "ON" \/ (s.aof_state = "WAIT_REWRITE" /\ s.child.active)
    IN  /\ up /\ writes < MaxWrites
        /\ \/ s.aof_state = "OFF"
           \/ s.aof_last_write_status = "OK" /\ s.aof_bio_fsync_status = "OK"
        /\ writes' = writes + 1
        /\ server' = [s EXCEPT !.db = Append(@, writes'),
                               !.aof_buf = IF logged THEN @ \o Bytes(<<writes'>>) ELSE @]
        /\ UNCHANGED <<up, disk, found, promised, events, crashes>>

(* With appendfsync always the replies that go out now promise that every  *)
(* write is durable.                                                       *)
BeforeSleep ==
    /\ up
    /\ \E w \in BeforeSleeps(World) :
          Become(w, IF w.s.aof_state = "ON" /\ w.s.aof_fsync = "always" THEN Offset(w) ELSE 0)
    /\ UNCHANGED <<writes, events>>

CronFlush ==
    /\ up
    /\ \E w \in CronFlushes(World) : Become(w, 0)
    /\ UNCHANGED <<writes, events>>

Bio ==
    /\ up /\ server.bio # <<>>
    /\ \E w \in BioJob(World) : Run(w, 0)
    /\ UNCHANGED <<writes, events>>

Rewrite ==
    /\ up /\ events < MaxEvents
    /\ events' = events + 1
    /\ \E w \in Rewrites(World) : Become(w, 0)
    /\ UNCHANGED writes

ChildExit ==
    /\ up
    /\ \E w \in ChildExits(World) : Become(w, 0)
    /\ UNCHANGED <<writes, events>>

SetAppendOnly ==
    /\ up /\ events < MaxEvents
    /\ events' = events + 1
    /\ \E w \in Configs(World) : Become(w, 0)
    /\ UNCHANGED writes

SetAppendFsync ==
    /\ up /\ events < MaxEvents
    /\ events' = events + 1
    /\ \E policy \in Policies \ {server.aof_fsync} :
          \E w \in updateAppendFsync(World, policy) : Run(w, 0)
    /\ UNCHANGED writes

(* A clean shutdown whose last write succeeded promises the whole data set. *)
Shutdown ==
    /\ up
    /\ \E w \in Shutdowns(World) :
          /\ Exit(w.d)
          /\ promised' = IF w.s.aof_state = "ON" /\ ~w.exit /\ w.s.aof_buf = <<>>
                         THEN Offset(w) ELSE promised
    /\ UNCHANGED <<writes, events>>

(* Crashes: between any two operations of any step, with or without the    *)
(* power.                                                                  *)
Steps(w) ==
    {w} \cup BeforeSleeps(w) \cup CronFlushes(w) \cup Rewrites(w) \cup ChildExits(w)
        \cup Configs(w) \cup Shutdowns(w)
Crash ==
    LET steps == IF up THEN Steps(World) ELSE Startup(disk, server.aof_fsync)
        images == UNION {Range(w.t) : w \in steps}
    IN  /\ \E d \in UNION {AfterPowerLoss(i) : i \in images}
                    \cup (IF "pagecache" \in Races THEN images ELSE {}) : Down(d)
        /\ UNCHANGED <<writes, promised, events>>

Start ==
    /\ ~up
    /\ \E w \in Startup(disk, server.aof_fsync) : Become(w, 0)
    /\ UNCHANGED <<writes, events>>

Init ==
    /\ up = FALSE
    /\ \E policy \in Policies : server = Booted(policy)
    /\ disk = [dirs |-> <<[names |-> <<>>, manifest |-> NoManifest]>>, files |-> <<>>]
    /\ writes = 0 /\ found = <<>> /\ promised = 0
    /\ events = 0 /\ crashes = 0

Next ==
    \/ Write \/ BeforeSleep \/ CronFlush \/ Bio
    \/ Rewrite \/ ChildExit
    \/ SetAppendOnly \/ SetAppendFsync
    \/ Shutdown \/ Crash \/ Start

Spec == Init /\ [][Next]_vars

-----------------------------------------------------------------------------
(* Whenever the power fails, the files load, to a prefix of the data set   *)
(* that holds every write promised durable: every write answered with      *)
(* appendfsync always, and every write below fsynced_reploff, the offset   *)
(* WAITAOF answers with.                                                   *)
PromisesSurvivePowerLoss ==
    \A d \in AfterPowerLoss(disk) :
        LET l == loadAppendOnlyFiles(d)
        IN  /\ l.ok
            /\ Len(l.db) \in promised..Len(server.db)
            /\ l.db = SubSeq(server.db, 1, Len(l.db))

(* A write WAITAOF has acknowledged, or that was answered with appendfsync *)
(* always, is there after any power loss that leaves files that load.      *)
AcknowledgedWritesSurvive ==
    \A d \in AfterPowerLoss(disk) :
        loadAppendOnlyFiles(d).ok => Len(loadAppendOnlyFiles(d).db) >= promised

(* The server with its files implements the durable log, through crashes   *)
(* at any point, restarts, rewrites and configuration changes: what a      *)
(* restart finds is what the data set was, less a tail nobody was promised.*)
Log == INSTANCE DurableLog WITH
          Writes <- 1..MaxWrites,
          running <- up,
          log <- IF up THEN server.db ELSE found,
          durable <- promised
ImplementsDurableLog == Log!Spec
============================================================================
