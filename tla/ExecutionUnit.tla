--------------------------- MODULE ExecutionUnit ---------------------------
(***************************************************************************)
(* How the server executes commands and propagates them: call(), the       *)
(* nesting of execution units, alsoPropagate() and the flush of what it    *)
(* collected into the append only file (AOF) and the replication stream    *)
(* (src/server.c), for every way a command can run other commands:         *)
(*   EXEC       multi.c execCommand, call() with CMD_CALL_FULL             *)
(*   EVAL       script.c scriptCall, call() with the propagate flags       *)
(*   RAIN.FALL  rainfall.c + raincall_inprocess.c, CMD_CALL_FULL           *)
(*   MODR       a module command whose RM_Calls carry the '!' modifier     *)
(*   MODV       a module command whose RM_Calls do not, and that ends with *)
(*              RM_ReplicateVerbatim                                       *)
(* The server runs one command at a time, so the only interleaving is that *)
(* of nested commands: the stack below is the C call stack of call().      *)
(*                                                                         *)
(* A key holds a counter (0 when absent): INCR stands for the writes that  *)
(* must be applied exactly once.  Scripts and modules are deterministic:   *)
(* running one again on a copy of the data runs the same commands.         *)
(***************************************************************************)
EXTENDS Naturals, Sequences, FiniteSets, SequencesExt

CONSTANTS
    Keys,       \* key names
    NoKey,      \* the key of a command that takes none
    Kinds,      \* the commands of the header that clients and modules use
    Leaves,     \* the simple commands in use
    SaveParams, \* server.saveparamslen > 0: FLUSHALL saves an RDB file
    Gates,      \* TRUE: the write gates of processCommand come and go
    MaxUnits,   \* bound: commands sent by clients, and active expirations
    MaxCalls,   \* bound: commands run within one client command
    MaxDepth    \* bound: nested commands that run other commands

AllKinds == {"EXEC", "EVAL", "RAIN.FALL", "MODR", "MODV"}
AllLeaves == {"INCR", "GET", "SCAN", "FLUSHALL", "PUBLISH"}

ASSUME ExecutionUnitAssumption ==
    /\ NoKey \notin Keys
    /\ Kinds \subseteq AllKinds
    /\ Leaves \subseteq AllLeaves
    /\ SaveParams \in BOOLEAN /\ Gates \in BOOLEAN
    /\ {MaxUnits, MaxCalls, MaxDepth} \subseteq Nat

VARIABLES
    val,            \* the data set: the counter of each key
    expired,        \* keys present in the data set whose TTL has passed
    dirty,          \* server.dirty
    stack,          \* the commands being executed that run other commands
    replication_allowed,
    also_propagate, \* server.also_propagate
    aof, repl,      \* what was fed to the AOF and to the replicas
    deny,           \* a gate of processCommand refuses write commands
    \* History, read by no action of the code:
    units,          \* number of execution units finished
    calls,          \* commands run within the current unit
    published,      \* messages published on this server
    denied_write,   \* a write command ran although a gate refused writes
    boundaries      \* data set and expired keys whenever no unit was running

data == <<val, expired, dirty>>
streams == <<also_propagate, aof, repl>>
vars == <<data, stack, replication_allowed, streams, deny,
          units, calls, published, denied_write, boundaries>>

Targets == {"aof", "repl"}
KeyOf == [INCR |-> Keys, GET |-> Keys, SCAN |-> {NoKey},
          FLUSHALL |-> {NoKey}, PUBLISH |-> {NoKey}]
Leaf == UNION {[cmd: {c}, key: KeyOf[c]] : c \in Leaves}
ModuleKinds == {"MODR", "MODV"}
WriteCommands == {"INCR", "FLUSHALL"} \cup ModuleKinds

-----------------------------------------------------------------------------
(* Propagation, src/server.c. *)

\* An operation as it is propagated; body is what re-executing it runs.
Op(cmd, key, body) ==
    [cmd |-> cmd, key |-> key, body |-> body, target |-> Targets]

MultiOp == Op("MULTI", NoKey, <<>>)
ExecOp == Op("EXEC", NoKey, <<>>)

\* Mutant: replication_allowed is not consulted.
alsoPropagate_always(pending, op, target) ==
    IF target # {} THEN Append(pending, [op EXCEPT !.target = target]) ELSE pending

alsoPropagate(pending, op, target) ==
    IF replication_allowed /\ target # {}
    THEN Append(pending, [op EXCEPT !.target = target])
    ELSE pending

\* The implicit DEL of an expired key ignores replication_allowed.
propagateDeletion(pending, key) == Append(pending, Op("DEL", key, <<>>))

\* Mutant: the forced targets of the command are forgotten.
PropagateTargets_unforced(cmd, full, prevent, changed, forced) ==
    IF full /\ ~prevent /\ cmd # "EXEC" /\ cmd \notin ModuleKinds /\ changed
    THEN Targets ELSE {}

\* The end of call(): which targets the command itself is propagated to.
\* full: the call flags have CMD_CALL_PROPAGATE; changed: server.dirty grew.
PropagateTargets(cmd, full, prevent, changed, forced) ==
    IF full /\ ~prevent /\ cmd # "EXEC" /\ cmd \notin ModuleKinds
    THEN IF changed THEN Targets ELSE forced
    ELSE {}

\* What propagatePendingCommands feeds to one target. A unit that propagates
\* several operations is wrapped in MULTI/EXEC, unless it is one command, run
\* directly, that touches arbitrary keys.
propagatePendingCommands(pending, arbitrary, target) ==
    LET ops == SelectSeq(pending, LAMBDA op: target \in op.target)
    IN  IF Len(pending) > 1 /\ ~arbitrary
        THEN <<MultiOp>> \o ops \o <<ExecOp>>
        ELSE ops

Flush(pending, arbitrary) ==
    /\ also_propagate' = <<>>
    /\ aof' = aof \o propagatePendingCommands(pending, arbitrary, "aof")
    /\ repl' = repl \o propagatePendingCommands(pending, arbitrary, "repl")

\* Mutant: every nested command flushes what is pending.
postExecutionUnitOperations_nested(nesting, pending, arbitrary) ==
    Flush(pending, arbitrary)

\* nesting is server.execution_nesting once the command has left its unit.
postExecutionUnitOperations(nesting, pending, arbitrary) ==
    IF nesting > 0
    THEN also_propagate' = pending /\ UNCHANGED <<aof, repl>>
    ELSE Flush(pending, arbitrary)

\* History: the unit is over when nesting is back to zero.
NoteBoundary(nesting) ==
    IF nesting > 0
    THEN UNCHANGED <<units, boundaries>>
    ELSE units' = units + 1 /\ boundaries' = boundaries \cup {<<val', expired'>>}

-----------------------------------------------------------------------------
(* The simple commands. *)

\* The expired keys the command looks up, which expireIfNeeded deletes.
LookedUp(leaf) ==
    CASE leaf.cmd \in {"INCR", "GET"} -> expired \cap {leaf.key}
      [] leaf.cmd = "SCAN" -> expired
      [] OTHER -> {}

ValAfter(v, leaf) ==
    CASE leaf.cmd = "INCR" -> [v EXCEPT ![leaf.key] = @ + 1]
      [] leaf.cmd = "FLUSHALL" -> [k \in Keys |-> 0]
      [] OTHER -> v

Present(v) == {k \in Keys : v[k] > 0}

\* FLUSHALL counts the keys it removed, then rdbSave() clears the counter.
DirtyAfter(v, leaf) ==
    CASE leaf.cmd = "INCR" -> dirty + 1
      [] leaf.cmd = "FLUSHALL" -> IF SaveParams THEN 0 ELSE dirty + Cardinality(Present(v))
      [] OTHER -> dirty

\* forceCommandPropagation() in flushCommandCommon and publishCommand.
Forced(leaf) ==
    CASE leaf.cmd = "FLUSHALL" -> Targets
      [] leaf.cmd = "PUBLISH" -> {"repl"}
      [] OTHER -> {}

\* Re-running the outer command runs this one again.
Recorded(leaf) ==
    [i \in DOMAIN stack |->
        [stack[i] EXCEPT !.body = IF stack[i].kind \in {"RAIN.FALL", "MODV"}
                                  THEN Append(@, leaf) ELSE @]]

\* call() of a simple command: the lookup deletes expired keys, the command
\* changes the data set, and call() propagates it.
call(leaf, full) ==
    LET gone == LookedUp(leaf)
        looked == [k \in Keys |-> IF k \in gone THEN 0 ELSE val[k]]
        dels == FoldLeft(propagateDeletion, also_propagate, SetToSeq(gone))
        changed == DirtyAfter(looked, leaf) > dirty
        target == PropagateTargets(leaf.cmd, full, FALSE, changed, Forced(leaf))
        nesting == Len(stack)
    IN  /\ val' = ValAfter(looked, leaf)
        /\ expired' = {k \in expired \ gone : val'[k] > 0}
        /\ dirty' = DirtyAfter(looked, leaf)
        /\ postExecutionUnitOperations(nesting,
               alsoPropagate(dels, Op(leaf.cmd, leaf.key, <<>>), target),
               nesting = 0 /\ leaf.cmd = "SCAN")
        /\ stack' = Recorded(leaf)
        /\ published' = published + (IF leaf.cmd = "PUBLISH" THEN 1 ELSE 0)
        /\ denied_write' = (denied_write \/ (deny /\ leaf.cmd \in WriteCommands))
        /\ NoteBoundary(nesting)

-----------------------------------------------------------------------------
(* Who may run what. *)

Top == Last(stack)

\* The RM_Calls of a module set replication_allowed for their duration.
AllowedInCall ==
    IF stack # <<>> /\ Top.kind \in ModuleKinds
    THEN Top.kind = "MODR" /\ replication_allowed
    ELSE replication_allowed

\* Call flags of a command run by the command on top of the stack.
FullCall == stack = <<>> \/ Top.kind # "MODV"

\* NOSCRIPT and PUBSUB flags: what EVAL and RAIN.CALL refuse to run.
Refused(kind, cmd) ==
    CASE kind = "EVAL" -> cmd \in {"EXEC", "EVAL", "RAIN.FALL"}
      [] kind = "RAIN.FALL" -> cmd \in {"EXEC", "EVAL", "RAIN.FALL", "PUBLISH"}
      [] OTHER -> cmd = "EXEC"

\* Mutant: scripts do not check the gates.
Gated_notInScripts(cmd) ==
    deny /\ cmd \in WriteCommands /\ (stack # <<>> => Top.kind = "EXEC")

\* The gates a write command passes before it runs: processCommand for what a
\* client sends (for EXEC, by the flags of what it has queued: an EXEC with a
\* write command does not start), and scriptVerifyWriteCommandAllow and
\* scriptVerifyOOM for EVAL. RAIN.CALL and RM_Call (without its S and M
\* modifiers) have none.
Gated(cmd) ==
    /\ deny
    /\ cmd \in WriteCommands
    /\ stack # <<>> => Top.kind \in {"EXEC", "EVAL"}

MayRun(cmd) ==
    /\ ~Gated(cmd)
    /\ stack # <<>> => ~Refused(Top.kind, cmd)

-----------------------------------------------------------------------------
(* Actions. *)

Init ==
    /\ val = [k \in Keys |-> 0] /\ expired = {} /\ dirty = 0
    /\ stack = <<>> /\ replication_allowed = TRUE
    /\ also_propagate = <<>> /\ aof = <<>> /\ repl = <<>>
    /\ deny = FALSE
    /\ units = 0 /\ calls = 0 /\ published = 0 /\ denied_write = FALSE
    /\ boundaries = {<<val, expired>>}

\* A client sends a simple command and processCommand calls it.
ClientCommand(leaf) ==
    /\ stack = <<>> /\ units < MaxUnits
    /\ MayRun(leaf.cmd)
    /\ call(leaf, TRUE)
    /\ UNCHANGED <<replication_allowed, deny, calls>>

\* A running EXEC, script or module runs a simple command. RM_Call changes
\* replication_allowed around the call only.
NestedCommand(leaf) ==
    /\ stack # <<>> /\ calls < MaxCalls
    /\ MayRun(leaf.cmd)
    /\ calls' = calls + 1
    /\ call(leaf, FullCall)
    /\ UNCHANGED <<replication_allowed, deny>>

\* call() of a command that will run other commands: the prologue, up to proc.
CallBegin(kind) ==
    /\ Len(stack) < MaxDepth
    /\ MayRun(kind)
    /\ kind = "EXEC" => stack = <<>>
    /\ kind = "EVAL" => \A i \in DOMAIN stack : stack[i].kind # "EVAL"
    /\ IF stack = <<>> THEN units < MaxUnits /\ calls' = 0
                       ELSE calls < MaxCalls /\ calls' = calls + 1
    /\ stack' = Append(stack, [kind |-> kind, dirty |-> dirty, full |-> FullCall,
                               allowed |-> replication_allowed, body |-> <<>>])
    /\ replication_allowed' = AllowedInCall
    /\ UNCHANGED <<data, streams, deny, units, published, denied_write, boundaries>>

\* The end of proc and the epilogue of call(). scriptResetRun prevents the
\* propagation of EVAL; MODV calls RM_ReplicateVerbatim before it returns;
\* rainFallCommand does neither.
CallEnd ==
    /\ stack # <<>>
    /\ LET f == Top
           verbatim == f.kind = "MODV"
           op == Op(f.kind, NoKey, f.body)
           own == IF verbatim THEN alsoPropagate(also_propagate, op, Targets)
                  ELSE also_propagate
           target == PropagateTargets(f.kind, f.full, f.kind = "EVAL", dirty' > f.dirty, {})
       IN  /\ dirty' = IF verbatim THEN dirty + 1 ELSE dirty
           /\ postExecutionUnitOperations(Len(stack) - 1, alsoPropagate(own, op, target), FALSE)
           /\ replication_allowed' = f.allowed
    /\ stack' = Front(stack)
    /\ calls' = IF Len(stack) = 1 THEN 0 ELSE calls
    /\ UNCHANGED <<val, expired, deny, published, denied_write>>
    /\ NoteBoundary(Len(stack) - 1)

\* Between two units: the TTL of a key passes.
TimePasses(k) ==
    /\ stack = <<>>
    /\ val[k] > 0 /\ k \notin expired
    /\ expired' = expired \cup {k}
    /\ boundaries' = boundaries \cup {<<val, expired'>>}
    /\ UNCHANGED <<val, dirty, stack, replication_allowed, streams, deny,
                   units, calls, published, denied_write>>

\* serverCron's active expiration: a unit of its own, outside call().
activeExpireCycleTryExpire(k) ==
    /\ stack = <<>> /\ units < MaxUnits
    /\ k \in expired
    /\ val' = [val EXCEPT ![k] = 0]
    /\ expired' = expired \ {k}
    /\ postExecutionUnitOperations(0, propagateDeletion(also_propagate, k), FALSE)
    /\ NoteBoundary(0)
    /\ UNCHANGED <<dirty, stack, replication_allowed, deny, calls, published, denied_write>>

\* The server becomes, or stops being, a read-only replica, out of memory,
\* unable to persist or short of replicas.
GateChanges ==
    /\ Gates /\ stack = <<>>
    /\ deny' = ~deny
    /\ UNCHANGED <<data, stack, replication_allowed, streams,
                   units, calls, published, denied_write, boundaries>>

Next ==
    \/ \E leaf \in Leaf : ClientCommand(leaf)
    \/ \E leaf \in Leaf : NestedCommand(leaf)
    \/ \E kind \in Kinds : CallBegin(kind)
    \/ CallEnd
    \/ \E k \in Keys : TimePasses(k)
    \/ \E k \in Keys : activeExpireCycleTryExpire(k)
    \/ GateChanges

Spec == Init /\ [][Next]_vars

-----------------------------------------------------------------------------
(* Properties. *)

\* What a replica, or the AOF loader, does with one operation of a stream.
Apply(v, op) ==
    CASE op.cmd \in {"INCR", "FLUSHALL"} -> ValAfter(v, op)
      [] op.cmd = "DEL" -> [v EXCEPT ![op.key] = 0]
      [] op.cmd \in {"RAIN.FALL", "MODV"} -> FoldLeft(ValAfter, v, op.body)
      [] OTHER -> v

\* loadSingleAppendOnlyFile and the replication link revert an unfinished MULTI.
Complete(s) ==
    LET multis == {i \in DOMAIN s : s[i].cmd = "MULTI"}
        open == {i \in multis : \A j \in i..Len(s) : s[j].cmd # "EXEC"}
    IN  IF open = {} THEN s ELSE SubSeq(s, 1, Min(open) - 1)

Replay(s) == FoldLeft(Apply, [k \in Keys |-> 0], Complete(s))

\* A replica that has consumed its stream, and a server restarted from the
\* complete AOF, hold the same data as this server: every change call() made
\* was propagated exactly once, in order, whatever the nesting, the prevent
\* and force flags and replication_allowed did (redis.conf: "exact copy").
StreamsReplayToData ==
    stack = <<>> => Replay(aof) = val /\ Replay(repl) = val

\* Wherever the AOF or the link is cut, what is recovered is the data set as it
\* was at the end of some execution unit, never the middle of one. Keys whose
\* TTL has passed may be there or not.
CutStreamIsBoundary ==
    \A s \in {aof, repl} : \A n \in 0..Len(s) :
        LET r == Replay(SubSeq(s, 1, n))
        IN  \E b \in boundaries : \A k \in Keys :
                r[k] = b[1][k] \/ (k \in b[2] /\ r[k] = 0)

\* A message published here is published once on every replica, and never
\* written to the AOF: forceCommandPropagation(PROPAGATE_REPL) of PUBLISH, also
\* when it runs in a transaction, in a script or in a module.
PublishedOncePerReplica ==
    LET count(s) == FoldLeft(LAMBDA n, op: n
                        + (IF op.cmd = "PUBLISH" THEN 1 ELSE 0)
                        + Len(SelectSeq(op.body, LAMBDA l: l.cmd = "PUBLISH")), 0, s)
    IN  /\ stack = <<>> => count(repl) = published
        /\ \A i \in DOMAIN aof : aof[i].cmd # "PUBLISH"

\* While processCommand refuses write commands (read-only replica, out of
\* memory, disk error, too few replicas), no command a client sends changes
\* the data set, directly or through a transaction, a script or a module.
NoWriteWhileDenied == ~denied_write
=============================================================================
