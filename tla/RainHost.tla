----------------------------- MODULE RainHost -----------------------------
(***************************************************************************)
(* The Rain-Call host: RAIN.FALL (src/rainfall.c), the in-process backend  *)
(* of RAIN.CALL (src/raincall_inprocess.c) and the library that owns       *)
(* RAIN.CALL, RAIN.CONNECT, the backends and their states                  *)
(* (utils/raincall/raincall.c), inside the server or, standalone, in a     *)
(* Moonquakes process that loaded the library.                             *)
(*                                                                         *)
(* One thread runs everything: the stack is the C stack of the RAIN.FALLs  *)
(* in progress and of the module commands their RAIN.CALLs run, which may  *)
(* RM_Call RAIN.FALL again.  A script is any sequence of RAIN.CALLs and    *)
(* RAIN.CONNECTs; it may catch the errors they raise or not.               *)
(***************************************************************************)
EXTENDS Naturals, Sequences

CONSTANTS
    Clients,    \* clients that send RAIN.FALL
    Temp,       \* the temporary client of RM_Call, with no ACL user
    Null,       \* the C null pointer
    InProcess,  \* rainfall_raincall_state, with the in-process backend
    Tcp,        \* raincall_States with a TCP backend, each opened once
    Ops,        \* subset of {"CALL", "CONNECT", "MODULE"}: what scripts do
    Hosts,      \* subset of {"self", "other"}: where RAIN.CONNECT may go
    Filters,    \* module command filters: pairs <<name, renamed to>>
    NoPerm,     \* pairs <<client, command>> that the ACL denies
    Standalone, \* subset of BOOLEAN: the values standalone may have
    MaxCalls    \* bound: operations of a script and of the RAIN.FALLs nested in it

(* Commands, by how the in-process backend treats them: a read or write     *)
(* command, one of the deny list with no forbidden flag, one with a         *)
(* forbidden flag that the list does not name, one with both, one that does *)
(* not exist, and a module command.                                         *)
Commands == {"GET", "SELECT", "BLMOVE", "EVAL", "NOSUCH", "MOD.CMD"}
DenyList == {"SELECT", "EVAL"}
Flagged == {"BLMOVE", "EVAL"}

ASSUME RainHostAssumption ==
    /\ Temp \notin Clients /\ Null \notin Clients \cup {Temp}
    /\ Null \notin Tcp /\ InProcess \notin Tcp /\ Null # InProcess
    /\ Ops \subseteq {"CALL", "CONNECT", "MODULE"}
    /\ Hosts \subseteq {"self", "other"}
    /\ Filters \subseteq Commands \X Commands
    /\ NoPerm \subseteq Clients \X Commands
    /\ Standalone \subseteq BOOLEAN
    /\ MaxCalls \in Nat

VARIABLES
    standalone,      \* this is a Moonquakes process, not the server; never changes
    rainfall_state,  \* rainfall_state # NULL
    rainfall_backend,\* rainfall_backend # NULL
    caller,          \* rainfall_backend->caller
    default_state, installed_state,
    opened,          \* TCP states opened so far (raincall_open)
    closed,          \* TCP states closed and freed (raincall_close)
    host,            \* the server each opened TCP state is connected to
    broken,          \* TCP states whose connection has failed
    stack,           \* RAIN.FALLs and module commands in progress
    \* History:
    calls,           \* operations since the outermost RAIN.FALL began
    ran              \* <<client of the RAIN.FALL, client run for, command>>

states == <<default_state, installed_state, opened, closed, host, broken>>
vars == <<standalone, rainfall_state, rainfall_backend, caller, states, stack, calls, ran>>

Callers == Clients \cup {Temp}

\* A RAIN.FALL in progress, waiting for the reply of a TCP state or Null.
Fall(c, w) == [kind |-> "FALL", client |-> c, waits |-> w]
\* A module command run by a RAIN.CALL.
Module(c) == [kind |-> "MODULE", client |-> c, waits |-> Null]

Top == stack[Len(stack)]
Below == [i \in 1..(Len(stack) - 1) |-> stack[i]]

\* A script is running and is not inside a RAIN.CALL.
InLua == stack # <<>> /\ Top.kind = "FALL" /\ Top.waits = Null

Open == opened \ closed

-----------------------------------------------------------------------------
(* utils/raincall/raincall.c: the states. *)

\* raincall_open succeeds: the connection is made. Opening a state of the
\* server itself succeeds too, the kernel accepts for it.
raincall_open(s, h) ==
    /\ s \in Tcp \ opened
    /\ opened' = opened \cup {s}
    /\ host' = [host EXCEPT ![s] = h]

\* raincall_get_state when a state is there, or cannot be opened.
raincall_get_state ==
    IF installed_state # Null THEN installed_state ELSE default_state

\* raincall_install_state.
raincall_install_state(s) == installed_state' = s

-----------------------------------------------------------------------------
(* rainFallCommand. *)

Init ==
    /\ standalone \in Standalone
    /\ rainfall_state = FALSE /\ rainfall_backend = FALSE /\ caller = Null
    /\ default_state = Null /\ installed_state = Null
    /\ opened = {} /\ closed = {} /\ broken = {}
    /\ host = [s \in Tcp |-> "other"]
    /\ stack = IF standalone THEN <<Fall(Null, Null)>> ELSE <<>>
    /\ calls = 0 /\ ran = {}

\* Who may start a RAIN.FALL: a client, or a module that a client called,
\* when no script runs; a module command that a script called.
MayFall(c) ==
    /\ ~standalone
    /\ stack # <<>> => c = Temp /\ Top.kind = "MODULE" /\ calls < MaxCalls

\* Mutant: the in-process state is made and not installed.
rainFallGetState_notInstalled ==
    /\ rainfall_state' = TRUE /\ rainfall_backend' = TRUE
    /\ UNCHANGED installed_state

\* rainFallGetState: an existing state, or a new one that gets installed.
rainFallGetState ==
    /\ rainfall_state' = TRUE /\ rainfall_backend' = TRUE
    /\ IF rainfall_state THEN UNCHANGED installed_state
       ELSE raincall_install_state(InProcess)

\* mq_newstate or raincall_open_backend fails; the second leaves the backend it
\* was given. The client gets an error, and the next RAIN.FALL tries again.
FallWithoutState(c) ==
    /\ MayFall(c) /\ ~rainfall_state
    /\ rainfall_backend' \in {rainfall_backend, TRUE}
    /\ UNCHANGED <<standalone, rainfall_state, caller, states, stack, calls, ran>>

\* The source does not load: the caller is set, then reset.
FallNotLoaded(c) ==
    /\ MayFall(c)
    /\ rainFallGetState
    /\ caller' = Null
    /\ calls' = IF stack = <<>> THEN 0 ELSE calls + 1
    /\ UNCHANGED <<standalone, default_state, opened, closed, host, broken, stack, ran>>

\* rainFallCommand up to mq_pcall.
FallBegin(c) ==
    /\ MayFall(c)
    /\ rainFallGetState
    /\ caller' = c
    /\ stack' = Append(stack, Fall(c, Null))
    /\ calls' = IF stack = <<>> THEN 0 ELSE calls + 1
    /\ UNCHANGED <<standalone, default_state, opened, closed, host, broken, ran>>

\* Mutant: the error path returns without resetting the caller.
FallEnd_keepsCaller ==
    /\ InLua /\ ~standalone
    /\ caller' \in {caller, Null}
    /\ stack' = Below
    /\ UNCHANGED <<standalone, rainfall_state, rainfall_backend, states, calls, ran>>

\* The script returned or raised: reply, settop, set_caller(NULL).
FallEnd ==
    /\ InLua /\ ~standalone
    /\ caller' = Null
    /\ stack' = Below
    /\ UNCHANGED <<standalone, rainfall_state, rainfall_backend, states, calls, ran>>

\* The script of a Moonquakes process ends, and the process with it.
ProcessEnd ==
    /\ InLua /\ standalone
    /\ stack' = Below
    /\ UNCHANGED <<standalone, rainfall_state, rainfall_backend, caller, states, calls, ran>>

-----------------------------------------------------------------------------
(* rain_call. *)

Operation(op) ==
    /\ InLua /\ op \in Ops /\ calls < MaxCalls
    /\ calls' = calls + 1

\* moduleCallCommandFilters may rename the command.
Renamed(cmd) == {cmd} \cup {r \in Commands : <<cmd, r>> \in Filters}

\* Mutant: the flags of the command that will run are not checked.
Runs_unflagged(cmd, run) ==
    /\ caller # Null
    /\ cmd \notin DenyList
    /\ run \in Renamed(cmd) /\ run # "NOSUCH"
    /\ <<caller, run>> \notin NoPerm

\* raincall_inprocess_call: the command it was asked for, cmd, passes every
\* check up to call(), which runs the command the filters made of it.
Runs(cmd, run) ==
    /\ caller # Null
    /\ cmd \notin DenyList
    /\ run \in Renamed(cmd) /\ run # "NOSUCH"
    /\ run \notin Flagged
    /\ <<caller, run>> \notin NoPerm

\* A check fails: RAIN.CALL raises an error.
CallRefused(cmd) ==
    /\ Operation("CALL")
    /\ raincall_get_state = InProcess
    /\ \E run \in Renamed(cmd) : ~Runs(cmd, run)
    /\ UNCHANGED <<standalone, rainfall_state, rainfall_backend, caller, states, stack, ran>>

\* The command runs on an isolated client, which is freed.
CallInProcess(cmd, run) ==
    /\ Operation("CALL")
    /\ raincall_get_state = InProcess
    /\ Runs(cmd, run) /\ run # "MOD.CMD"
    /\ ran' = ran \cup {<<Top.client, caller, run>>}
    /\ UNCHANGED <<standalone, rainfall_state, rainfall_backend, caller, states, stack>>

\* The command is a module's; ModuleFall and ModuleEnd run it.
CallModule(cmd) ==
    /\ Operation("CALL") /\ "MODULE" \in Ops
    /\ raincall_get_state = InProcess
    /\ Runs(cmd, "MOD.CMD")
    /\ ran' = ran \cup {<<Top.client, caller, "MOD.CMD">>}
    /\ stack' = Append(stack, Module(Top.client))
    /\ UNCHANGED <<standalone, rainfall_state, rainfall_backend, caller, states>>

ModuleEnd ==
    /\ stack # <<>> /\ Top.kind = "MODULE"
    /\ stack' = Below
    /\ UNCHANGED <<standalone, rainfall_state, rainfall_backend, caller, states, calls, ran>>

\* No state is installed and 127.0.0.1:6379 cannot be reached.
CallNotConnected ==
    /\ Operation("CALL")
    /\ raincall_get_state = Null
    /\ UNCHANGED <<standalone, rainfall_state, rainfall_backend, caller, states, stack, ran>>

\* No state is installed: raincall_get_state opens the default one, and
\* redisCommandArgv waits for the reply of its server.
CallOpensDefault(s) ==
    /\ Operation("CALL")
    /\ raincall_get_state = Null
    /\ raincall_open(s, IF standalone THEN "other" ELSE "self")
    /\ default_state' = s
    /\ stack' = Append(Below, Fall(Top.client, s))
    /\ UNCHANGED <<standalone, rainfall_state, rainfall_backend, caller, installed_state, closed, broken, ran>>

\* The state has a TCP backend: an error if its connection has failed before,
\* otherwise the command is sent and the thread waits.
CallTcp ==
    /\ Operation("CALL")
    /\ raincall_get_state \in Tcp
    /\ stack' = IF raincall_get_state \in broken THEN stack
                ELSE Append(Below, Fall(Top.client, raincall_get_state))
    /\ UNCHANGED <<standalone, rainfall_state, rainfall_backend, caller, states, ran>>

Waiting == stack # <<>> /\ Top.waits # Null

\* The other server replies, or the connection fails. This server cannot reply
\* to itself: its only thread is the one that waits.
TcpReply ==
    /\ Waiting /\ host[Top.waits] = "other"
    /\ stack' = Append(Below, Fall(Top.client, Null))
    /\ UNCHANGED <<standalone, rainfall_state, rainfall_backend, caller, states, calls, ran>>

TcpFails ==
    /\ Waiting /\ host[Top.waits] = "other"
    /\ broken' = broken \cup {Top.waits}
    /\ stack' = Append(Below, Fall(Top.client, Null))
    /\ UNCHANGED <<standalone, rainfall_state, rainfall_backend, caller, default_state, installed_state,
                   opened, closed, host, calls, ran>>

-----------------------------------------------------------------------------
(* rain_connect and raincall_install. *)

ConnectFails ==
    /\ Operation("CONNECT")
    /\ UNCHANGED <<standalone, rainfall_state, rainfall_backend, caller, states, stack, ran>>

\* Mutant: only the default state is replaced.
Connect_keepsInstalled(s, h) ==
    /\ Operation("CONNECT")
    /\ raincall_open(s, h)
    /\ closed' = closed \cup ({default_state} \ {Null})
    /\ default_state' = s
    /\ UNCHANGED <<standalone, rainfall_state, rainfall_backend, caller, installed_state, broken, stack, ran>>

\* The old default state is closed; the new one is default and installed.
Connect(s, h) ==
    /\ Operation("CONNECT")
    /\ raincall_open(s, h)
    /\ closed' = closed \cup ({default_state} \ {Null})
    /\ default_state' = s
    /\ installed_state' = s
    /\ UNCHANGED <<standalone, rainfall_state, rainfall_backend, caller, broken, stack, ran>>

\* A Moonquakes process loads the library, once or again.
Install ==
    /\ standalone /\ InLua
    /\ raincall_install_state(default_state)
    /\ UNCHANGED <<standalone, rainfall_state, rainfall_backend, caller, default_state, opened, closed, host,
                   broken, stack, calls, ran>>

Next ==
    \/ \E c \in Callers : FallWithoutState(c) \/ FallNotLoaded(c) \/ FallBegin(c)
    \/ FallEnd \/ ModuleEnd \/ ProcessEnd
    \/ \E cmd \in Commands : CallRefused(cmd) \/ CallModule(cmd)
    \/ \E cmd, run \in Commands : CallInProcess(cmd, run)
    \/ CallNotConnected \/ CallTcp \/ TcpReply \/ TcpFails \/ ConnectFails
    \/ \E s \in Tcp : CallOpensDefault(s) \/ \E h \in Hosts : Connect(s, h)
    \/ Install

Spec == Init /\ [][Next]_vars

\* The thread goes on: a script that is running ends, a module command that is
\* running ends. Another server answers, or the connection to it fails: the
\* library sets no timeout, so for this the server relies on its peer and on TCP.
FairSpec ==
    /\ Spec
    /\ WF_vars(FallEnd \/ ModuleEnd)
    /\ WF_vars(TcpReply \/ TcpFails)

-----------------------------------------------------------------------------
(* Properties. *)

Frames == [kind : {"FALL", "MODULE"}, client : Callers \cup {Null},
           waits : Tcp \cup {Null}]

\* Types, and: once rainFallGetState has succeeded some state is installed.
TypeOK ==
    /\ standalone \in BOOLEAN
    /\ rainfall_state \in BOOLEAN /\ rainfall_backend \in BOOLEAN
    /\ caller \in Callers \cup {Null}
    /\ default_state \in Tcp \cup {Null}
    /\ installed_state \in Tcp \cup {Null, InProcess}
    /\ rainfall_state => installed_state # Null
    /\ opened \in SUBSET Tcp /\ closed \in SUBSET Tcp /\ broken \in SUBSET Tcp
    /\ host \in [Tcp -> {"self", "other"}]
    /\ stack \in Seq(Frames)
    /\ calls \in Nat
    /\ ran \in SUBSET ((Callers \cup {Null}) \X (Callers \cup {Null}) \X Commands)

\* rain_connect closes and frees the old default state while installed_state,
\* and a RAIN.CALL in progress, may point to it: none of them is ever left
\* with a state that was closed.
StatesInUseAreOpen ==
    /\ {default_state, installed_state} \ {Null, InProcess} \subseteq Open
    /\ \A i \in 1..Len(stack) : stack[i].waits # Null => stack[i].waits \in Open

\* The in-process backend holds a pointer to a client. That client is executing
\* a RAIN.FALL of the stack, so the server cannot have freed it.
CallerIsRunning ==
    caller # Null =>
        \E i \in 1..Len(stack) : stack[i].kind = "FALL" /\ stack[i].client = caller

\* Every command a script runs in process runs with the ACL user of the client
\* whose RAIN.FALL it is, which the ACL allows it, and has none of the flags
\* the backend refuses, whatever module filters and nested RAIN.FALLs did.
RunsAsItsCaller ==
    \A r \in ran : /\ r[1] = r[2]
                   /\ <<r[1], r[3]>> \notin NoPerm
                   /\ r[3] \notin Flagged

\* While a script runs, RAIN.CALL can call back into the server for the client
\* that sent it.
CallerKept == InLua /\ ~standalone => caller = Top.client

\* Every RAIN.FALL of the server returns to its event loop, if no script connects
\* the server to itself (Hosts): RAIN.CALL uses the in-process backend until a
\* script asks for another one, so the thread never waits on the connection to
\* 127.0.0.1:6379 that raincall_get_state opens by itself, where the only one to
\* answer is this thread.
FallReturns == ~standalone /\ stack # <<>> ~> stack = <<>>
=============================================================================
