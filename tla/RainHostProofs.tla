-------------------------- MODULE RainHostProofs --------------------------
(***************************************************************************)
(* Proofs about RainHost, for any clients, states, filters and ACL rules,  *)
(* any depth of nesting and any number of operations.                      *)
(***************************************************************************)
EXTENDS RainHost, TLAPS

(* The inductive invariant. *)

\* The installed state is never a TCP state other than the default one, and
\* the default one is open.
StatesInv ==
    /\ closed \subseteq opened
    /\ default_state # Null => default_state \in Open
    /\ installed_state \in {Null, InProcess, default_state}

\* Only the innermost RAIN.FALL waits, for a state that is open.
WaitsInv ==
    \A i \in 1..Len(stack) : stack[i].waits # Null =>
        i = Len(stack) /\ stack[i].kind = "FALL" /\ stack[i].waits \in Open

\* A module command runs right above the RAIN.FALL that called it.
NestingInv ==
    \A i \in 1..Len(stack) : stack[i].kind = "MODULE" =>
        i > 1 /\ stack[i-1].kind = "FALL" /\ stack[i-1].client = stack[i].client

\* The backend's caller, if any, is the client of the innermost RAIN.FALL.
CallerInv == caller # Null => stack # <<>> /\ Top.client = caller

StandaloneInv == standalone => ~rainfall_state /\ caller = Null

IInv ==
    /\ TypeOK /\ StatesInv /\ WaitsInv /\ NestingInv /\ CallerInv
    /\ StandaloneInv /\ RunsAsItsCaller

-----------------------------------------------------------------------------
(* What the three ways to change the stack do. *)

\* Returning from the innermost call leaves the others as they are.
LEMMA PopFacts ==
    ASSUME stack \in Seq(Frames), stack # <<>>
    PROVE  /\ Below \in Seq(Frames) /\ Len(Below) = Len(stack) - 1
           /\ \A i \in 1..Len(Below) : Below[i] = stack[i]
           /\ Len(stack) \in Nat /\ Len(stack) > 0
           /\ Top \in Frames
  <1>1. Len(stack) \in Nat /\ Len(stack) > 0
    OBVIOUS
  <1>2. Top \in Frames
    BY <1>1 DEF Top
  <1>3. Below \in Seq(Frames)
    BY <1>1 DEF Below
  <1>4. Len(Below) = Len(stack) - 1
    BY <1>1 DEF Below
  <1>5. \A i \in 1..Len(Below) : Below[i] = stack[i]
    BY <1>1, <1>4, Zenon DEF Below
  <1> QED BY <1>1, <1>2, <1>3, <1>4, <1>5, Zenon

\* Calling adds one call on top.
LEMMA PushFacts ==
    ASSUME stack \in Seq(Frames), NEW f \in Frames
    PROVE  /\ Append(stack, f) \in Seq(Frames)
           /\ Len(Append(stack, f)) = Len(stack) + 1
           /\ \A i \in 1..Len(stack) : Append(stack, f)[i] = stack[i]
           /\ Append(stack, f)[Len(stack) + 1] = f
           /\ Len(stack) \in Nat
  OBVIOUS

\* Waiting, and being answered, changes the innermost call only.
LEMMA ReplaceFacts ==
    ASSUME stack \in Seq(Frames), stack # <<>>, NEW f \in Frames
    PROVE  /\ Append(Below, f) \in Seq(Frames)
           /\ Len(Append(Below, f)) = Len(stack)
           /\ \A i \in 1..(Len(stack) - 1) : Append(Below, f)[i] = stack[i]
           /\ Append(Below, f)[Len(stack)] = f
           /\ Len(stack) \in Nat /\ Len(stack) > 0
  <1>1. /\ Below \in Seq(Frames) /\ Len(Below) = Len(stack) - 1
        /\ \A i \in 1..Len(Below) : Below[i] = stack[i]
        /\ Len(stack) \in Nat /\ Len(stack) > 0
    BY PopFacts, Zenon
  <1> HIDE DEF Below
  <1> QED BY <1>1

-----------------------------------------------------------------------------
\* The invariant says what the properties of the runs say.
LEMMA IInvImplies ==
    IInv => TypeOK /\ StatesInUseAreOpen /\ CallerIsRunning /\ RunsAsItsCaller
  <1> SUFFICES ASSUME IInv PROVE StatesInUseAreOpen /\ CallerIsRunning
    BY Zenon DEF IInv
  <1> USE DEF IInv
  <1>1. StatesInUseAreOpen
    BY Zenon DEF StatesInUseAreOpen, StatesInv, WaitsInv
  <1>2. CallerIsRunning
    <2> SUFFICES ASSUME caller # Null
                 PROVE  \E i \in 1..Len(stack) :
                            stack[i].kind = "FALL" /\ stack[i].client = caller
      BY Zenon DEF CallerIsRunning
    <2>1. /\ stack # <<>> /\ Top.client = caller
          /\ Len(stack) \in Nat /\ Len(stack) > 0 /\ Top \in Frames
      BY PopFacts, Zenon DEF CallerInv, TypeOK
    <2>2. CASE Top.kind = "FALL"
      BY <2>1, <2>2 DEF Top
    <2>3. CASE Top.kind = "MODULE"
      <3>1. /\ Len(stack) > 1 /\ stack[Len(stack) - 1].kind = "FALL"
            /\ stack[Len(stack) - 1].client = caller
        BY <2>1, <2>3 DEF NestingInv, Top
      <3> QED BY <2>1, <3>1
    <2> QED BY <2>1, <2>2, <2>3, Zenon DEF Frames
  <1> QED BY <1>1, <1>2, Zenon

\* It holds when the server, or the Moonquakes process, starts.
LEMMA InitIInv == Init => IInv
  <1> SUFFICES ASSUME Init PROVE IInv
    BY Zenon
  <1> USE RainHostAssumption DEF Init
  <1>1. Fall(Null, Null) \in Frames
    BY Zenon DEF Fall, Frames, Callers
  <1>2. stack \in Seq(Frames) /\ Len(stack) \in {0, 1}
    BY <1>1
  <1>3. \A i \in 1..Len(stack) : stack[i] = Fall(Null, Null)
    BY <1>1
  <1>4. TypeOK
    BY <1>2, Zenon DEF TypeOK, Callers
  <1>5. WaitsInv /\ NestingInv
    BY <1>2, <1>3 DEF WaitsInv, NestingInv, Fall
  <1> QED BY <1>4, <1>5, Zenon DEF IInv, StatesInv, CallerInv, StandaloneInv, RunsAsItsCaller

-----------------------------------------------------------------------------
(* What the three ways to change the stack keep of the invariant. *)

\* A call on top of a stack that does not wait.
LEMMA PushInv ==
    ASSUME IInv, NEW f \in Frames, f.waits = Null, stack' = Append(stack, f),
           stack # <<>> => Top.waits = Null,
           f.kind = "MODULE" => /\ stack # <<>> /\ Top.kind = "FALL"
                                /\ Top.client = f.client
    PROVE  /\ stack' \in Seq(Frames) /\ WaitsInv' /\ NestingInv'
           /\ stack' # <<>> /\ Top' = f
  <1>1. /\ stack' \in Seq(Frames) /\ Len(stack') = Len(stack) + 1
        /\ \A i \in 1..Len(stack) : stack'[i] = stack[i]
        /\ stack'[Len(stack) + 1] = f /\ Len(stack) \in Nat
    BY PushFacts, Zenon DEF IInv, TypeOK
  <1>2. stack' # <<>> /\ Top' = f
    BY <1>1 DEF Top
  <1>3. \A i \in 1..Len(stack) : stack[i].waits = Null
    <2> TAKE i \in 1..Len(stack)
    <2>1. stack[i].waits # Null => i = Len(stack)
      BY Zenon DEF IInv, WaitsInv
    <2>2. stack # <<>>
      BY <1>1
    <2> QED BY <2>1, <2>2, Zenon DEF Top
  <1>4. WaitsInv'
    BY <1>1, <1>3 DEF WaitsInv
  <1>5. ASSUME NEW i \in 1..Len(stack'), stack'[i].kind = "MODULE"
        PROVE  /\ i > 1 /\ stack'[i-1].kind = "FALL"
               /\ stack'[i-1].client = stack'[i].client
    <2>1. CASE i \in 1..Len(stack)
      <3>1. i > 1 /\ stack[i-1].kind = "FALL" /\ stack[i-1].client = stack[i].client
        BY <1>1, <1>5, <2>1, Zenon DEF IInv, NestingInv
      <3>2. i - 1 \in 1..Len(stack)
        BY <1>1, <2>1, <3>1
      <3> QED BY <1>1, <2>1, <3>1, <3>2, Zenon
    <2>2. CASE i = Len(stack) + 1
      <3>1. stack # <<>> /\ Top.kind = "FALL" /\ Top.client = f.client
        BY <1>1, <1>5, <2>2, Zenon
      <3>2. Len(stack) > 0
        BY <3>1, PopFacts, Zenon DEF IInv, TypeOK
      <3> QED BY <1>1, <2>2, <3>1, <3>2 DEF Top
    <2> QED BY <1>1, <2>1, <2>2
  <1>6. NestingInv'
    BY <1>5, Zenon DEF NestingInv
  <1> QED BY <1>1, <1>2, <1>4, <1>6, Zenon

\* A return.
LEMMA PopInv ==
    ASSUME IInv, stack # <<>>, stack' = Below
    PROVE  /\ stack' \in Seq(Frames) /\ WaitsInv' /\ NestingInv'
           /\ Top.kind = "MODULE" => stack' # <<>> /\ Top'.client = Top.client
  <1>1. /\ stack' \in Seq(Frames) /\ Len(stack') = Len(stack) - 1
        /\ \A i \in 1..Len(stack') : stack'[i] = stack[i]
        /\ Len(stack) \in Nat /\ Len(stack) > 0
    BY PopFacts, Zenon DEF IInv, TypeOK
  <1>2. \A i \in 1..Len(stack') : i \in 1..Len(stack) /\ i # Len(stack)
    BY <1>1
  <1>3. WaitsInv'
    BY <1>1, <1>2, Zenon DEF IInv, WaitsInv
  <1>4. NestingInv'
    BY <1>1, <1>2 DEF IInv, NestingInv
  <1>5. ASSUME Top.kind = "MODULE"
        PROVE  stack' # <<>> /\ Top'.client = Top.client
    <2>1. Len(stack) > 1 /\ stack[Len(stack) - 1].client = Top.client
      BY <1>1, <1>5 DEF IInv, NestingInv, Top
    <2> QED BY <1>1, <2>1 DEF Top
  <1> QED BY <1>1, <1>3, <1>4, <1>5, Zenon

\* The innermost RAIN.FALL starts or stops waiting.
LEMMA ReplaceInv ==
    ASSUME IInv, stack # <<>>, Top.kind = "FALL", NEW w \in Tcp \cup {Null},
           w # Null => w \in Open',
           stack' = Append(Below, Fall(Top.client, w))
    PROVE  /\ stack' \in Seq(Frames) /\ WaitsInv' /\ NestingInv'
           /\ stack' # <<>> /\ Top'.client = Top.client
  <1> DEFINE f == Fall(Top.client, w)
  <1>1. /\ f \in Frames /\ f.waits = w /\ f.kind = "FALL"
        /\ f.client = Top.client
    BY PopFacts, Zenon DEF IInv, TypeOK, Frames, Fall
  <1> HIDE DEF f
  <1>2. /\ stack' \in Seq(Frames) /\ Len(stack') = Len(stack)
        /\ \A i \in 1..(Len(stack) - 1) : stack'[i] = stack[i]
        /\ stack'[Len(stack)] = f
        /\ Len(stack) \in Nat /\ Len(stack) > 0
    <2>1. stack' = Append(Below, f)
      BY Zenon DEF f
    <2> QED BY <1>1, <2>1, ReplaceFacts DEF IInv, TypeOK
  <1>3. stack' # <<>> /\ Top'.client = Top.client
    BY <1>1, <1>2 DEF Top
  <1>4. WaitsInv'
    BY <1>1, <1>2 DEF IInv, WaitsInv
  <1>5. ASSUME NEW i \in 1..Len(stack'), stack'[i].kind = "MODULE"
        PROVE  /\ i > 1 /\ stack'[i-1].kind = "FALL"
               /\ stack'[i-1].client = stack'[i].client
    <2>1. i \in 1..(Len(stack) - 1) /\ stack[i].kind = "MODULE"
      BY <1>1, <1>2, <1>5
    <2>2. i > 1 /\ stack[i-1].kind = "FALL" /\ stack[i-1].client = stack[i].client
      BY <1>2, <2>1, Zenon DEF IInv, NestingInv
    <2> QED BY <1>2, <2>1, <2>2
  <1>6. NestingInv'
    BY <1>5, Zenon DEF NestingInv
  <1> QED BY <1>2, <1>3, <1>4, <1>6, Zenon

-----------------------------------------------------------------------------
\* Every step of the host keeps the invariant.
LEMMA NextIInv == IInv /\ [Next]_vars => IInv'
  <1> SUFFICES ASSUME IInv, [Next]_vars PROVE IInv'
    BY Zenon
  <1> USE RainHostAssumption
  <1>t. /\ stack \in Seq(Frames)
        /\ stack # <<>> => Top \in Frames /\ Top.client \in Callers \cup {Null}
    BY PopFacts, Zenon DEF IInv, TypeOK, Frames
  <1>s. ASSUME UNCHANGED stack, Open' = Open
        PROVE  WaitsInv' /\ NestingInv' /\ stack' \in Seq(Frames)
    BY <1>s, <1>t, Zenon DEF IInv, WaitsInv, NestingInv
  <1>o. UNCHANGED states => Open' = Open /\ StatesInv'
    BY Zenon DEF states, Open, IInv, StatesInv
  <1>1. ASSUME NEW c \in Callers, FallWithoutState(c) PROVE IInv'
    <2>1. WaitsInv' /\ NestingInv' /\ StatesInv' /\ stack' \in Seq(Frames)
      BY <1>1, <1>s, <1>o, Zenon DEF FallWithoutState
    <2> QED BY <1>1, <2>1, Zenon DEF FallWithoutState, IInv, TypeOK, CallerInv, Top,
              StandaloneInv, RunsAsItsCaller, states
  <1>2. ASSUME NEW c \in Callers, FallNotLoaded(c) PROVE IInv'
    <2>1. WaitsInv' /\ NestingInv' /\ stack' \in Seq(Frames)
      BY <1>2, <1>s, Zenon DEF FallNotLoaded, Open
    <2>2. StatesInv' /\ CallerInv' /\ StandaloneInv' /\ RunsAsItsCaller'
      BY <1>2, Zenon DEF FallNotLoaded, rainFallGetState, raincall_install_state, MayFall,
                  IInv, StatesInv, Open, CallerInv, StandaloneInv, RunsAsItsCaller
    <2>3. TypeOK'
      BY <1>2, <2>1 DEF FallNotLoaded, rainFallGetState, raincall_install_state,
                        IInv, TypeOK
    <2> QED BY <2>1, <2>2, <2>3, Zenon DEF IInv
  <1>3. ASSUME NEW c \in Callers, FallBegin(c) PROVE IInv'
    <2>1. /\ Fall(c, Null) \in Frames /\ Fall(c, Null).waits = Null
          /\ Fall(c, Null).kind = "FALL" /\ Fall(c, Null).client = c
      BY Zenon DEF Fall, Frames
    <2>2. stack # <<>> => Top.waits = Null
      <3>1. stack # <<>> => Top.kind = "MODULE"
        BY <1>3, Zenon DEF FallBegin, MayFall
      <3>2. stack # <<>> => Len(stack) \in 1..Len(stack)
        BY <1>t, PopFacts
      <3> QED BY <3>1, <3>2, Zenon DEF IInv, WaitsInv, Top
    <2>3. /\ stack' \in Seq(Frames) /\ WaitsInv' /\ NestingInv'
          /\ stack' # <<>> /\ Top' = Fall(c, Null)
      BY <1>3, <2>1, <2>2, PushInv, Zenon DEF FallBegin
    <2>4. StatesInv' /\ CallerInv' /\ StandaloneInv' /\ RunsAsItsCaller'
      BY <1>3, <2>1, <2>3, Zenon DEF FallBegin, rainFallGetState, raincall_install_state,
             MayFall, IInv, StatesInv, Open, CallerInv, StandaloneInv, RunsAsItsCaller
    <2>5. TypeOK'
      BY <1>3, <2>3 DEF FallBegin, rainFallGetState, raincall_install_state,
                        IInv, TypeOK
    <2> QED BY <2>3, <2>4, <2>5, Zenon DEF IInv
  <1>4. CASE FallEnd
    <2>1. stack' \in Seq(Frames) /\ WaitsInv' /\ NestingInv'
      BY <1>4, PopInv, Zenon DEF FallEnd, InLua
    <2> QED BY <1>4, <2>1, <1>o, Zenon DEF FallEnd, IInv, TypeOK, CallerInv, StandaloneInv,
              RunsAsItsCaller, states
  <1>e. CASE ProcessEnd
    <2>1. stack' \in Seq(Frames) /\ WaitsInv' /\ NestingInv'
      BY <1>e, PopInv, Zenon DEF ProcessEnd, InLua
    <2> QED BY <1>e, <2>1, <1>o, Zenon DEF ProcessEnd, IInv, TypeOK, CallerInv,
              StandaloneInv, RunsAsItsCaller, states
  <1>5. CASE ModuleEnd
    <2>1. /\ stack' \in Seq(Frames) /\ WaitsInv' /\ NestingInv'
          /\ stack' # <<>> /\ Top'.client = Top.client
      BY <1>5, PopInv, Zenon DEF ModuleEnd
    <2> QED BY <1>5, <2>1, <1>o, Zenon DEF ModuleEnd, IInv, TypeOK, CallerInv, StandaloneInv,
              RunsAsItsCaller, states
  <1>6. ASSUME UNCHANGED <<standalone, rainfall_state, rainfall_backend, caller, states, stack, ran>>,
               calls' \in Nat
        PROVE  IInv'
    <2>1. WaitsInv' /\ NestingInv' /\ StatesInv' /\ stack' \in Seq(Frames)
      BY <1>6, <1>s, <1>o, Zenon
    <2> QED BY <1>6, <2>1, Zenon DEF IInv, TypeOK, CallerInv, Top, StandaloneInv,
              RunsAsItsCaller, states
  <1>7. ASSUME NEW cmd \in Commands, CallRefused(cmd) PROVE IInv'
    BY <1>6, <1>7 DEF CallRefused, Operation, IInv, TypeOK
  <1>8. CASE CallNotConnected
    BY <1>6, <1>8 DEF CallNotConnected, Operation, IInv, TypeOK
  <1>9. CASE ConnectFails
    BY <1>6, <1>9 DEF ConnectFails, Operation, IInv, TypeOK
  <1>r. ASSUME NEW cmd \in Commands, NEW run \in Commands, Runs(cmd, run), InLua,
               ran' = ran \cup {<<Top.client, caller, run>>}
        PROVE  /\ RunsAsItsCaller' /\ ran' \in SUBSET ((Callers \cup {Null}) \X
                                            (Callers \cup {Null}) \X Commands)
    <2>1. Top.client = caller /\ caller \in Callers
      BY <1>r, Zenon DEF Runs, IInv, CallerInv, TypeOK
    <2>2. ran' = ran \cup {<<caller, caller, run>>}
      BY <1>r, <2>1, Zenon
    <2> QED BY <1>r, <2>1, <2>2 DEF Runs, IInv, RunsAsItsCaller, TypeOK
  <1>10. ASSUME NEW cmd \in Commands, NEW run \in Commands, CallInProcess(cmd, run)
         PROVE  IInv'
    <2>1. WaitsInv' /\ NestingInv' /\ StatesInv' /\ stack' \in Seq(Frames)
      BY <1>10, <1>s, <1>o, Zenon DEF CallInProcess
    <2>2. RunsAsItsCaller' /\ ran' \in SUBSET ((Callers \cup {Null}) \X
                                            (Callers \cup {Null}) \X Commands)
      BY <1>10, <1>r, Zenon DEF CallInProcess, Operation
    <2> QED BY <1>10, <2>1, <2>2 DEF CallInProcess, Operation, IInv, TypeOK, CallerInv,
              Top, StandaloneInv, states
  <1>11. ASSUME NEW cmd \in Commands, CallModule(cmd) PROVE IInv'
    <2> DEFINE f == Module(Top.client)
    <2>1. stack # <<>> /\ Top.kind = "FALL" /\ Top.waits = Null
      BY <1>11, Zenon DEF CallModule, Operation, InLua
    <2>2. /\ f \in Frames /\ f.waits = Null /\ f.client = Top.client
      BY <1>t, <2>1, Zenon DEF Module, Frames
    <2> HIDE DEF f
    <2>3. /\ stack' \in Seq(Frames) /\ WaitsInv' /\ NestingInv'
          /\ stack' # <<>> /\ Top' = f
      <3>1. stack' = Append(stack, f)
        BY <1>11, Zenon DEF CallModule, f
      <3> QED BY <2>1, <2>2, <3>1, PushInv, Zenon
    <2>4. "MOD.CMD" \in Commands
      BY Zenon DEF Commands
    <2>5. RunsAsItsCaller' /\ ran' \in SUBSET ((Callers \cup {Null}) \X
                                            (Callers \cup {Null}) \X Commands)
      BY <1>11, <1>r, <2>4, Zenon DEF CallModule, Operation
    <2>6. CallerInv'
      BY <1>11, <2>2, <2>3, Zenon DEF CallModule, IInv, CallerInv
    <2> QED BY <1>11, <1>o, <2>3, <2>5, <2>6 DEF CallModule, Operation, IInv, TypeOK,
              StandaloneInv, states
  <1>w. ASSUME UNCHANGED <<standalone, rainfall_state, rainfall_backend, caller, ran>>,
               stack # <<>>, stack' # <<>>, Top'.client = Top.client
        PROVE  CallerInv' /\ StandaloneInv' /\ RunsAsItsCaller'
    BY <1>w, Zenon DEF IInv, CallerInv, StandaloneInv, RunsAsItsCaller
  <1>12. ASSUME NEW s \in Tcp, CallOpensDefault(s) PROVE IInv'
    <2>1. stack # <<>> /\ Top.kind = "FALL" /\ s \notin opened
      BY <1>12, Zenon DEF CallOpensDefault, Operation, InLua, raincall_open
    <2>2. s \in Open' /\ installed_state = Null /\ default_state = Null
      BY <1>12, <2>1, Zenon DEF CallOpensDefault, raincall_open, raincall_get_state, Open,
                   IInv, StatesInv
    <2>3. /\ stack' \in Seq(Frames) /\ WaitsInv' /\ NestingInv'
          /\ stack' # <<>> /\ Top'.client = Top.client
      BY <1>12, <2>1, <2>2, ReplaceInv, Zenon DEF CallOpensDefault
    <2>4. StatesInv'
      BY <1>12, <2>2, Zenon DEF CallOpensDefault, raincall_open, IInv, StatesInv, Open
    <2>5. TypeOK'
      BY <1>12, <2>3 DEF CallOpensDefault, raincall_open, Operation, IInv, TypeOK
    <2> QED BY <1>12, <1>w, <2>1, <2>3, <2>4, <2>5, Zenon DEF CallOpensDefault, IInv
  <1>13. CASE CallTcp
    <2>1. CASE raincall_get_state \in broken
      BY <1>6, <1>13, <2>1 DEF CallTcp, Operation, IInv, TypeOK
    <2>2. CASE raincall_get_state \notin broken
      <3> DEFINE s == raincall_get_state
      <3>1. stack # <<>> /\ Top.kind = "FALL" /\ s \in Tcp
        BY <1>13, Zenon DEF CallTcp, Operation, InLua
      <3>2. s = default_state /\ s \in Open
        BY <3>1, Zenon DEF raincall_get_state, IInv, StatesInv
      <3>3. Open' = Open /\ StatesInv'
        BY <1>13, <1>o, Zenon DEF CallTcp
      <3>4. stack' = Append(Below, Fall(Top.client, s))
        BY <1>13, <2>2, Zenon DEF CallTcp
      <3> HIDE DEF s
      <3>5. /\ stack' \in Seq(Frames) /\ WaitsInv' /\ NestingInv'
            /\ stack' # <<>> /\ Top'.client = Top.client
        BY <3>1, <3>2, <3>3, <3>4, ReplaceInv, Zenon
      <3>6. TypeOK'
        BY <1>13, <3>5 DEF CallTcp, Operation, IInv, TypeOK, states
      <3> QED BY <1>13, <1>w, <3>1, <3>3, <3>5, <3>6, Zenon DEF CallTcp, IInv
    <2> QED BY <2>1, <2>2, Zenon
  <1>14. CASE TcpReply \/ TcpFails
    <2>1. stack # <<>> /\ Top.waits # Null /\ Top.kind = "FALL"
      <3>1. stack # <<>> /\ Top.waits # Null
        BY <1>14, Zenon DEF TcpReply, TcpFails, Waiting
      <3>2. Len(stack) \in 1..Len(stack)
        BY <1>t, <3>1, PopFacts
      <3> QED BY <3>1, <3>2, Zenon DEF IInv, WaitsInv, Top
    <2>2. /\ stack' \in Seq(Frames) /\ WaitsInv' /\ NestingInv'
          /\ stack' # <<>> /\ Top'.client = Top.client
      BY <1>14, <2>1, ReplaceInv, Zenon DEF TcpReply, TcpFails
    <2>3. StatesInv'
      BY <1>14, Zenon DEF TcpReply, TcpFails, states, IInv, StatesInv, Open
    <2>4. TypeOK'
      <3>1. Top.waits \in Tcp
        BY <1>t, <2>1, Zenon DEF Frames
      <3> QED BY <1>14, <2>2, <3>1 DEF TcpReply, TcpFails, states, IInv, TypeOK
    <2> QED BY <1>14, <1>w, <2>1, <2>2, <2>3, <2>4, Zenon DEF TcpReply, TcpFails, IInv
  <1>15. ASSUME NEW s \in Tcp, NEW h \in Hosts, Connect(s, h) PROVE IInv'
    <2>1. \A i \in 1..Len(stack) : stack[i].waits = Null
      BY <1>15, Zenon DEF Connect, Operation, InLua, Top, IInv, WaitsInv
    <2>2. WaitsInv' /\ NestingInv' /\ stack' \in Seq(Frames)
      BY <1>15, <1>t, <2>1, Zenon DEF Connect, IInv, WaitsInv, NestingInv
    <2>3. StatesInv'
      BY <1>15, Zenon DEF Connect, raincall_open, IInv, StatesInv, Open
    <2>4. TypeOK'
      BY <1>15, <2>2 DEF Connect, raincall_open, Operation, IInv, TypeOK
    <2> QED BY <1>15, <2>2, <2>3, <2>4, Zenon DEF Connect, IInv, CallerInv, Top,
              StandaloneInv, RunsAsItsCaller
  <1>16. CASE Install
    <2>1. WaitsInv' /\ NestingInv' /\ stack' \in Seq(Frames)
      BY <1>16, <1>s, Zenon DEF Install, Open
    <2>2. StatesInv' /\ TypeOK'
      BY <1>16, <2>1, Zenon DEF Install, raincall_install_state, IInv, StatesInv, Open, TypeOK,
                   StandaloneInv
    <2> QED BY <1>16, <2>1, <2>2, Zenon DEF Install, IInv, CallerInv, Top, StandaloneInv,
              RunsAsItsCaller
  <1>17. CASE UNCHANGED vars
    BY <1>6, <1>17, Zenon DEF vars, IInv, TypeOK
  <1> QED
    BY <1>1, <1>2, <1>3, <1>4, <1>5, <1>e, <1>7, <1>8, <1>9, <1>10, <1>11, <1>12, <1>13,
       <1>14, <1>15, <1>16, <1>17, Zenon DEF Next

-----------------------------------------------------------------------------
\* The invariant holds of every state that RAIN.CALL, RAIN.CONNECT and RAIN.FALL
\* reach.
LEMMA HostInvariant == Spec => []IInv
  <1>1. Init => IInv
    BY InitIInv, Zenon
  <1>2. IInv /\ [Next]_vars => IInv'
    BY NextIInv, Zenon
  <1> QED BY <1>1, <1>2, PTL DEF Spec

\* In the server and in a Moonquakes process, however RAIN.FALLs nest and
\* RAIN.CONNECTs replace states: no pointer to a closed state is kept
\* (rain_connect, raincall_install_state).
THEOREM NoStateAfterClose == Spec => [](TypeOK /\ StatesInUseAreOpen)
  <1>1. IInv => TypeOK /\ StatesInUseAreOpen
    BY IInvImplies, Zenon
  <1> QED BY <1>1, HostInvariant, PTL

\* The backend's caller is a client that is executing a RAIN.FALL, also after
\* a nested one has returned or has failed (rainFallCommand).
THEOREM CallerIsOnTheStack == Spec => []CallerIsRunning
  <1>1. IInv => CallerIsRunning
    BY IInvImplies, Zenon
  <1> QED BY <1>1, HostInvariant, PTL

\* Every command that a RAIN.CALL runs in process is one that the client whose
\* RAIN.FALL it is may run (raincall_inprocess_call).
THEOREM CallsHaveTheRightsOfTheirClient == Spec => []RunsAsItsCaller
  <1>1. IInv => RunsAsItsCaller
    BY IInvImplies, Zenon
  <1> QED BY <1>1, HostInvariant, PTL
=============================================================================
