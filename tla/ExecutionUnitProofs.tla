------------------------ MODULE ExecutionUnitProofs ------------------------
(***************************************************************************)
(* Proofs about ExecutionUnit: what the write gates of processCommand      *)
(* prevent, for any keys, any commands, any nesting of them and any number *)
(* of units.                                                               *)
(***************************************************************************)
EXTENDS ExecutionUnit, TLAPS

(* A C stack of call()s. *)
IsStack(s) == (\E S : s \in Seq(S)) /\ \A i \in 1 .. Len(s) : "kind" \in DOMAIN s[i]

(* The kinds of commands that ask the gates for what they run. *)
Asking(s) == \A i \in 1 .. Len(s) : s[i].kind \in {"EXEC", "EVAL"}

(* While writes are refused, all that runs asks the gates: a module command is
   refused itself, and the gates do not change within a unit. *)
GateInv ==
    /\ {deny, denied_write} \subseteq BOOLEAN /\ ~denied_write
    /\ ~Gates => ~deny
    /\ IsStack(stack) /\ (deny => Asking(stack))

(* RAIN.CALL does not ask the gates (raincall_inprocess.c). *)
RainIsKept == Gates => "RAIN.FALL" \notin Kinds

-----------------------------------------------------------------------------

(* A stack is a sequence. *)
LEMMA StackFacts ==
    ASSUME NEW s, IsStack(s)
    PROVE  /\ Len(s) \in Nat /\ DOMAIN s = 1 .. Len(s)
           /\ s # <<>> => Last(s) = s[Len(s)] /\ Len(s) \in 1 .. Len(s)
  BY DEF IsStack, Last

(* A command that begins is on top of the stack. *)
LEMMA Pushed ==
    ASSUME NEW s, IsStack(s), NEW f, "kind" \in DOMAIN f
    PROVE  /\ IsStack(Append(s, f))
           /\ Asking(s) /\ f.kind \in {"EXEC", "EVAL"} => Asking(Append(s, f))
  <1>1. PICK S : s \in Seq(S)
    BY Zenon DEF IsStack
  <1> DEFINE T == S \cup {f}
  <1>2. s \in Seq(T) /\ f \in T
    BY <1>1
  <1> HIDE DEF T
  <1>3. /\ Append(s, f) \in Seq(T) /\ Len(Append(s, f)) = Len(s) + 1 /\ Len(s) \in Nat
        /\ \A i \in 1 .. Len(s) : Append(s, f)[i] = s[i]
        /\ Append(s, f)[Len(s) + 1] = f
    BY <1>2
  <1>4. \A i \in 1 .. (Len(s) + 1) : i \in 1 .. Len(s) \/ i = Len(s) + 1
    BY <1>3
  <1> HIDE DEF T
  <1> QED BY <1>3, <1>4, Zenon DEF IsStack, Asking

(* A command that ends is taken off it. *)
LEMMA Popped ==
    ASSUME NEW s, IsStack(s), s # <<>>
    PROVE  IsStack(Front(s)) /\ (Asking(s) => Asking(Front(s)))
  <1>1. PICK S : s \in Seq(S)
    BY Zenon DEF IsStack
  <1>2. Len(s) \in Nat \ {0}
    BY <1>1
  <1>3. /\ Front(s) \in Seq(S) /\ Len(Front(s)) = Len(s) - 1
        /\ \A i \in 1 .. (Len(s) - 1) : Front(s)[i] = s[i] /\ i \in 1 .. Len(s)
    <2> DEFINE k == Len(s) - 1
               u == SubSeq(s, 1, k)
    <2>1. k \in Nat /\ k <= Len(s) /\ \A i \in 1 .. k : i \in 1 .. Len(s) /\ i \in Nat /\ s[i] \in S
      BY <1>1, <1>2
    <2>2. Front(s) = u
      BY Zenon DEF Front
    <2> HIDE DEF k
    <2>3. Len(u) = k /\ \A i \in 1 .. k : u[i] = s[i]
      BY <1>1, <2>1
    <2>4. u \in Seq(S)
      <3>1. u = [i \in 1 .. k |-> s[i]]
        BY <1>1, <2>1
      <3>2. u \in [1 .. k -> S]
        BY <2>1, <3>1, Zenon
      <3> HIDE DEF u
      <3> QED BY <2>1, <3>2
    <2> HIDE DEF u
    <2>5. Front(s) \in Seq(S) /\ Len(Front(s)) = k /\ \A i \in 1 .. k : Front(s)[i] = s[i] /\ i \in 1 .. Len(s)
      BY <2>1, <2>2, <2>3, <2>4, Zenon
    <2> QED BY <2>5, Zenon DEF k
  <1> QED BY <1>2, <1>3, Zenon DEF IsStack, Asking

(* Recording a simple command in what runs it changes no kind. *)
LEMMA RecordedKinds ==
    ASSUME IsStack(stack), NEW leaf
    PROVE  IsStack(Recorded(leaf)) /\ (Asking(stack) => Asking(Recorded(leaf)))
  <1> DEFINE r == Recorded(leaf)
             R == {r[i] : i \in 1 .. Len(stack)}
  <1>1. Len(stack) \in Nat /\ DOMAIN stack = 1 .. Len(stack)
    BY StackFacts, Zenon
  <1>2. DOMAIN r = 1 .. Len(stack)
        /\ \A i \in 1 .. Len(stack) : "kind" \in DOMAIN r[i] /\ r[i].kind = stack[i].kind
    BY <1>1, Zenon DEF Recorded, IsStack
  <1>3. r = [i \in 1 .. Len(stack) |-> r[i]]
    BY <1>1, <1>2, Zenon DEF Recorded
  <1>4. r \in [1 .. Len(stack) -> R]
    BY <1>3, Zenon
  <1> HIDE DEF R, r
  <1>5. r \in Seq(R) /\ Len(r) = Len(stack)
    BY <1>1, <1>2, <1>4
  <1>6. IsStack(r) /\ (Asking(stack) => Asking(r))
    BY <1>2, <1>5, Zenon DEF IsStack, Asking
  <1> QED BY <1>6, Zenon DEF r

(* What may run while writes are refused is no write. *)
LEMMA DeniedMeansNoWrite ==
    ASSUME GateInv, NEW cmd, MayRun(cmd), deny
    PROVE  cmd \notin WriteCommands
  <1>1. stack # <<>> => Top.kind \in {"EXEC", "EVAL"}
    BY StackFacts, Zenon DEF GateInv, Asking, Top
  <1> QED BY <1>1, Zenon DEF MayRun, Gated

(* call() of a simple command. *)
LEMMA CallKeeps ==
    ASSUME GateInv, NEW leaf, MayRun(leaf.cmd), NEW full, call(leaf, full), UNCHANGED deny
    PROVE  GateInv'
  <1>1. stack' = Recorded(leaf) /\ denied_write' = (denied_write \/ (deny /\ leaf.cmd \in WriteCommands))
    BY Zenon DEF call
  <1>2. ~(deny /\ leaf.cmd \in WriteCommands)
    BY DeniedMeansNoWrite, Zenon
  <1>3. denied_write' = FALSE
    BY <1>1, <1>2, Zenon DEF GateInv
  <1>4. IsStack(stack') /\ (deny => Asking(stack'))
    BY <1>1, RecordedKinds, Zenon DEF GateInv
  <1> QED BY <1>3, <1>4, Zenon DEF GateInv

(* The beginning of a command that runs others. *)
LEMMA BeginKeeps ==
    ASSUME RainIsKept, GateInv, NEW kind \in Kinds, CallBegin(kind)
    PROVE  GateInv'
  <1> DEFINE f == [kind |-> kind, dirty |-> dirty, full |-> FullCall,
                   allowed |-> replication_allowed, body |-> <<>>]
  <1>1. stack' = Append(stack, f) /\ UNCHANGED <<deny, denied_write>>
    BY Zenon DEF CallBegin
  <1>2. "kind" \in DOMAIN f /\ f.kind = kind
    BY Zenon
  <1> HIDE DEF f
  <1>3. deny => kind \in {"EXEC", "EVAL"}
    <2>1. deny => kind \notin WriteCommands
      BY DeniedMeansNoWrite, Zenon DEF CallBegin
    <2>2. deny => Gates
      BY Zenon DEF GateInv
    <2> QED BY <2>1, <2>2, ExecutionUnitAssumption, Zenon
            DEF RainIsKept, WriteCommands, ModuleKinds, AllKinds
  <1>4. IsStack(stack') /\ (deny => Asking(stack'))
    BY <1>1, <1>2, <1>3, Pushed, Zenon DEF GateInv
  <1> QED BY <1>1, <1>4, Zenon DEF GateInv

(* Its end. *)
LEMMA EndKeeps ==
    ASSUME GateInv, CallEnd
    PROVE  GateInv'
  <1>1. stack # <<>> /\ stack' = Front(stack) /\ UNCHANGED <<deny, denied_write>>
    BY Zenon DEF CallEnd
  <1>2. IsStack(stack') /\ (deny => Asking(stack'))
    BY <1>1, Popped, Zenon DEF GateInv
  <1> QED BY <1>1, <1>2, Zenon DEF GateInv

(* A gate changes between units only. *)
LEMMA GateChangeKeeps ==
    ASSUME GateInv, GateChanges
    PROVE  GateInv'
  <1>1. stack = <<>> /\ UNCHANGED <<stack, denied_write>> /\ deny' = ~deny /\ Gates
    BY Zenon DEF GateChanges
  <1>2. Len(stack) = 0
    BY <1>1, Zenon
  <1>3. Asking(stack)
    BY <1>2 DEF Asking
  <1> QED BY <1>1, <1>3, Zenon DEF GateInv

(* No command, in whatever transactions, scripts and modules it is nested, writes
   while processCommand refuses writes, unless RAIN.FALL runs it: the gates of
   processCommand and scriptVerifyWriteCommandAllow() are enough for EXEC, EVAL
   and modules, and RAIN.CALL is the only way around them. *)
THEOREM GatesHold ==
    ASSUME RainIsKept
    PROVE  Spec => []NoWriteWhileDenied
  <1>1. Init => GateInv
    <2>1. IsStack(<<>>) /\ Asking(<<>>)
      BY DEF IsStack, Asking
    <2> QED BY <2>1, Zenon DEF Init, GateInv
  <1>2. GateInv /\ [Next]_vars => GateInv'
    <2> SUFFICES ASSUME GateInv, [Next]_vars PROVE GateInv'
      BY Zenon
    <2>1. ASSUME NEW leaf \in Leaf, ClientCommand(leaf) PROVE GateInv'
      BY <2>1, CallKeeps, Zenon DEF ClientCommand
    <2>2. ASSUME NEW leaf \in Leaf, NestedCommand(leaf) PROVE GateInv'
      BY <2>2, CallKeeps, Zenon DEF NestedCommand
    <2>3. ASSUME NEW kind \in Kinds, CallBegin(kind) PROVE GateInv'
      BY <2>3, BeginKeeps, Zenon
    <2>4. CASE CallEnd
      BY <2>4, EndKeeps, Zenon
    <2>5. ASSUME NEW k \in Keys, TimePasses(k) \/ activeExpireCycleTryExpire(k) PROVE GateInv'
      <3>1. UNCHANGED <<stack, deny, denied_write>>
        BY <2>5 DEF TimePasses, activeExpireCycleTryExpire
      <3> QED BY <3>1, Zenon DEF GateInv
    <2>6. CASE GateChanges
      BY <2>6, GateChangeKeeps
    <2>7. CASE UNCHANGED vars
      BY <2>7, Zenon DEF vars, GateInv
    <2> QED BY <2>1, <2>2, <2>3, <2>4, <2>5, <2>6, <2>7 DEF Next
  <1>3. GateInv => NoWriteWhileDenied
    BY Zenon DEF GateInv, NoWriteWhileDenied
  <1> QED BY <1>1, <1>2, <1>3, PTL DEF Spec
=============================================================================
