---------------------------- MODULE RainReply -----------------------------
(***************************************************************************)
(* The path of a reply through RAIN.FALL "return RAIN.CALL(...)": the      *)
(* reply of the command (parsed by call_reply.c or hiredis) becomes a      *)
(* raincall_Reply, then a Lua value (utils/raincall/raincall.c), then the  *)
(* reply of RAIN.FALL (src/rainfall.c), in the protocol of the client.     *)
(*                                                                         *)
(* A reply is a tree: its type, its content v and its elements.  A map's   *)
(* elements are its keys and values in turn.                               *)
(***************************************************************************)
EXTENDS Naturals, Sequences, SequencesExt, FiniteSetsExt

CONSTANTS
    Contents,   \* contents of strings, numbers and errors
    MaxLen      \* bound: elements of an aggregate

ASSUME RainReplyAssumption == Contents # {} /\ MaxLen \in Nat

VARIABLES
    resp,       \* protocol version of the client, 2 or 3
    reply,      \* the command's reply
    lua,        \* what rain_call pushed: a value, or a raised error
    sent        \* the reply of RAIN.FALL

vars == <<resp, reply, lua, sent>>

-----------------------------------------------------------------------------
(* Replies a command can produce. *)

Reply(t, v, e) == [type |-> t, v |-> v, elements |-> e]

\* RESP2 has neither doubles, booleans, big numbers, verbatim strings, sets
\* nor maps.
Scalars(p) ==
    {"status", "string", "integer", "error"} \cup
    (IF p = 3 THEN {"double", "bool", "bignum", "verb"} ELSE {})

Aggregates(p) == {"array"} \cup (IF p = 3 THEN {"set", "map"} ELSE {})

NullReply(c) == Reply("null", c, <<>>)

Leaves(p) ==
    {Reply(t, v, <<>>) : t \in Scalars(p), v \in Contents}
        \cup {NullReply(CHOOSE v \in Contents : TRUE)}

Trees(p, kids) ==
    {Reply(t, CHOOSE v \in Contents : TRUE, e) :
        t \in Aggregates(p) \ {"map"}, e \in SeqOf(kids, MaxLen)}
    \cup {Reply(t, CHOOSE v \in Contents : TRUE, e) :
        t \in Aggregates(p) \cap {"map"},
        e \in {s \in SeqOf(kids, MaxLen) : Len(s) % 2 = 0}}

\* Leaves, trees of a few kinds of leaves, and trees of short such trees.
Replies(p) ==
    LET Some == {r \in Leaves(p) : r.type \in {"string", "null", "error"}}
        Short == {r \in Trees(p, Some) : Len(r.elements) <= 1}
        Mixed == {r \in Leaves(p) : r.type # "string"}
    IN  Leaves(p) \cup Trees(p, Some) \cup Trees(p, Mixed) \cup Trees(p, Short)

Elements(r) == ToSet(r.elements)

-----------------------------------------------------------------------------
(* To Lua: rain_call's last part. *)

Lua(t, v, e) == [type |-> t, v |-> v, elements |-> e]

LuaType(t) ==
    CASE t \in {"status", "string", "verb", "bignum"} -> "string"
      [] t = "null" -> "nil"
      [] OTHER -> t

RECURSIVE raincall_push_reply(_)

\* Mutant: elements are stored from index 0, which # does not count.
raincall_push_aggregate_reply_fromZero(r) ==
    LET pushed == [i \in 1..Len(r.elements) |-> raincall_push_reply(r.elements[i])]
        raised == {i \in DOMAIN pushed : pushed[i].type = "raise"}
    IN  IF raised = {} THEN Lua("table", r.v, SubSeq(pushed, 2, Len(pushed))) ELSE pushed[Min(raised)]

\* A table of the elements in order; the first one that raises ends it.
raincall_push_aggregate_reply(r) ==
    LET pushed == [i \in 1..Len(r.elements) |-> raincall_push_reply(r.elements[i])]
        raised == {i \in DOMAIN pushed : pushed[i].type = "raise"}
    IN  IF raised = {} THEN Lua("table", r.v, pushed) ELSE pushed[Min(raised)]

\* A table of one {key=, value=} table per pair: those have no array part.
raincall_push_map_reply(r) ==
    LET pushed == [i \in 1..Len(r.elements) |-> raincall_push_reply(r.elements[i])]
        raised == {i \in DOMAIN pushed : pushed[i].type = "raise"}
    IN  IF raised = {}
        THEN Lua("table", r.v,
                 [i \in 1..(Len(r.elements) \div 2) |-> Lua("table", r.v, <<>>)])
        ELSE pushed[Min(raised)]

\* Mutant: a nested error is pushed as a string.
raincall_push_reply_errorAsString(r) ==
    CASE r.type \in {"array", "set"} -> raincall_push_aggregate_reply(r)
      [] r.type = "map" -> raincall_push_map_reply(r)
      [] r.type = "error" -> Lua("string", r.v, <<>>)
      [] OTHER -> Lua(LuaType(r.type), r.v, <<>>)

\* raincall_push_reply of the raincall_Reply that r is converted to.
raincall_push_reply(r) ==
    CASE r.type \in {"array", "set"} -> raincall_push_aggregate_reply(r)
      [] r.type = "map" -> raincall_push_map_reply(r)
      [] r.type = "error" -> Lua("raise", r.v, <<>>)
      [] OTHER -> Lua(LuaType(r.type), r.v, <<>>)

-----------------------------------------------------------------------------
(* From Lua: rainFallCommand's last part. *)

\* The lengths mq_len may return: Lua gives any border of a table with holes.
Borders(e) ==
    {n \in 0..Len(e) : /\ n > 0 => e[n].type # "nil"
                       /\ n < Len(e) => e[n + 1].type = "nil"}

\* The type a scalar is sent as in RESP2.
InProtocol(p, t) ==
    IF p = 3 THEN t
    ELSE CASE t = "bool" -> "integer" [] t = "double" -> "string" [] OTHER -> t

RECURSIVE rainFallReplyFromLua(_, _)

\* The replies rainFallReplyTable may send: mq_len elements, in order.
rainFallReplyTable(p, x) ==
    {Reply("array", x.v, e) :
        e \in UNION {{s \in SeqOf(UNION {rainFallReplyFromLua(p, x.elements[i]) :
                                         i \in 1..n}, MaxLen) :
                        /\ Len(s) = n
                        /\ \A i \in DOMAIN s :
                              s[i] \in rainFallReplyFromLua(p, x.elements[i])} :
                     n \in Borders(x.elements)}}

rainFallReplyFromLua(p, x) ==
    CASE x.type = "raise" -> {Reply("error", x.v, <<>>)}
      [] x.type = "table" -> rainFallReplyTable(p, x)
      [] x.type = "nil" -> {Reply("null", x.v, <<>>)}
      [] OTHER -> {Reply(InProtocol(p, x.type), x.v, <<>>)}

-----------------------------------------------------------------------------
Init ==
    /\ resp \in {2, 3}
    /\ reply \in Replies(resp)
    /\ lua = <<>> /\ sent = <<>>

PushReply ==
    /\ lua = <<>>
    /\ lua' = <<raincall_push_reply(reply)>>
    /\ UNCHANGED <<resp, reply, sent>>

ReplyFromLua ==
    /\ lua # <<>> /\ sent = <<>>
    /\ \E s \in rainFallReplyFromLua(resp, lua[1]) : sent' = <<s>>
    /\ UNCHANGED <<resp, reply, lua>>

Next == PushReply \/ ReplyFromLua

Spec == Init /\ [][Next]_vars

-----------------------------------------------------------------------------
(* Properties. *)

RECURSIVE FirstError(_)

\* The errors of a reply in reading order: the first one, as a sequence.
FirstError(r) ==
    IF r.type = "error" THEN <<r.v>>
    ELSE LET with == {i \in DOMAIN r.elements : FirstError(r.elements[i]) # <<>>}
         IN  IF with = {} THEN <<>> ELSE FirstError(r.elements[Min(with)])

RECURSIVE Has(_, _)

\* The reply has a part of one of the types.
Has(r, types) == r.type \in types \/ \E e \in Elements(r) : Has(e, types)

RECURSIVE Agrees(_, _)

\* What a script that returns a command's reply may lose of it: a status, big
\* number or verbatim string comes back as a string, a set as an array, an
\* array is cut at a null, the pairs of a map are empty. Nothing else changes,
\* and nothing moves.
Agrees(s, r) ==
    CASE r.type \in {"array", "set"} ->
            /\ s.type = "array"
            /\ Len(s.elements) <= Len(r.elements)
            /\ \A i \in DOMAIN s.elements : Agrees(s.elements[i], r.elements[i])
            /\ Len(s.elements) < Len(r.elements)
                   => r.elements[Len(s.elements) + 1].type = "null"
      [] r.type = "map" ->
            s.type = "array" /\ 2 * Len(s.elements) = Len(r.elements)
      [] r.type \in {"status", "bignum", "verb"} -> s.type = "string" /\ s.v = r.v
      [] OTHER -> s = r

\* An error anywhere in the reply (an array of results may hold one) fails the
\* whole RAIN.FALL with the first such error, and no error appears otherwise.
ErrorsFailTheCall ==
    sent # <<>> =>
        IF FirstError(reply) # <<>>
        THEN sent[1].type = "error" /\ sent[1].v = FirstError(reply)[1]
        ELSE ~Has(sent[1], {"error"})

\* A reply without errors comes back as it was up to the listed losses.
RepliesAgree ==
    sent # <<>> /\ FirstError(reply) = <<>> => Agrees(sent[1], reply)
=============================================================================
