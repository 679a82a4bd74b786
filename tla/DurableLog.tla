---------------------------- MODULE DurableLog ----------------------------
(* What persistence promises.  The data set is a log of writes, a prefix   *)
(* of which is declared durable.  A failure may lose a tail, never a write *)
(* in the middle and never a durable one; a restart finds what the failure *)
(* left and loses nothing more.                                            *)
EXTENDS Naturals, Sequences

CONSTANT Writes

VARIABLES running, log, durable

Init == running = FALSE /\ log = <<>> /\ durable = 0

Write ==
    /\ running
    /\ \E w \in Writes : log' = Append(log, w)
    /\ UNCHANGED <<running, durable>>

Promise ==
    /\ running
    /\ durable' \in durable..Len(log)
    /\ UNCHANGED <<running, log>>

Fail ==
    /\ running /\ running' = FALSE
    /\ \E n \in durable..Len(log) : log' = SubSeq(log, 1, n)
    /\ UNCHANGED durable

(* A clean stop may still promise, and keeps what it promises. *)
Stop ==
    /\ running /\ running' = FALSE
    /\ durable' \in durable..Len(log)
    /\ UNCHANGED log

Restart ==
    /\ ~running /\ running' = TRUE
    /\ UNCHANGED <<log, durable>>

Next == Write \/ Promise \/ Fail \/ Stop \/ Restart

Spec == Init /\ [][Next]_<<running, log, durable>>
===========================================================================
