----------------------------- MODULE ByteStream -----------------------------
(***************************************************************************)
(* One direction of a SOCK_STREAM connection, as both ends see it: bytes   *)
(* are written at one end and received at the other, each exactly once and *)
(* in the order in which they were written.  A byte is its position in the *)
(* stream, so that what may be received next is the one number after the   *)
(* last.                                                                   *)
(***************************************************************************)
EXTENDS Naturals, Sequences

VARIABLES
    sent,       \* number of bytes written
    received    \* the bytes received

vars == <<sent, received>>

\* The n bytes of a stream that follow its first `from` bytes.
Bytes(from, n) == [i \in 1 .. n |-> from + i]

Init == sent = 0 /\ received = <<>>

Write == sent' >= sent /\ UNCHANGED received

Receive ==
    /\ \E n \in 1 .. sent - Len(received) :
           received' = received \o Bytes(Len(received), n)
    /\ UNCHANGED sent

Next == Write \/ Receive

Spec == Init /\ [][Next]_vars
=============================================================================
