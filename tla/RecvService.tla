----------------------------- MODULE RecvService -----------------------------
(***************************************************************************)
(* What muQuinetd promises an application that reads from a socket: a      *)
(* bounded FIFO of datagrams per socket, and one answer per recvfrom call. *)
(* An answer hands over the oldest datagram, or - on a nonblocking socket  *)
(* that has none - says so.  Module SocketRecv is the code that is meant   *)
(* to keep the promise; the promise itself is nobody's code.               *)
(***************************************************************************)
EXTENDS Naturals, Sequences

CONSTANTS
    Sockets,        \* the sockets of the daemon
    Nonblocking,    \* those created with SOCK_NONBLOCK
    Packets,        \* what the network can deliver
    Capacity        \* how many packets a socket holds at most

VARIABLES
    buffered,       \* socket -> packets accepted and not yet handed over
    delivered,      \* socket -> packets handed over, oldest first
    pending         \* socket -> recvfrom calls made and not yet answered

Init ==
    /\ buffered = [s \in Sockets |-> <<>>]
    /\ delivered = [s \in Sockets |-> <<>>]
    /\ pending = [s \in Sockets |-> 0]

\* A packet arrives for s and there is room for it.
Accept(s, p) ==
    /\ Len(buffered[s]) < Capacity
    /\ buffered' = [buffered EXCEPT ![s] = Append(@, p)]
    /\ UNCHANGED <<delivered, pending>>

\* The application calls recvfrom on s.
Call(s) ==
    /\ pending' = [pending EXCEPT ![s] = @ + 1]
    /\ UNCHANGED <<buffered, delivered>>

\* One pending call on s is answered with the oldest packet.
Deliver(s) ==
    /\ pending[s] > 0
    /\ buffered[s] # <<>>
    /\ pending' = [pending EXCEPT ![s] = @ - 1]
    /\ delivered' = [delivered EXCEPT ![s] = Append(@, Head(buffered[s]))]
    /\ buffered' = [buffered EXCEPT ![s] = Tail(@)]

\* One pending call on the nonblocking socket s is told there is nothing.
Refuse(s) ==
    /\ s \in Nonblocking
    /\ pending[s] > 0
    /\ buffered[s] = <<>>
    /\ pending' = [pending EXCEPT ![s] = @ - 1]
    /\ UNCHANGED <<buffered, delivered>>

Next ==
    \E s \in Sockets :
        \/ \E p \in Packets : Accept(s, p)
        \/ Call(s)
        \/ Deliver(s)
        \/ Refuse(s)

vars == <<buffered, delivered, pending>>

Spec == Init /\ [][Next]_vars
=============================================================================
