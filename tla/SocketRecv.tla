----------------------------- MODULE SocketRecv -----------------------------
(***************************************************************************)
(* The receive path of muQuinetd, from the IP thread to the application.   *)
(*                                                                         *)
(* Three kinds of thread meet here.  The IP thread (Ip.cpp, rx_loop)       *)
(* demultiplexes a packet to a Socket, puts it in the Socket's recvQ and   *)
(* writes a byte to the Socket's notification pipe.  The event loop thread *)
(* (EventLoop::loop) serves, one at a time, the readable channels epoll    *)
(* reported: the request channels of the applications (rr) and the         *)
(* notification pipes.  The applications' threads call recvfrom or sendto, *)
(* which send one Request and read Responses until one is not WAIT_NEXT.   *)
(*                                                                         *)
(* A request handler runs to completion in the event loop thread, and the  *)
(* flag `waiting` is that thread's alone, so "try the queue, then set      *)
(* waiting" is one action: whatever the IP thread does in between has the  *)
(* same effect just after it.                                              *)
(*                                                                         *)
(* Not in this module: creation and destruction of sockets, errors of      *)
(* pipe and channel writes, more than 64 ready channels in one epoll_wait. *)
(***************************************************************************)
EXTENDS Naturals, Sequences, FiniteSets

CONSTANTS
    Clients,        \* application threads
    Sockets,        \* sockets, each with its request channel and its pipe
    SockOf,         \* the socket each client uses (shared if not injective)
    Nonblocking,    \* sockets created with SOCK_NONBLOCK
    Tcp,            \* sockets created with SOCK_STREAM
    WantAddr,       \* clients that pass src_addr to recvfrom
    RecvQLimit,     \* Socket::Impl::recvQlimit (128 in the code)
    PipeCapacity,   \* bytes the notification pipe holds
    MaxPackets,     \* bound: packets that arrive in a behaviour
    NoSocket        \* "no socket"

ASSUME SockOfAssumption == SockOf \in [Clients -> Sockets]
ASSUME SubsetsAssumption ==
    /\ Nonblocking \subseteq Sockets
    /\ Tcp \subseteq Sockets
    /\ WantAddr \subseteq Clients
ASSUME LimitsAssumption ==
    /\ RecvQLimit \in Nat
    /\ PipeCapacity \in Nat \ {0}
    /\ MaxPackets \in Nat
ASSUME NoSocketAssumption == NoSocket \notin Sockets

VARIABLES
    recvQ,      \* Socket::Impl::recvQ: socket -> packets
    pipe,       \* socket -> bytes in new_packet_notify_pipe
    waiting,    \* Socket::Impl::waiting
    cbAddr,     \* the require_addr bound into Socket::Impl::onAsyncNewPacket
    req,        \* socket -> Requests sent and not yet read by the daemon
    resp,       \* socket -> Responses written and not yet read
    actives,    \* EventLoop::loop: channels of this round still to serve
    taking,     \* the socket whose takeFromRecvQ the event loop is inside
    ipPc,       \* where the IP thread is in Socket::putToRecvQ
    ipSock,     \* ... and on which socket
    arrived,    \* number of the last packet that arrived
    cstate,     \* client -> the call it is inside
    answered,   \* history: socket -> packets the event loop handed over
    got         \* history: socket -> packets its clients' calls returned

daemonVars == <<waiting, cbAddr, actives, taking, answered>>
ipVars == <<ipPc, ipSock, arrived>>
clientVars == <<cstate, got>>
vars == <<recvQ, pipe, waiting, cbAddr, req, resp, actives, taking, ipPc,
          ipSock, arrived, cstate, answered, got>>

Calls == {"recvfrom", "sendto"}
Packets == 1 .. MaxPackets
NoPacket == 0
Requests == [call : Calls, addr : BOOLEAN]
WaitNext == [code |-> "WAIT_NEXT", call |-> "none", pkt |-> NoPacket, addr |-> FALSE]
Answer(call, p, addr) == [code |-> "OK", call |-> call, pkt |-> p, addr |-> addr]
Answers == {Answer(call, p, addr) :
                call \in Calls, p \in Packets \cup {NoPacket}, addr \in BOOLEAN}
Responses == Answers \cup {WaitNext}
Channels == {"rr", "pipe"} \X Sockets

Init ==
    /\ recvQ = [s \in Sockets |-> <<>>]
    /\ pipe = [s \in Sockets |-> 0]
    /\ waiting = [s \in Sockets |-> FALSE]
    /\ cbAddr = [s \in Sockets |-> FALSE]
    /\ req = [s \in Sockets |-> <<>>]
    /\ resp = [s \in Sockets |-> <<>>]
    /\ actives = {}
    /\ taking = NoSocket
    /\ ipPc = "idle"
    /\ ipSock = NoSocket
    /\ arrived = 0
    /\ cstate = [c \in Clients |-> "idle"]
    /\ answered = [s \in Sockets |-> <<>>]
    /\ got = [s \in Sockets |-> <<>>]

-----------------------------------------------------------------------------
(* The IP thread *)

\* Mutant: the size test lets one more packet in.
IpArrive_OffByOne(s) ==
    /\ ipPc = "idle"
    /\ arrived < MaxPackets
    /\ arrived' = arrived + 1
    /\ \/ /\ Len(recvQ[s]) > RecvQLimit + 1
          /\ UNCHANGED <<ipPc, ipSock>>
       \/ /\ Len(recvQ[s]) <= RecvQLimit + 1
          /\ ipPc' = "enqueue"
          /\ ipSock' = s
    /\ UNCHANGED <<recvQ, pipe, req, resp, daemonVars, clientVars>>

\* UdpPcb::recv or TcpPcb::recv hands a packet to putToRecvQ, which drops it
\* when the queue is over the limit.
IpArrive(s) ==
    /\ ipPc = "idle"
    /\ arrived < MaxPackets
    /\ arrived' = arrived + 1
    /\ \/ /\ Len(recvQ[s]) > RecvQLimit
          /\ UNCHANGED <<ipPc, ipSock>>
       \/ /\ Len(recvQ[s]) <= RecvQLimit
          /\ ipPc' = "enqueue"
          /\ ipSock' = s
    /\ UNCHANGED <<recvQ, pipe, req, resp, daemonVars, clientVars>>

IpEnqueue ==
    /\ ipPc = "enqueue"
    /\ recvQ' = [recvQ EXCEPT ![ipSock] = Append(@, arrived)]
    /\ ipPc' = "notify"
    /\ UNCHANGED <<pipe, req, resp, ipSock, arrived, daemonVars, clientVars>>

\* Mutants: the notification is not written; it is written past the end.
IpNotify_Missing ==
    /\ ipPc = "notify"
    /\ ipPc' = "idle"
    /\ ipSock' = NoSocket
    /\ UNCHANGED <<recvQ, pipe, req, resp, arrived, daemonVars, clientVars>>

IpNotify_Overflow ==
    /\ ipPc = "notify"
    /\ pipe' = [pipe EXCEPT ![ipSock] = @ + 1]
    /\ ipPc' = "idle"
    /\ ipSock' = NoSocket
    /\ UNCHANGED <<recvQ, req, resp, arrived, daemonVars, clientVars>>

\* The pipe is nonblocking: a byte that does not fit is lost.
IpNotify ==
    /\ ipPc = "notify"
    /\ pipe' = [pipe EXCEPT ![ipSock] = IF @ < PipeCapacity THEN @ + 1 ELSE @]
    /\ ipPc' = "idle"
    /\ ipSock' = NoSocket
    /\ UNCHANGED <<recvQ, req, resp, arrived, daemonVars, clientVars>>

-----------------------------------------------------------------------------
(* The event loop thread *)

ReadyChannels ==
    {<<"rr", s>> : s \in {s \in Sockets : req[s] # <<>>}}
        \cup {<<"pipe", s>> : s \in {s \in Sockets : pipe[s] > 0}}

\* epoll_wait returns when something is readable, in an order of its own.
Poll ==
    /\ actives = {}
    /\ taking = NoSocket
    /\ ReadyChannels # {}
    /\ actives' = ReadyChannels
    /\ UNCHANGED <<recvQ, pipe, waiting, cbAddr, req, resp, taking, answered,
                   ipVars, clientVars>>

\* The response a handler hands back is written by onReadReady.
Respond(s, r) == resp' = [resp EXCEPT ![s] = Append(@, r)]

Take(s) ==
    /\ recvQ' = [recvQ EXCEPT ![s] = Tail(@)]
    /\ answered' = [answered EXCEPT ![s] = Append(@, Head(recvQ[s]))]

\* Mutant: a blocking socket always leaves the answer to the callback.
recvfromCall_AlwaysWait(s, r) ==
    \/ /\ recvQ[s] # <<>>
       /\ s \in Nonblocking
       /\ Respond(s, Answer("recvfrom", Head(recvQ[s]), r.addr))
       /\ Take(s)
       /\ UNCHANGED <<waiting, cbAddr>>
    \/ /\ recvQ[s] = <<>>
       /\ s \in Nonblocking
       /\ Respond(s, Answer("recvfrom", NoPacket, FALSE))
       /\ UNCHANGED <<recvQ, answered, waiting, cbAddr>>
    \/ /\ s \notin Nonblocking
       /\ Respond(s, WaitNext)
       /\ waiting' = [waiting EXCEPT ![s] = TRUE]
       /\ cbAddr' = [cbAddr EXCEPT ![s] = r.addr]
       /\ UNCHANGED <<recvQ, answered>>

\* RequestHandler::recvfromCall: take a packet if there is one; otherwise say
\* EAGAIN on a nonblocking socket and WAIT_NEXT on a blocking one.
recvfromCall(s, r) ==
    \/ /\ recvQ[s] # <<>>
       /\ Respond(s, Answer("recvfrom", Head(recvQ[s]), r.addr))
       /\ Take(s)
       /\ UNCHANGED <<waiting, cbAddr>>
    \/ /\ recvQ[s] = <<>>
       /\ s \in Nonblocking
       /\ Respond(s, Answer("recvfrom", NoPacket, FALSE))
       /\ UNCHANGED <<recvQ, answered, waiting, cbAddr>>
    \/ /\ recvQ[s] = <<>>
       /\ s \notin Nonblocking
       /\ Respond(s, WaitNext)
       /\ waiting' = [waiting EXCEPT ![s] = TRUE]
       /\ cbAddr' = [cbAddr EXCEPT ![s] = r.addr]
       /\ UNCHANGED <<recvQ, answered>>

\* Mutant: the response is filled in as one to recvfrom.
sendtoCall_WrongKind(s) ==
    /\ Respond(s, Answer("recvfrom", NoPacket, FALSE))
    /\ UNCHANGED <<recvQ, answered, waiting, cbAddr>>

\* RequestHandler::sendtoCall stands for every call answered on the spot.
sendtoCall(s) ==
    /\ Respond(s, Answer("sendto", NoPacket, FALSE))
    /\ UNCHANGED <<recvQ, answered, waiting, cbAddr>>

\* ReqRespChannel::Impl::onReadReady: one Request is read, handled, answered.
onReadReady(s) ==
    /\ taking = NoSocket
    /\ <<"rr", s>> \in actives
    /\ req[s] # <<>>
    /\ actives' = actives \ {<<"rr", s>>}
    /\ req' = [req EXCEPT ![s] = Tail(@)]
    /\ \/ Head(req[s]).call = "recvfrom" /\ recvfromCall(s, Head(req[s]))
       \/ Head(req[s]).call = "sendto" /\ sendtoCall(s)
    /\ UNCHANGED <<pipe, taking, ipVars, clientVars>>

\* Mutants: the flag is not tested; the flag is reset before the callback.
sChannelReadCb_NoTest(s) ==
    /\ taking = NoSocket
    /\ <<"pipe", s>> \in actives
    /\ actives' = actives \ {<<"pipe", s>>}
    /\ pipe' = [pipe EXCEPT ![s] = 0]
    /\ taking' = s
    /\ UNCHANGED <<recvQ, waiting, cbAddr, req, resp, answered, ipVars, clientVars>>

sChannelReadCb_EarlyReset(s) ==
    /\ taking = NoSocket
    /\ <<"pipe", s>> \in actives
    /\ actives' = actives \ {<<"pipe", s>>}
    /\ pipe' = [pipe EXCEPT ![s] = 0]
    /\ taking' = IF waiting[s] THEN s ELSE NoSocket
    /\ waiting' = [waiting EXCEPT ![s] = FALSE]
    /\ UNCHANGED <<recvQ, cbAddr, req, resp, answered, ipVars, clientVars>>

\* Socket::Impl::sChannelReadCb up to its call of onAsyncNewPacket: drain the
\* pipe, then go on only if a recvfrom is waiting.
sChannelReadCb(s) ==
    /\ taking = NoSocket
    /\ <<"pipe", s>> \in actives
    /\ actives' = actives \ {<<"pipe", s>>}
    /\ pipe' = [pipe EXCEPT ![s] = 0]
    /\ taking' = IF waiting[s] THEN s ELSE NoSocket
    /\ UNCHANGED <<recvQ, waiting, cbAddr, req, resp, answered, ipVars, clientVars>>

\* Mutants: the flag stays up; the response goes out without its payload.
onAsyncNewPacket_NoReset(s) ==
    /\ taking = s
    /\ recvQ[s] # <<>>
    /\ Respond(s, Answer("recvfrom", Head(recvQ[s]), s \notin Tcp /\ cbAddr[s]))
    /\ Take(s)
    /\ taking' = NoSocket
    /\ UNCHANGED <<pipe, waiting, cbAddr, req, actives, ipVars, clientVars>>

onAsyncNewPacket_NoPayload(s) ==
    /\ taking = s
    /\ recvQ[s] # <<>>
    /\ Respond(s, Answer("recvfrom", NoPacket, s \notin Tcp /\ cbAddr[s]))
    /\ Take(s)
    /\ waiting' = [waiting EXCEPT ![s] = FALSE]
    /\ taking' = NoSocket
    /\ UNCHANGED <<pipe, cbAddr, req, actives, ipVars, clientVars>>

\* The rest of it.  takeFromRecvQ is wait_dequeue: the event loop thread goes
\* no further until this socket's queue has a packet.  The TCP callback does
\* not put an address in the response.
onAsyncNewPacket(s) ==
    /\ taking = s
    /\ recvQ[s] # <<>>
    /\ Respond(s, Answer("recvfrom", Head(recvQ[s]), s \notin Tcp /\ cbAddr[s]))
    /\ Take(s)
    /\ waiting' = [waiting EXCEPT ![s] = FALSE]
    /\ taking' = NoSocket
    /\ UNCHANGED <<pipe, cbAddr, req, actives, ipVars, clientVars>>

-----------------------------------------------------------------------------
(* The applications: the interceptor's recvfrom, sendto and channel_recv *)

CallRecvfrom(c) ==
    /\ cstate[c] = "idle"
    /\ cstate' = [cstate EXCEPT ![c] = "recvfrom"]
    /\ req' = [req EXCEPT ![SockOf[c]] =
                    Append(@, [call |-> "recvfrom", addr |-> c \in WantAddr])]
    /\ UNCHANGED <<recvQ, pipe, resp, got, daemonVars, ipVars>>

CallSendto(c) ==
    /\ cstate[c] = "idle"
    /\ cstate' = [cstate EXCEPT ![c] = "sendto"]
    /\ req' = [req EXCEPT ![SockOf[c]] = Append(@, [call |-> "sendto", addr |-> FALSE])]
    /\ UNCHANGED <<recvQ, pipe, resp, got, daemonVars, ipVars>>

\* A client inside a call has read Response r from its channel.
ReadResponse(c, r) ==
    /\ cstate[c] \in Calls
    /\ resp[SockOf[c]] # <<>>
    /\ r = Head(resp[SockOf[c]])
    /\ resp' = [resp EXCEPT ![SockOf[c]] = Tail(@)]
    /\ UNCHANGED <<recvQ, pipe, req, daemonVars, ipVars>>

\* channel_recv reads again after WAIT_NEXT.
SkipWaitNext(c) ==
    /\ ReadResponse(c, WaitNext)
    /\ UNCHANGED clientVars

\* The two assertions of recvfrom: the response is one to recvfrom, and it has
\* an address when the caller asked for one and the result is not -1, which
\* the daemon never sends.
AnswerFits(c, r) ==
    /\ r.call = cstate[c]
    /\ cstate[c] = "recvfrom" /\ c \in WantAddr => r.addr

Return(c) ==
    \E r \in Answers :
        /\ ReadResponse(c, r)
        /\ AnswerFits(c, r)
        /\ cstate' = [cstate EXCEPT ![c] = "idle"]
        /\ got' = IF r.pkt = NoPacket
                    THEN got
                    ELSE [got EXCEPT ![SockOf[c]] = Append(@, r.pkt)]

\* A failed assertion aborts the application; in a build without assertions it
\* goes on to copy the address that is not there, which kills it as well.
Abort(c) ==
    \E r \in Answers :
        /\ ReadResponse(c, r)
        /\ ~AnswerFits(c, r)
        /\ cstate' = [cstate EXCEPT ![c] = "aborted"]
        /\ UNCHANGED got

-----------------------------------------------------------------------------

IpThread ==
    \/ \E s \in Sockets : IpArrive(s)
    \/ IpEnqueue
    \/ IpNotify

EventLoop ==
    \/ Poll
    \/ \E s \in Sockets :
           \/ onReadReady(s)
           \/ sChannelReadCb(s)
           \/ onAsyncNewPacket(s)

InCall(c) == SkipWaitNext(c) \/ Return(c) \/ Abort(c)

Client(c) == CallRecvfrom(c) \/ CallSendto(c) \/ InCall(c)

Next == IpThread \/ EventLoop \/ \E c \in Clients : Client(c)

\* Every thread that can take its next step eventually does.  Nothing makes
\* the network send another packet or an application make another call.
Fairness ==
    /\ WF_vars(IpEnqueue)
    /\ WF_vars(IpNotify)
    /\ WF_vars(EventLoop)
    /\ \A c \in Clients : WF_vars(InCall(c))

Spec == Init /\ [][Next]_vars
FairSpec == Spec /\ Fairness

-----------------------------------------------------------------------------
(* Properties *)

\* Every variable holds a value the code could hold (Socket, EventLoop, IP
\* thread and the two message queues of each request channel).
TypeOK ==
    /\ recvQ \in [Sockets -> Seq(Packets)]
    /\ pipe \in [Sockets -> 0 .. PipeCapacity]
    /\ waiting \in [Sockets -> BOOLEAN]
    /\ cbAddr \in [Sockets -> BOOLEAN]
    /\ req \in [Sockets -> Seq(Requests)]
    /\ resp \in [Sockets -> Seq(Responses)]
    /\ actives \subseteq Channels
    /\ taking \in Sockets \cup {NoSocket}
    /\ arrived \in 0 .. MaxPackets
    /\ \/ ipPc = "idle" /\ ipSock = NoSocket
       \/ ipPc \in {"enqueue", "notify"} /\ ipSock \in Sockets /\ arrived > 0
    /\ cstate \in [Clients -> Calls \cup {"idle", "aborted"}]
    /\ answered \in [Sockets -> Seq(Packets)]
    /\ got \in [Sockets -> Seq(Packets)]

\* putToRecvQ tests the size and enqueues in two steps, against a concurrent
\* dequeue by the event loop: the queue still never exceeds recvQlimit + 1.
QueueBounded == \A s \in Sockets : Len(recvQ[s]) <= RecvQLimit + 1

\* A recvfrom that waits while its queue holds a packet will be woken: the
\* pipe is readable, or the IP thread is about to make it so, or the event
\* loop has drained it and is fetching the packet.
NoLostWakeup ==
    \A s \in Sockets :
        waiting[s] /\ recvQ[s] # <<>> =>
            \/ pipe[s] > 0
            \/ ipPc = "notify" /\ ipSock = s
            \/ taking = s

\* Each client has a socket of its own.
Owned == \A c, d \in Clients : SockOf[c] = SockOf[d] => c = d

Called(c, s) ==
    /\ ~waiting[s]
    /\ resp[s] = <<>>
    /\ Len(req[s]) = 1
    /\ req[s][1].call = cstate[c]

Waiting(c, s) ==
    /\ waiting[s]
    /\ req[s] = <<>>
    /\ cstate[c] = "recvfrom"
    /\ resp[s] \in {<<>>, <<WaitNext>>}

Answered(c, s) ==
    /\ ~waiting[s]
    /\ req[s] = <<>>
    /\ \E r \in Answers :
           /\ r.call = cstate[c]
           /\ resp[s] \in {<<r>>, <<WaitNext, r>>}

Quiet(s) == ~waiting[s] /\ req[s] = <<>> /\ resp[s] = <<>>

\* On a socket of its own a client inside a call is in exactly one of three
\* positions - its Request unread, its recvfrom waiting, its one final Response
\* of the right kind on the way after at most one WAIT_NEXT - and outside a
\* call nothing of an earlier call is left over.
OneAnswerPerCall ==
    Owned =>
        \A c \in Clients :
            IF cstate[c] \in Calls
              THEN \/ Called(c, SockOf[c])
                   \/ Waiting(c, SockOf[c])
                   \/ Answered(c, SockOf[c])
              ELSE Quiet(SockOf[c])

\* The packets carried by a response, and by a sequence of responses.
Carried(r) == IF r.pkt = NoPacket THEN <<>> ELSE <<r.pkt>>
Payloads(rs) ==
    LET upTo[n \in 0 .. Len(rs)] ==
            IF n = 0 THEN <<>> ELSE upTo[n - 1] \o Carried(rs[n])
    IN  upTo[Len(rs)]

\* What recvfrom calls have returned, followed by what is on its way in the
\* channel, is what the event loop took from the queue: the path over
\* WAIT_NEXT and a later answer loses, repeats and reorders nothing.
HandoverInOrder ==
    (\A c \in Clients : cstate[c] # "aborted") =>
        \A s \in Sockets : answered[s] = got[s] \o Payloads(resp[s])

\* A well-behaved client is only ever aborted because an address it asked for
\* is missing, and only on the two paths that omit it: EAGAIN, and the TCP
\* callback.
AbortsExplained ==
    Owned =>
        \A c \in Clients :
            cstate[c] = "aborted" =>
                c \in WantAddr /\ SockOf[c] \in Tcp \cup Nonblocking

\* recvfrom calls made on s whose answer is not yet written.
Pending(s) ==
    Cardinality({i \in DOMAIN req[s] : req[s][i].call = "recvfrom"})
        + (IF waiting[s] THEN 1 ELSE 0)

Service == INSTANCE RecvService
    WITH Capacity <- RecvQLimit + 1,
         buffered <- recvQ,
         delivered <- answered,
         pending <- [s \in Sockets |-> Pending(s)]

\* The receive path keeps the promise of RecvService: a bounded FIFO, and one
\* answer for each recvfrom.
ServiceKept == Service!Spec

\* The daemon eventually reads every request an application sends.
RequestServed == \A s \in Sockets : req[s] # <<>> ~> req[s] = <<>>

\* A client inside recvfrom whose socket has a packet gets an answer, or
\* another reader of the socket gets the packet.
ReceiverServed ==
    \A c \in Clients :
        cstate[c] = "recvfrom" /\ recvQ[SockOf[c]] # <<>>
            ~> cstate[c] # "recvfrom" \/ recvQ[SockOf[c]] = <<>>
=============================================================================
